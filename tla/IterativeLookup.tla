-------------------------- MODULE IterativeLookup --------------------------
(***************************************************************************)
(* One iterative lookup at one node (libkademlia.go: Iterative, HandleHeap *)
(* and doFind).  The lookup compares identifiers only by their distance to *)
(* the key, so a node is written as that distance: a smaller number is a   *)
(* nearer node, and two nodes never have the same one.                     *)
(*                                                                         *)
(* Iterative asks nodes in rounds, each in a doFind goroutine of its own   *)
(* that delivers one result over an unbuffered channel.  In the first      *)
(* phase a round may end by a timer of 300 ms; results that come later are *)
(* taken in a later round, or never.                                       *)
(***************************************************************************)
EXTENDS Integers, FiniteSets

CONSTANTS
    Node,       \* the other nodes, as distances to the key
    Self,       \* the node that searches
    FromTable,  \* what FindAlpha may answer for the key
    Reports,    \* Reports[n]: what FindCloset of node n may answer
    Holder,     \* the nodes that have a value for the key
    MayFail,    \* the nodes whose doFind may end with an error (10 s timer)
    Enough,     \* the literal 20 of the two loops
    Alpha       \* the literal 3 of the first loop

ASSUME NodeAssumption == Node \subseteq Nat /\ IsFiniteSet(Node)
ASSUME SelfAssumption == Self \in Nat \ Node
ASSUME AnswersAssumption ==
    /\ FromTable \subseteq SUBSET (Node \cup {Self})
    /\ Reports \in [Node -> SUBSET SUBSET (Node \cup {Self})]
ASSUME SetsAssumption == Holder \subseteq Node /\ MayFail \subseteq Node
ASSUME BoundsAssumption == Enough \in Nat \ {0} /\ Alpha \in Nat \ {0}

VARIABLES
    findValue,  \* the parameter of Iterative: a value is looked for, not nodes
    phase,      \* first, second (the two loops), or how Iterative returned:
                \* list, value, novalue or empty
    collecting, \* inside the inner loop, which takes results
    count,      \* the results that the round still waits for; may fall below 0
    candidates, \* the heap of HandleHeap
    nodeSet,    \* the nodes that were ever pushed on it
    active,     \* activeNodes: the nodes that answered without a value
    asked,      \* the nodes whose doFind has not delivered its result
    everAsked,  \* history: the nodes that were ever asked
    heard       \* history: the nodes that the table or an answer named

vars == <<findValue, phase, collecting, count, candidates, nodeSet, active, asked,
          everAsked, heard>>

\* The n nearest of a set of nodes, or all if there are fewer.
Nearest(S, n) == {x \in S : Cardinality({y \in S : y < x}) < n}

\* Variants of New: the searching node is pushed too; a node that is no longer
\* on the heap is pushed again.
NewWithSelf(S) == S \ nodeSet
NewAgain(S) == S \ (candidates \cup {Self})

\* The members of S that command 2 of HandleHeap pushes.
New(S) == S \ (nodeSet \cup {Self})

Init == /\ findValue \in BOOLEAN
        /\ phase = "first" /\ collecting = FALSE /\ count = 0
        /\ heard \in FromTable
        /\ nodeSet = heard \ {Self} /\ candidates = nodeSet
        /\ active = {} /\ asked = {} /\ everAsked = {}

----------------------------------------------------------------------------
\* Iterative returns.  The goroutines that still wait are never received from.
Return(how) == /\ phase' = how
               /\ collecting' = FALSE /\ count' = 0

NobodyKnown ==
    /\ phase = "first" /\ nodeSet = {}
    /\ Return("empty")
    /\ UNCHANGED <<findValue, candidates, nodeSet, active, asked, everAsked, heard>>

\* Variant of AskNearest: count what was wanted and not what was popped.
AskNearestWanted(n) ==
    LET popped == Nearest(candidates, n)
    IN  /\ candidates' = candidates \ popped
        /\ asked' = asked \cup popped
        /\ everAsked' = everAsked \cup popped
        /\ count' = n
        /\ collecting' = TRUE
        /\ UNCHANGED <<findValue, phase, nodeSet, active, heard>>

\* A round begins: pop up to n candidates (command 3) and ask them.
AskNearest(n) ==
    LET popped == Nearest(candidates, n)
    IN  /\ candidates' = candidates \ popped
        /\ asked' = asked \cup popped
        /\ everAsked' = everAsked \cup popped
        /\ count' = Cardinality(popped)
        /\ collecting' = TRUE
        /\ UNCHANGED <<findValue, phase, nodeSet, active, heard>>

BetweenRounds == ~ collecting /\ nodeSet # {}

AskFirst == /\ phase = "first" /\ BetweenRounds
            /\ Cardinality(active) < Enough
            /\ AskNearest(Alpha)

AskSecond == /\ phase = "second" /\ BetweenRounds
             /\ Cardinality(active) < Enough
             /\ AskNearest(Enough - Cardinality(active))

ListOrNoValue == IF findValue THEN "novalue" ELSE "list"

\* Both loops stop when enough nodes are active.
ReachedEnough ==
    /\ phase \in {"first", "second"} /\ BetweenRounds
    /\ Cardinality(active) >= Enough
    /\ Return(ListOrNoValue)
    /\ UNCHANGED <<findValue, candidates, nodeSet, active, asked, everAsked, heard>>

\* In the first phase 300 ms pass without a result.
RoundTimesOut ==
    /\ phase = "first" /\ collecting
    /\ collecting' = FALSE
    /\ UNCHANGED <<findValue, phase, count, candidates, nodeSet, active, asked, everAsked, heard>>

\* What follows a result in either phase.
CountDownFirst == /\ count' = count - 1
                  /\ collecting' = (count' # 0)
                  /\ UNCHANGED phase

\* Variant of CountDownSecond: candidates that are left do not matter.
CountDownSecondAtOnce ==
    IF count - 1 # 0
    THEN Return(ListOrNoValue)
    ELSE /\ count' = count - 1
         /\ collecting' = (count' # 0)
         /\ UNCHANGED phase

\* In the second phase the lookup also ends when there is no candidate left,
\* but this is looked at only if the round still waits for a result.
CountDownSecond ==
    IF count - 1 # 0 /\ candidates = {}
    THEN Return(ListOrNoValue)
    ELSE /\ count' = count - 1
         /\ collecting' = (count' # 0)
         /\ UNCHANGED phase

\* Variant of TakeFailure: only successes are counted.
TakeFailureUncounted(n) ==
    /\ collecting /\ n \in asked \cap MayFail
    /\ asked' = asked \ {n}
    /\ UNCHANGED <<findValue, phase, collecting, count, candidates, nodeSet, active,
                   everAsked, heard>>

TakeFailure(n) ==
    /\ collecting /\ n \in asked \cap MayFail
    /\ asked' = asked \ {n}
    /\ IF phase = "first" THEN CountDownFirst ELSE CountDownSecond
    /\ UNCHANGED <<findValue, candidates, nodeSet, active, everAsked, heard>>

TakeValue(n) ==
    /\ collecting /\ n \in asked \cap Holder /\ findValue
    /\ asked' = asked \ {n}
    /\ Return("value")
    /\ UNCHANGED <<findValue, candidates, nodeSet, active, everAsked, heard>>

\* Variant of HasNoValue: a value is looked at in the second phase only.
HasNoValueFirst(n) == ~ (findValue /\ n \in Holder /\ phase = "second")

HasNoValue(n) == ~ (findValue /\ n \in Holder)

\* The nodes that n reports count as progress if it is the first to answer or
\* one of them is nearer than all that answered.
IsProgress(S) == active = {} \/ \E x \in S : \A y \in active : x < y

\* First phase: with progress the nodes become candidates, without it the phase
\* ends and they are dropped.
TakeNodesFirst(n) ==
    /\ phase = "first" /\ collecting /\ n \in asked /\ HasNoValue(n)
    /\ \E S \in Reports[n] :
          /\ heard' = heard \cup S
          /\ IF IsProgress(S)
             THEN /\ candidates' = candidates \cup New(S)
                  /\ nodeSet' = nodeSet \cup New(S)
                  /\ CountDownFirst
             ELSE /\ phase' = "second" /\ collecting' = FALSE /\ count' = 0
                  /\ UNCHANGED <<candidates, nodeSet>>
    /\ active' = active \cup {n}
    /\ asked' = asked \ {n}
    /\ UNCHANGED <<findValue, everAsked>>

\* Second phase: only that the node has answered matters.
TakeNodesSecond(n) ==
    /\ phase = "second" /\ collecting /\ n \in asked /\ HasNoValue(n)
    /\ \E S \in Reports[n] : heard' = heard \cup S
    /\ active' = active \cup {n}
    /\ asked' = asked \ {n}
    /\ CountDownSecond
    /\ UNCHANGED <<findValue, candidates, nodeSet, everAsked>>

Take(n) == TakeFailure(n) \/ TakeValue(n) \/ TakeNodesFirst(n) \/ TakeNodesSecond(n)

Next == \/ NobodyKnown \/ AskFirst \/ AskSecond \/ ReachedEnough \/ RoundTimesOut
        \/ \E n \in Node : Take(n)

Spec == Init /\ [][Next]_vars

\* Iterative runs on; and a doFind that is received from again and again delivers.
\* For the wait for the answer that is what its timer of 10 s gives; for the dial
\* before it and the sends on updatechannel behind it, which no timer covers, it is
\* an assumption: the network refuses or connects in the end, and HandleTable takes.
FairSpec ==
    /\ Spec
    /\ WF_vars(NobodyKnown \/ AskFirst \/ AskSecond \/ ReachedEnough)
    /\ WF_vars(RoundTimesOut)
    /\ \A n \in Node : SF_vars(Take(n))

----------------------------------------------------------------------------
Returned == phase \notin {"first", "second"}

\* The contacts that the lookup hands back (in the order of distance).
Listed == IF phase = "list" THEN active ELSE {}

TypeOK == /\ findValue \in BOOLEAN
          /\ phase \in {"first", "second", "list", "value", "novalue", "empty"}
          /\ collecting \in BOOLEAN
          /\ count \in Int
          /\ candidates \subseteq Node /\ nodeSet \subseteq Node
          /\ active \subseteq Node /\ asked \subseteq Node /\ everAsked \subseteq Node
          /\ heard \subseteq Node \cup {Self}

\* The books balance although results of a round come in during a later one, or
\* not at all: what was pushed is a candidate or was asked, never both; and of
\* the nodes that were asked none both answered and is still waited for.
Ledger == /\ nodeSet = candidates \cup everAsked
          /\ candidates \cap everAsked = {}
          /\ active \cup asked \subseteq everAsked
          /\ active \cap asked = {}

\* No node gets two requests in one lookup, whichever nodes name it, and however
\* often, before and after it was asked (nodeSet of HandleHeap).
NobodyAskedTwice == [][everAsked \cap (asked' \ asked) = {}]_vars

\* The receive of the second phase has no timer, so a round must not wait for
\* more results than there are requests without one, failed requests and late
\* results of the first phase included.
EveryResultIsOwed == collecting => count <= Cardinality(asked)

\* A lookup for nodes that returns fewer than it should (the literal 20 of the
\* two loops), or a lookup that finds no value, has asked every node that it
\* accepted as a candidate.
ShortOnlyIfExhausted ==
    phase \in {"list", "novalue"} /\ Cardinality(active) < Enough => candidates = {}

\* A lookup that reports that there is no value has not overlooked one that it was
\* given, in either loop, late or together with nodes: of the holders that it
\* accepted, each one still has its request under way (nobody waits for the rest
\* of the last round), or failed, or was left unasked since enough nodes answered.
NoValueHasReason ==
    phase = "novalue" =>
        \A n \in nodeSet \cap Holder :
            \/ n \in asked
            \/ n \in MayFail
            \/ n \in candidates /\ Cardinality(active) >= Enough

\* A lookup either returns or ends up with nobody left to ask and nobody left
\* to answer: no timeout, failure or late result makes it miss a node that it
\* could still wait for.
EndsOrExhausted == (<> Returned) \/ <>[](candidates = {} /\ asked = {})

\* README.txt:33: "All operations should complete within 10 seconds".  Each
\* request of a lookup has that limit, so a lookup would at least return.
SearchReturns == <> Returned

\* README.txt:72, of iterativeFindNode: "Print a list of <= k closest nodes".
\* No node that the lookup heard of and left out is closer than one that it
\* lists, unless that node may have failed.
ListsTheClosest ==
    \A x \in heard \ (Listed \cup MayFail \cup {Self}), y \in Listed : y < x
============================================================================
