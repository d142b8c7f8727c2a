-------------------------- MODULE LookupFrontEnds --------------------------
(***************************************************************************)
(* The three operations that run a lookup (libkademlia.go:                 *)
(* DoIterativeFindNode, DoIterativeStore, DoIterativeFindValue) and the    *)
(* stores that two of them send after it.                                  *)
(***************************************************************************)
EXTENDS IterativeLookup

VARIABLES
    op,         \* findnode, store or findvalue
    outcome,    \* searching, storing, or how the operation ended: contacts, value,
                \* error, or down (the process)
    left,       \* the nodes that a store is still to be sent to
    stored      \* the nodes that keep the value because of it

front == <<op, outcome, left, stored>>
frontVars == <<vars, front>>

FrontInit == /\ Init
             /\ op \in {"findnode", "store", "findvalue"}
             /\ findValue = (op = "findvalue")
             /\ outcome = "searching" /\ left = {} /\ stored = {}

\* Variant of Peek: the end of the queue.
PeekLast == IF active = {} THEN Self ELSE CHOOSE x \in active : \A y \in active : y <= x

\* The nearest node that answered without the value, or SelfContact.
Peek == IF active = {} THEN Self ELSE CHOOSE x \in active : \A y \in active : x <= y

Search(A) == outcome = "searching" /\ A /\ UNCHANGED front

\* Iterative has returned.
FindNodeReturns ==
    /\ outcome = "searching" /\ op = "findnode" /\ Returned
    /\ outcome' = IF phase = "list" THEN "contacts" ELSE "error"
    /\ UNCHANGED <<vars, op, left, stored>>

StoreBegins ==
    /\ outcome = "searching" /\ op = "store" /\ Returned
    /\ IF phase = "list" THEN outcome' = "storing" /\ left' = active
                         ELSE outcome' = "error" /\ UNCHANGED left
    /\ UNCHANGED <<vars, op, stored>>

CopyBegins ==
    /\ outcome = "searching" /\ op = "findvalue" /\ Returned
    /\ IF phase = "value" THEN outcome' = "storing" /\ left' = {Peek}
                          ELSE outcome' = "error" /\ UNCHANGED left
    /\ UNCHANGED <<vars, op, stored>>

\* The DoStores go out one after the other, the nearest node first: Iterative has
\* popped its list from the heap.
IsNext(n) == outcome = "storing" /\ n \in left /\ \A y \in left : n <= y

StoreAnswered(n) ==
    /\ IsNext(n)
    /\ left' = left \ {n} /\ stored' = stored \cup {n}
    /\ UNCHANGED <<vars, op, outcome>>

\* Variants of StoreTimesOut: the rest is given up; the store is sent again.
StoreTimesOutForAll(n) ==
    /\ IsNext(n) /\ n \in MayFail
    /\ left' = {}
    /\ stored' \in {stored, stored \cup {n}}
    /\ UNCHANGED <<vars, op, outcome>>

StoreTimesOutAgain(n) ==
    /\ IsNext(n) /\ n \in MayFail
    /\ stored' = stored \ {n}
    /\ UNCHANGED <<vars, op, outcome, left>>

\* Ten seconds without an answer: the error is ignored.  The handler may have stored
\* the value, or may do so later.
StoreTimesOut(n) ==
    /\ IsNext(n) /\ n \in MayFail
    /\ left' = left \ {n}
    /\ stored' \in {stored, stored \cup {n}}
    /\ UNCHANGED <<vars, op, outcome>>

\* The dial is refused, which panics, or the call fails, which is log.Fatal.
StoreFatal(n) ==
    /\ IsNext(n) /\ n \in MayFail
    /\ outcome' = "down"
    /\ stored' \in {stored, stored \cup {n}}
    /\ UNCHANGED <<vars, op, left>>

StoresDone ==
    /\ outcome = "storing" /\ left = {}
    /\ outcome' = IF op = "store" THEN "contacts" ELSE "value"
    /\ UNCHANGED <<vars, op, left, stored>>

Store(n) == StoreAnswered(n) \/ StoreTimesOut(n) \/ StoreFatal(n)

RunsOn == FindNodeReturns \/ StoreBegins \/ CopyBegins \/ StoresDone

FrontNext == Search(Next) \/ RunsOn \/ \E n \in Node \cup {Self} : Store(n)

\* As FairSpec of the lookup; the operation runs on after it, who does not fail
\* answers, and with the others the dial ends (no timer covers it: an assumption) and
\* then the timer fires.
FrontSpec ==
    /\ FrontInit /\ [][FrontNext]_frontVars
    /\ WF_frontVars(Search(NobodyKnown \/ AskFirst \/ AskSecond \/ ReachedEnough))
    /\ WF_frontVars(Search(RoundTimesOut))
    /\ \A n \in Node : SF_frontVars(Search(Take(n)))
    /\ WF_frontVars(RunsOn)
    /\ WF_frontVars(\E n \in (Node \cup {Self}) \ MayFail : StoreAnswered(n))
    /\ WF_frontVars(\E n \in MayFail : StoreTimesOut(n))

----------------------------------------------------------------------------
FrontTypeOK == /\ op \in {"findnode", "store", "findvalue"}
               /\ outcome \in {"searching", "storing", "contacts", "value", "error", "down"}
               /\ left \cup stored \subseteq Node \cup {Self}
               /\ outcome = "searching" => left = {} /\ stored = {}

\* EXTRACREDIT_proj2.txt: "the value is stored in each contact returned by
\* iterativeStore".  Although DoIterativeStore ignores errors and goes from node to
\* node, every one that did not fail has the value, and nobody else has got it.
StoredAtAllListed ==
    op = "store" /\ outcome = "contacts" =>
        Listed \ MayFail \subseteq stored /\ stored \subseteq Listed

\* A value that is found is copied to the nearest of the nodes that answered without
\* it, whichever loop found it and whatever arrived late, and never to a node that
\* has it (libkademlia.go:735).
FoundMeansCopied ==
    outcome = "value" =>
        /\ stored \cap Holder = {}
        /\ \A n \in active : (\A y \in active : n <= y) => n \in stored \cup MayFail

\* Once the lookup has returned the operation ends, whoever fails to take a value.
FrontEndEnds == Returned ~> outcome \in {"contacts", "value", "error", "down"}
============================================================================
