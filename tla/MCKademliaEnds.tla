--------------------------- MODULE MCKademliaEnds ---------------------------
(***************************************************************************)
(* The liveness of KademliaRPC.  Each operation is started once, so that   *)
(* the behaviours that TLC explores have an end, and it is its own CallId. *)
(***************************************************************************)
EXTENDS MCKademliaRPC

VARIABLE todo       \* the operations that are not started yet

OnceInit == Init /\ todo = Request

OnceNext ==
    \/ \E r \in todo : Start(r, r) /\ todo' = todo \ {r}
    \/ \E id \in CallId : Progress(id) /\ UNCHANGED todo
    \/ \E n \in NodeID : Crash(n) /\ UNCHANGED todo

OnceSpec ==
    /\ OnceInit /\ [][OnceNext]_<<vars, todo>>
    /\ \A id \in CallId : SF_<<vars, todo>>(Progress(id) /\ UNCHANGED todo)

\* Node 0 and node 4 each hear of a newcomer for their full bucket, in which the
\* other one is the head, while they call each other.
BothSides == {Asks(6, 0, "findnode"), Asks(2, 4, "store")}
=============================================================================
