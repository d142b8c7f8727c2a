------------------------------ MODULE MCVanish ------------------------------
(***************************************************************************)
(* Two calls of Vanish, under one id or two, and a reader for TLC.         *)
(***************************************************************************)
EXTENDS Vanish

CONSTANTS id1, id2, op1, op2

Choice(id, n, k, t) == [vdoID |-> id, numberKeys |-> n, threshold |-> k, timeout |-> t]

\* The first call: a time limit with the second refresh, a threshold that is too
\* high, counts that Split refuses.  The second one: a time limit before the first
\* refresh under the same id, or the time limit 0 of the command line
\* (kademlia.go:414) under another.
MCChoices ==
    [op \in Op |->
        IF op = op1
        THEN {Choice(id1, 3, 2, 4), Choice(id1, 3, 4, 2), Choice(id1, 2, 2, 2),
              Choice(id1, 0, 0, 2)}
        ELSE {Choice(id1, 3, 2, 1), Choice(id2, 3, 2, 0)}]

\* Valid counts and a time limit with the first refresh.
MCValidChoices == [op \in Op |-> {Choice(id1, 3, 2, 3)}]
============================================================================
