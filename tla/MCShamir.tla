------------------------------ MODULE MCShamir ------------------------------
(***************************************************************************)
(* Calls of Split for TLC: every byte as a secret, several secrets of two  *)
(* bytes and several counts, those that are refused and a threshold above  *)
(* the number of shares among them.                                        *)
(***************************************************************************)
EXTENDS Shamir

Split(count, threshold, s) == [n |-> count, k |-> threshold, secret |-> s]

MCCases == {Split(3, 2, <<b>>) : b \in Byte}
           \cup {Split(c[1], c[2], s) : c \in {<<3, 3>>, <<4, 3>>, <<5, 2>>, <<3, 4>>},
                                        s \in {<<0, 200>>, <<83>>}}
           \cup {Split(2, 2, <<1>>), Split(3, 1, <<1>>), Split(0, 0, <<1>>)}
============================================================================
