-------------------------------- MODULE Ids --------------------------------
(***************************************************************************)
(* Node and key identifiers (libkademlia/id.go).  An ID is an array of     *)
(* IDBytes bytes that every operation of the package reads most            *)
(* significant bit first; here it is that string of IDBits bits.  Nothing  *)
(* in the package depends on how the bits are grouped into bytes.          *)
(***************************************************************************)
EXTENDS Integers

CONSTANT IDBits     \* width of an identifier; 160 in the code

ASSUME IDBitsAssumption == IDBits \in Nat \ {0}

Bits == 0 .. IDBits - 1

ID == [Bits -> {0, 1}]

----------------------------------------------------------------------------

Xor(x, y) == [i \in Bits |-> IF x[i] = y[i] THEN 0 ELSE 1]

\* Position i holds the first bit of x that is set.
FirstSetBit(x, i) == x[i] = 1 /\ \A j \in 0 .. i - 1 : x[j] = 0

\* Variant: the bits are numbered from the least significant one.
PrefixLenLow(x) == IF \E i \in Bits : FirstSetBit(x, i)
                   THEN IDBits - 1 - (CHOOSE i \in Bits : FirstSetBit(x, i))
                   ELSE IDBits - 1

\* The code numbers the bits from the most significant one and, when no bit
\* is set, answers the last index instead of IDBits: an ID at distance zero
\* shares the last bucket with the ID at distance one.
PrefixLen(x) == IF \E i \in Bits : FirstSetBit(x, i)
                THEN CHOOSE i \in Bits : FirstSetBit(x, i)
                ELSE IDBits - 1

\* Comparison of the first byte that differs, hence of the first bit that
\* differs.
Less(x, y) == \E i \in Bits : x[i] < y[i] /\ \A j \in 0 .. i - 1 : x[j] = y[j]

\* Closer in libkademlia.go and contactLess in pq.go: c1 is strictly nearer
\* to key than c2 in the XOR metric.
Closer(key, c1, c2) == Less(Xor(key, c1), Xor(key, c2))

\* The bucket of a table owned by self in which an ID is filed.
BucketIndex(id, self) == PrefixLen(Xor(id, self))
============================================================================
