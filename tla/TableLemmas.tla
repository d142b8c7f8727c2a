---------------------------- MODULE TableLemmas ----------------------------
(***************************************************************************)
(* Facts about the XOR metric of module Ids, and about the operators of    *)
(* module Tables, for identifiers of any width and buckets of any size.    *)
(***************************************************************************)
EXTENDS Tables, BucketLemmas, FiniteSetTheorems

\* The bits below PrefixLen are zero, and the bit there is set unless it is
\* the last one.
LEMMA PrefixLenFacts ==
  ASSUME NEW x \in ID
  PROVE  /\ PrefixLen(x) \in Bits
         /\ \A j \in 0 .. PrefixLen(x) - 1 : x[j] = 0
         /\ PrefixLen(x) # IDBits - 1 => x[PrefixLen(x)] = 1
<1>1. IDBits \in Nat \ {0} /\ Bits = 0 .. IDBits - 1
  BY IDBitsAssumption DEF Bits
<1>2. \A i \in Bits : x[i] = 0 \/ x[i] = 1
  BY DEF ID
<1> DEFINE T == {i \in Bits : x[i] = 1}
<1>3. CASE T = {}
  <2>1. PrefixLen(x) = IDBits - 1
    BY <1>3 DEF PrefixLen, FirstSetBit
  <2>2. \A j \in 0 .. IDBits - 2 : j \in Bits /\ x[j] = 0
    BY <1>1, <1>2, <1>3
  <2> QED
    BY <1>1, <2>1, <2>2
<1>4. CASE T # {}
  <2>1. T \subseteq Nat
    BY <1>1
  <2>2. PICK i \in T : \A y \in T : i <= y
    BY <1>4, <2>1, LeastNumber
  <2>3. \A j \in 0 .. i - 1 : x[j] = 0
    BY <1>1, <1>2, <2>2
  <2>4. i \in Bits /\ FirstSetBit(x, i)
    BY <2>2, <2>3 DEF FirstSetBit
  <2>5. PrefixLen(x) \in Bits /\ FirstSetBit(x, PrefixLen(x))
    BY <2>4 DEF PrefixLen
  <2> QED
    BY <2>5 DEF FirstSetBit
<1> QED
  BY <1>3, <1>4

LEMMA XorFacts ==
  ASSUME NEW x \in ID, NEW y \in ID
  PROVE  /\ Xor(x, y) \in ID
         /\ \A i \in Bits : Xor(x, y)[i] = IF x[i] = y[i] THEN 0 ELSE 1
BY DEF Xor, ID

\* An identifier agrees with the owner before its bucket index, and differs
\* there unless that is the last bucket.
LEMMA BucketIndexFacts ==
  ASSUME NEW x \in ID, NEW s \in ID
  PROVE  /\ BucketIndex(x, s) \in Bits
         /\ \A j \in 0 .. BucketIndex(x, s) - 1 : x[j] = s[j]
         /\ BucketIndex(x, s) # IDBits - 1 =>
               x[BucketIndex(x, s)] # s[BucketIndex(x, s)]
<1> DEFINE z == Xor(x, s)
           p == PrefixLen(z)
<1>1. /\ z \in ID
      /\ \A i \in Bits : z[i] = IF x[i] = s[i] THEN 0 ELSE 1
  BY XorFacts
<1> HIDE DEF z
<1>2. /\ p \in Bits
      /\ \A j \in 0 .. p - 1 : z[j] = 0
      /\ p # IDBits - 1 => z[p] = 1
  BY <1>1, PrefixLenFacts
<1> HIDE DEF p
<1>3. \A j \in 0 .. p - 1 : j \in Bits
  BY <1>2, IDBitsAssumption DEF Bits
<1>4. \A j \in 0 .. p - 1 : x[j] = s[j]
  BY <1>1, <1>2, <1>3
<1>5. p # IDBits - 1 => x[p] # s[p]
  BY <1>1, <1>2
<1>6. BucketIndex(x, s) = p
  BY DEF BucketIndex, p, z
<1> QED
  BY <1>2, <1>4, <1>5, <1>6

\* Every identifier of the bucket that id falls into is nearer to id than every
\* identifier of any other bucket.
LEMMA NearestBucket ==
  ASSUME NEW id \in ID, NEW s \in ID, NEW x \in ID, NEW y \in ID,
         BucketIndex(x, s) = BucketIndex(id, s),
         BucketIndex(y, s) # BucketIndex(id, s)
  PROVE  Closer(id, x, y)
<1> DEFINE p == BucketIndex(id, s)
           q == BucketIndex(y, s)
           dx == Xor(id, x)
           dy == Xor(id, y)
<1>1. IDBits \in Nat \ {0} /\ Bits = 0 .. IDBits - 1
  BY IDBitsAssumption DEF Bits
<1>2. /\ p \in Bits
      /\ \A j \in 0 .. p - 1 : id[j] = s[j] /\ x[j] = s[j]
      /\ p # IDBits - 1 => id[p] # s[p] /\ x[p] # s[p]
  BY BucketIndexFacts
<1>3. /\ q \in Bits
      /\ \A j \in 0 .. q - 1 : y[j] = s[j]
      /\ q # IDBits - 1 => y[q] # s[q]
  BY BucketIndexFacts
<1>4. \A i \in Bits : /\ dx[i] = IF id[i] = x[i] THEN 0 ELSE 1
                      /\ dy[i] = IF id[i] = y[i] THEN 0 ELSE 1
  BY XorFacts
<1>5. \A i \in Bits : /\ id[i] \in {0, 1} /\ s[i] \in {0, 1}
                      /\ x[i] \in {0, 1} /\ y[i] \in {0, 1}
  BY DEF ID
<1>6. p # q
  OBVIOUS
<1> HIDE DEF p, q, dx, dy
<1>7. CASE q < p
  <2>1. q # IDBits - 1 /\ q \in 0 .. p - 1
    BY <1>1, <1>2, <1>3, <1>7
  <2>2. dx[q] = 0 /\ dy[q] = 1
    BY <1>2, <1>3, <1>4, <2>1
  <2>3. \A j \in 0 .. q - 1 : j \in 0 .. p - 1 /\ j \in Bits
    BY <1>1, <1>2, <1>3, <1>7
  <2>4. \A j \in 0 .. q - 1 : dx[j] = dy[j]
    BY <1>2, <1>3, <1>4, <2>3
  <2> QED
    BY <1>3, <2>2, <2>4 DEF Less, Closer, dx, dy
<1>8. CASE p < q
  <2>1. p # IDBits - 1 /\ p \in 0 .. q - 1
    BY <1>1, <1>2, <1>3, <1>8
  <2>2. id[p] = x[p] /\ id[p] # y[p]
    BY <1>2, <1>3, <1>5, <2>1
  <2>3. dx[p] = 0 /\ dy[p] = 1
    BY <1>2, <1>4, <2>2
  <2>4. \A j \in 0 .. p - 1 : j \in 0 .. q - 1 /\ j \in Bits
    BY <1>1, <1>2, <1>3, <1>8
  <2>5. \A j \in 0 .. p - 1 : dx[j] = dy[j]
    BY <1>2, <1>3, <1>4, <2>4
  <2> QED
    BY <1>2, <2>3, <2>5 DEF Less, Closer, dx, dy
<1> QED
  BY <1>1, <1>2, <1>3, <1>6, <1>7, <1>8

----------------------------------------------------------------------------
\* f takes the value a at 0, and each other value from the one before.
StepsFrom(f, n, a, step) ==
    f[0] = a /\ \A i \in 1 .. n : f[i] = step[<<i, f[i - 1]>>]

\* A function on 0 .. n is defined by its value at 0 and the step from each
\* value to the next.
LEMMA Recursion ==
  ASSUME NEW n \in Nat, NEW S, NEW a \in S, NEW step \in [(1 .. n) \X S -> S]
  PROVE  \E f \in [0 .. n -> S] : StepsFrom(f, n, a, step)
<1> USE DEF StepsFrom
<1> DEFINE Good(m, f) == StepsFrom(f, m, a, step)
           T == {m \in 0 .. n : \E f \in [0 .. m -> S] : Good(m, f)}
<1>1. 0 \in T
  <2>1. [x \in 0 .. 0 |-> a] \in [0 .. 0 -> S] /\ Good(0, [x \in 0 .. 0 |-> a])
    OBVIOUS
  <2> HIDE DEF Good
  <2>2. \E f \in [0 .. 0 -> S] : Good(0, f)
    BY <2>1
  <2> QED
    BY <2>2
<1>2. ASSUME NEW m \in 1 .. n, m - 1 \in T
      PROVE  m \in T
  <2>1. PICK f \in [0 .. m - 1 -> S] : Good(m - 1, f)
    BY <1>2
  <2> DEFINE v == step[<<m, f[m - 1]>>]
             g == [x \in 0 .. m |-> IF x = m THEN v ELSE f[x]]
  <2>2. m - 1 \in 0 .. m - 1
    OBVIOUS
  <2>3. v \in S
    <3>1. <<m, f[m - 1]>> \in (1 .. n) \X S
      BY <2>2
    <3> QED
      BY <3>1
  <2> HIDE DEF v
  <2>4. g \in [0 .. m -> S]
    BY <2>3
  <2>5. g[m] = v /\ \A x \in 0 .. m - 1 : g[x] = f[x]
    OBVIOUS
  <2> HIDE DEF g
  <2>6. \A i \in 1 .. m - 1 : i \in 0 .. m - 1 /\ i - 1 \in 0 .. m - 1
    OBVIOUS
  <2>7. Good(m, g)
    <3>1. g[0] = a
      BY <2>1, <2>5
    <3>2. ASSUME NEW i \in 1 .. m
          PROVE  g[i] = step[<<i, g[i - 1]>>]
      <4>1. CASE i = m
        BY <2>2, <2>5, <4>1 DEF v
      <4>2. CASE i # m
        <5>1. i \in 1 .. m - 1
          BY <4>2
        <5>2. f[i] = step[<<i, f[i - 1]>>]
          BY <2>1, <5>1
        <5> QED
          BY <2>5, <2>6, <5>1, <5>2
      <4> QED
        BY <4>1, <4>2
    <3> QED
      BY <3>1, <3>2
  <2>8. m \in 0 .. n
    OBVIOUS
  <2> QED
    BY <2>4, <2>7, <2>8
<1>3. n \in T
  <2> HIDE DEF T
  <2>1. \A i \in 0 .. n : i \in T
    BY <1>1, <1>2, StepByStep
  <2> QED
    BY <2>1
<1> QED
  BY <1>3

\* The rounds of the loop of Visited.
LEMMA VisitedUnfolds ==
  ASSUME NEW table \in Table, NEW p \in Bits
  PROVE  \E g : /\ Visited(table, p) = g[2 * IDBits]
                /\ g \in [0 .. 2 * IDBits -> Seq(Contact)]
                /\ g[0] = << >>
                /\ \A i \in 1 .. 2 * IDBits :
                      g[i] = IF VisitIndex(p, i) \in Bits
                             THEN g[i - 1] \o table[VisitIndex(p, i)]
                             ELSE g[i - 1]
<1> DEFINE n == 2 * IDBits
           S == Seq(Contact)
           next(i, s) == IF VisitIndex(p, i) \in Bits
                         THEN s \o table[VisitIndex(p, i)] ELSE s
           step == [x \in (1 .. n) \X S |-> next(x[1], x[2])]
           Unfolds(g) == g = [i \in 0 .. n |-> IF i = 0 THEN << >>
                                               ELSE next(i, g[i - 1])]
<1>1. n \in Nat /\ << >> \in S
  BY IDBitsAssumption, EmptySeq
<1>2. \A i \in 1 .. n, s \in S : next(i, s) \in S
  <2> SUFFICES ASSUME NEW i \in 1 .. n, NEW s \in S, VisitIndex(p, i) \in Bits
               PROVE  s \o table[VisitIndex(p, i)] \in S
    OBVIOUS
  <2>1. table[VisitIndex(p, i)] \in S
    BY DEF Table
  <2> QED
    BY <2>1, ConcatProperties
<1>3. step \in [(1 .. n) \X S -> S]
  BY <1>2
<1>4. \A i \in 1 .. n, s \in S : step[<<i, s>>] = next(i, s)
  OBVIOUS
<1>5. PICK f \in [0 .. n -> S] : StepsFrom(f, n, << >>, step)
  <2> HIDE DEF n, S, step
  <2> QED
    BY <1>1, <1>3, Recursion, Zenon
<1>6. \A i \in 1 .. n : i - 1 \in 0 .. n /\ i \in 0 .. n
  BY <1>1
<1>7. \A i \in 0 .. n : i = 0 \/ i \in 1 .. n
  BY <1>1
<1> HIDE DEF n, S, step, next
<1>8. Unfolds(f)
  <2>1. \A i \in 1 .. n : f[i] = next(i, f[i - 1])
    BY <1>4, <1>5, <1>6 DEF StepsFrom
  <2>2. \A i \in 0 .. n : f[i] = IF i = 0 THEN << >> ELSE next(i, f[i - 1])
    BY <1>5, <1>7, <2>1 DEF StepsFrom
  <2> QED
    BY <1>5, <2>2
<1> DEFINE g == CHOOSE x : Unfolds(x)
<1>9. Unfolds(g)
  <2> HIDE DEF Unfolds
  <2> QED
    BY <1>8
<1>10. Visited(table, p) = g[n]
  BY DEF Visited, n, next
<1> HIDE DEF g
<1>11. /\ g = [i \in 0 .. n |-> g[i]]
       /\ \A i \in 0 .. n : g[i] = IF i = 0 THEN << >> ELSE next(i, g[i - 1])
  BY <1>9
<1>12. 0 \in 0 .. n
  BY <1>1
<1>13. g[0] = << >> /\ \A i \in 1 .. n : g[i] = next(i, g[i - 1])
  <2>1. \A i \in 1 .. n : i # 0
    OBVIOUS
  <2> QED
    BY <1>6, <1>11, <1>12, <2>1
<1>14. g \in [0 .. n -> S]
  <2> DEFINE T == {i \in 0 .. n : g[i] \in S}
  <2>1. 0 \in T
    BY <1>1, <1>12, <1>13
  <2>2. \A i \in 1 .. n : i - 1 \in T => i \in T
    BY <1>2, <1>6, <1>13
  <2>3. \A i \in 0 .. n : i \in T
    <3> HIDE DEF T
    <3> QED
      BY <1>1, <2>1, <2>2, StepByStep
  <2> QED
    BY <1>11, <2>3
<1> QED
  BY <1>10, <1>13, <1>14 DEF n, S, next

\* The loop visits each bucket in one of its rounds, and in no other one.
LEMMA VisitIndexFacts ==
  ASSUME NEW p \in Bits
  PROVE  /\ \A i, j \in 1 .. 2 * IDBits :
               VisitIndex(p, i) = VisitIndex(p, j) => i = j
         /\ \A q \in Bits : \E i \in 1 .. 2 * IDBits : VisitIndex(p, i) = q
<1>1. IDBits \in Nat \ {0} /\ Bits = 0 .. IDBits - 1
  BY IDBitsAssumption DEF Bits
<1>2. \A i \in 1 .. 2 * IDBits :
         \/ i = 2 * (i \div 2) /\ VisitIndex(p, i) = p - i \div 2 /\ i \div 2 \in Nat \ {0}
         \/ i = 2 * (i \div 2) + 1 /\ VisitIndex(p, i) = p + i \div 2 /\ i \div 2 \in Nat
  BY <1>1 DEF VisitIndex
<1>3. \A i, j \in 1 .. 2 * IDBits : VisitIndex(p, i) = VisitIndex(p, j) => i = j
  BY <1>1, <1>2
<1>4. ASSUME NEW q \in Bits
      PROVE  \E i \in 1 .. 2 * IDBits : VisitIndex(p, i) = q
  <2>1. CASE q < p
    <3>1. 2 * (p - q) \in 1 .. 2 * IDBits
      BY <1>1, <2>1
    <3>2. VisitIndex(p, 2 * (p - q)) = q
      BY <1>1, <2>1 DEF VisitIndex
    <3> QED
      BY <3>1, <3>2
  <2>2. CASE ~ (q < p)
    <3>1. 2 * (q - p) + 1 \in 1 .. 2 * IDBits
      BY <1>1, <2>2
    <3>2. VisitIndex(p, 2 * (q - p) + 1) = q
      BY <1>1, <2>2 DEF VisitIndex
    <3> QED
      BY <3>1, <3>2
  <2> QED
    BY <2>1, <2>2
<1> QED
  BY <1>3, <1>4

\* Two lists of distinct nodes, none of them in both, are one such list.
LEMMA ConcatFacts ==
  ASSUME NEW s \in Seq(Contact), NEW t \in Seq(Contact)
  PROVE  /\ s \o t \in Seq(Contact)
         /\ ToSet(s \o t) = ToSet(s) \cup ToSet(t)
         /\ /\ Distinct(s) /\ Distinct(t)
            /\ \A x \in ToSet(s), y \in ToSet(t) : x.NodeID # y.NodeID
            => Distinct(s \o t)
<1> DEFINE u == s \o t
           m == Len(s)
           n == Len(t)
<1>1. /\ m \in Nat /\ DOMAIN s = 1 .. m
      /\ n \in Nat /\ DOMAIN t = 1 .. n
  BY LenProperties
<1>2. /\ u \in Seq(Contact) /\ Len(u) = m + n
      /\ \A i \in 1 .. m + n : u[i] = IF i <= m THEN s[i] ELSE t[i - m]
  BY ConcatProperties
<1>3. DOMAIN u = 1 .. m + n
  BY <1>2, LenProperties
<1> HIDE DEF u, m, n
<1>4. \A i \in 1 .. m : i \in 1 .. m + n /\ u[i] = s[i]
  BY <1>1, <1>2
<1>5. \A i \in 1 .. n : i + m \in 1 .. m + n /\ u[i + m] = t[i]
  BY <1>1, <1>2
<1>6. \A i \in 1 .. m + n :
         \/ i \in 1 .. m /\ u[i] = s[i]
         \/ i - m \in 1 .. n /\ u[i] = t[i - m] /\ ~ (i \in 1 .. m)
  BY <1>1, <1>2
<1>7. ToSet(u) = ToSet(s) \cup ToSet(t)
  <2>1. \A x : x \in ToSet(s) \cup ToSet(t) => x \in ToSet(u)
    BY <1>1, <1>3, <1>4, <1>5 DEF ToSet
  <2>2. \A x : x \in ToSet(u) => x \in ToSet(s) \cup ToSet(t)
    BY <1>1, <1>3, <1>6 DEF ToSet
  <2> QED
    BY <2>1, <2>2
<1>8. ASSUME Distinct(s), Distinct(t),
             \A x \in ToSet(s), y \in ToSet(t) : x.NodeID # y.NodeID
      PROVE  Distinct(u)
  <2> SUFFICES ASSUME NEW i \in 1 .. m + n, NEW j \in 1 .. m + n,
                      u[i].NodeID = u[j].NodeID
               PROVE  i = j
    BY <1>3 DEF Distinct
  <2>1. CASE i \in 1 .. m /\ j \in 1 .. m
    BY <1>1, <1>4, <1>8, <2>1 DEF Distinct
  <2>2. CASE ~ (i \in 1 .. m) /\ ~ (j \in 1 .. m)
    <3>1. i - m \in 1 .. n /\ j - m \in 1 .. n
      BY <1>6, <2>2
    <3>2. t[i - m].NodeID = t[j - m].NodeID
      BY <1>6, <2>2
    <3>3. i - m = j - m
      BY <1>1, <1>8, <3>1, <3>2 DEF Distinct
    <3> QED
      BY <1>1, <3>3
  <2>3. \A x \in 1 .. m, y \in 1 .. n : s[x].NodeID # t[y].NodeID
    BY <1>1, <1>8 DEF ToSet
  <2>4. CASE i \in 1 .. m /\ ~ (j \in 1 .. m)
    BY <1>4, <1>6, <2>3, <2>4
  <2>5. CASE ~ (i \in 1 .. m) /\ j \in 1 .. m
    BY <1>4, <1>6, <2>3, <2>5
  <2> QED
    BY <2>1, <2>2, <2>4, <2>5
<1> QED
  BY <1>2, <1>7, <1>8 DEF u

\* No node has two entries in the whole table.
OneEntry(table) ==
    \A p, q \in Bits : \A i \in DOMAIN table[p], j \in DOMAIN table[q] :
        table[p][i].NodeID = table[q][j].NodeID => p = q /\ i = j

\* The loop of the queries lists every contact of the table, and once if the
\* table has it once.
LEMMA VisitedFacts ==
  ASSUME NEW table \in Table, NEW p \in Bits
  PROVE  /\ Visited(table, p) \in Seq(Contact)
         /\ ToSet(Visited(table, p)) = Known(table)
         /\ OneEntry(table) => Distinct(Visited(table, p))
<1> DEFINE n == 2 * IDBits
           at(i) == VisitIndex(p, i)
<1>1. PICK g : /\ Visited(table, p) = g[n]
               /\ g \in [0 .. n -> Seq(Contact)]
               /\ g[0] = << >>
               /\ \A i \in 1 .. n : g[i] = IF at(i) \in Bits
                                           THEN g[i - 1] \o table[at(i)]
                                           ELSE g[i - 1]
  BY VisitedUnfolds
<1>2. /\ \A i, j \in 1 .. n : at(i) = at(j) => i = j
      /\ \A q \in Bits : \E i \in 1 .. n : at(i) = q
  BY VisitIndexFacts
<1>3. \A q \in Bits : table[q] \in Seq(Contact)
  BY DEF Table
<1>4. n \in Nat
  BY IDBitsAssumption
<1>5. DOMAIN << >> = {}
  OBVIOUS
<1> HIDE DEF n, at
<1>6. \A i \in 1 .. n : /\ i \in 0 .. n /\ i - 1 \in 0 .. n
                        /\ \A j : j \in 1 .. i <=> j \in 1 .. i - 1 \/ j = i
                        /\ \A j \in 1 .. i - 1 : j \in 1 .. n /\ j # i
  BY <1>4
<1> DEFINE Lists(i) == \A x : x \in ToSet(g[i]) <=>
                          \E j \in 1 .. i : at(j) \in Bits /\ x \in ToSet(table[at(j)])
           Once(i) == OneEntry(table) => Distinct(g[i])
           T == {i \in 0 .. n : Lists(i) /\ Once(i)}
<1>7. 0 \in T
  <2>1. Lists(0)
    BY <1>1, <1>5 DEF ToSet
  <2>2. Once(0)
    BY <1>1, <1>5 DEF Distinct
  <2> HIDE DEF Lists, Once
  <2> QED
    BY <1>4, <2>1, <2>2
<1>8. ASSUME NEW i \in 1 .. n, i - 1 \in T
      PROVE  i \in T
  <2>1. Lists(i - 1) /\ Once(i - 1)
    BY <1>8
  <2>2. CASE at(i) \notin Bits
    <3>1. g[i] = g[i - 1]
      BY <1>1, <2>2
    <3>2. Lists(i)
      BY <1>6, <2>1, <2>2, <3>1
    <3>3. Once(i)
      BY <2>1, <3>1
    <3> QED
      BY <1>6, <3>2, <3>3
  <2>3. CASE at(i) \in Bits
    <3> DEFINE s == g[i - 1]
               t == table[at(i)]
    <3>1. s \in Seq(Contact) /\ t \in Seq(Contact) /\ g[i] = s \o t
      BY <1>1, <1>3, <1>6, <2>3
    <3>2. ToSet(g[i]) = ToSet(s) \cup ToSet(t)
      BY <3>1, ConcatFacts
    <3>3. Lists(i)
      BY <1>6, <2>1, <2>3, <3>2
    <3>4. ASSUME OneEntry(table)
          PROVE  Distinct(g[i])
      <4>1. Distinct(s)
        BY <2>1, <3>4
      <4>2. Distinct(t)
        BY <2>3, <3>4 DEF OneEntry, Distinct
      <4>3. ASSUME NEW x \in ToSet(s), NEW y \in ToSet(t)
            PROVE  x.NodeID # y.NodeID
        <5>1. PICK j \in 1 .. i - 1 : at(j) \in Bits /\ x \in ToSet(table[at(j)])
          BY <2>1
        <5>2. at(j) # at(i)
          BY <1>2, <1>6, <5>1
        <5> QED
          BY <2>3, <3>4, <5>1, <5>2 DEF OneEntry, ToSet
      <4> HIDE DEF s, t
      <4> QED
        BY <3>1, <4>1, <4>2, <4>3, ConcatFacts
    <3> HIDE DEF Lists
    <3> QED
      BY <1>6, <3>3, <3>4
  <2> QED
    BY <2>2, <2>3
<1>9. Lists(n) /\ Once(n)
  <2>1. n \in T
    <3> HIDE DEF T
    <3>1. \A i \in 0 .. n : i \in T
      BY <1>4, <1>7, <1>8, StepByStep
    <3> QED
      BY <1>4, <3>1
  <2> HIDE DEF Lists, Once
  <2> QED
    BY <2>1
<1>10. ToSet(g[n]) = Known(table)
  <2>1. \A x : x \in ToSet(g[n]) => x \in Known(table)
    BY <1>9 DEF Known
  <2>2. \A x : x \in Known(table) => x \in ToSet(g[n])
    BY <1>2, <1>9 DEF Known
  <2> QED
    BY <2>1, <2>2
<1> QED
  BY <1>1, <1>4, <1>9, <1>10

\* The rounds of the loop of CreateShortList.
WithoutRounds(g, s, id) ==
    /\ g \in [0 .. Len(s) -> Seq(Contact)]
    /\ g[0] = << >>
    /\ \A i \in 1 .. Len(s) :
          g[i] = IF s[i].NodeID = id THEN g[i - 1] ELSE Append(g[i - 1], s[i])

LEMMA WithoutUnfolds ==
  ASSUME NEW s \in Seq(Contact), NEW id
  PROVE  \E g : Without(s, id) = g[Len(s)] /\ WithoutRounds(g, s, id)
<1> DEFINE n == Len(s)
           S == Seq(Contact)
           next(i, t) == IF s[i].NodeID = id THEN t ELSE Append(t, s[i])
           step == [x \in (1 .. n) \X S |-> next(x[1], x[2])]
           Unfolds(g) == g = [i \in 0 .. n |-> IF i = 0 THEN << >>
                                               ELSE next(i, g[i - 1])]
<1>1. n \in Nat /\ << >> \in S
  BY LenProperties, EmptySeq
<1>2. \A i \in 1 .. n, t \in S : next(i, t) \in S
  <2> SUFFICES ASSUME NEW i \in 1 .. n, NEW t \in S
               PROVE  Append(t, s[i]) \in S
    OBVIOUS
  <2>1. s[i] \in Contact
    BY ElementOfSeq
  <2> QED
    BY <2>1, AppendProperties
<1>3. step \in [(1 .. n) \X S -> S]
  BY <1>2
<1>4. \A i \in 1 .. n, t \in S : step[<<i, t>>] = next(i, t)
  OBVIOUS
<1>5. PICK f \in [0 .. n -> S] : StepsFrom(f, n, << >>, step)
  <2> HIDE DEF n, S, step
  <2> QED
    BY <1>1, <1>3, Recursion, Zenon
<1>6. \A i \in 1 .. n : i - 1 \in 0 .. n /\ i \in 0 .. n
  BY <1>1
<1>7. \A i \in 0 .. n : i = 0 \/ i \in 1 .. n
  BY <1>1
<1> HIDE DEF n, S, step, next
<1>8. Unfolds(f)
  <2>1. \A i \in 1 .. n : f[i] = next(i, f[i - 1])
    BY <1>4, <1>5, <1>6 DEF StepsFrom
  <2>2. \A i \in 0 .. n : f[i] = IF i = 0 THEN << >> ELSE next(i, f[i - 1])
    BY <1>5, <1>7, <2>1 DEF StepsFrom
  <2> QED
    BY <1>5, <2>2
<1> DEFINE g == CHOOSE x : Unfolds(x)
<1>9. Unfolds(g)
  <2> HIDE DEF Unfolds
  <2> QED
    BY <1>8
<1>10. Without(s, id) = g[n]
  BY DEF Without, n, next
<1> HIDE DEF g
<1>11. /\ g = [i \in 0 .. n |-> g[i]]
       /\ \A i \in 0 .. n : g[i] = IF i = 0 THEN << >> ELSE next(i, g[i - 1])
  BY <1>9
<1>12. 0 \in 0 .. n
  BY <1>1
<1>13. g[0] = << >> /\ \A i \in 1 .. n : g[i] = next(i, g[i - 1])
  <2>1. \A i \in 1 .. n : i # 0
    OBVIOUS
  <2> QED
    BY <1>6, <1>11, <1>12, <2>1
<1>14. g \in [0 .. n -> S]
  <2> DEFINE T == {i \in 0 .. n : g[i] \in S}
  <2>1. 0 \in T
    BY <1>1, <1>12, <1>13
  <2>2. \A i \in 1 .. n : i - 1 \in T => i \in T
    BY <1>2, <1>6, <1>13
  <2>3. \A i \in 0 .. n : i \in T
    <3> HIDE DEF T
    <3> QED
      BY <1>1, <2>1, <2>2, StepByStep
  <2> QED
    BY <1>11, <2>3
<1>15. WithoutRounds(g, s, id)
  BY <1>13, <1>14 DEF WithoutRounds, n, S, next
<1> QED
  BY <1>10, <1>15 DEF n

\* CreateShortList leaves out one node and nothing else.
LEMMA WithoutFacts ==
  ASSUME NEW s \in Seq(Contact), NEW id
  PROVE  /\ Without(s, id) \in Seq(Contact)
         /\ ToSet(Without(s, id)) = {c \in ToSet(s) : c.NodeID # id}
         /\ Distinct(s) => Distinct(Without(s, id))
<1> DEFINE n == Len(s)
<1>1. PICK g : Without(s, id) = g[Len(s)] /\ WithoutRounds(g, s, id)
  BY WithoutUnfolds
<1>2. /\ Without(s, id) = g[n]
      /\ g \in [0 .. n -> Seq(Contact)]
      /\ g[0] = << >>
      /\ \A i \in 1 .. n : g[i] = IF s[i].NodeID = id THEN g[i - 1]
                                  ELSE Append(g[i - 1], s[i])
  BY <1>1 DEF WithoutRounds
<1>3. n \in Nat /\ DOMAIN s = 1 .. n /\ \A i \in 1 .. n : s[i] \in Contact
  BY LenProperties, ElementOfSeq
<1>4. DOMAIN << >> = {}
  OBVIOUS
<1> HIDE DEF n
<1>5. \A i \in 1 .. n : /\ i \in 0 .. n /\ i - 1 \in 0 .. n
                        /\ \A j : j \in 1 .. i <=> j \in 1 .. i - 1 \/ j = i
                        /\ \A j \in 1 .. i - 1 : j \in 1 .. n /\ j # i
  BY <1>3
<1> DEFINE Lists(i) == \A x : x \in ToSet(g[i]) <=>
                          \E j \in 1 .. i : x = s[j] /\ s[j].NodeID # id
           Once(i) == Distinct(s) => Distinct(g[i])
           T == {i \in 0 .. n : Lists(i) /\ Once(i)}
<1>6. 0 \in T
  <2>1. Lists(0)
    BY <1>2, <1>4 DEF ToSet
  <2>2. Once(0)
    BY <1>2, <1>4 DEF Distinct
  <2> HIDE DEF Lists, Once
  <2> QED
    BY <1>3, <2>1, <2>2
<1>7. ASSUME NEW i \in 1 .. n, i - 1 \in T
      PROVE  i \in T
  <2>1. Lists(i - 1) /\ Once(i - 1)
    BY <1>7
  <2>2. CASE s[i].NodeID = id
    <3>1. g[i] = g[i - 1]
      BY <1>2, <2>2
    <3>2. Lists(i)
      BY <1>5, <2>1, <2>2, <3>1
    <3>3. Once(i)
      BY <2>1, <3>1
    <3> QED
      BY <1>5, <3>2, <3>3
  <2>3. CASE s[i].NodeID # id
    <3> DEFINE t == g[i - 1]
    <3>1. t \in Seq(Contact) /\ s[i] \in Contact /\ g[i] = Append(t, s[i])
      BY <1>2, <1>3, <1>5, <2>3
    <3>2. ToSet(g[i]) = ToSet(t) \cup {s[i]}
      BY <3>1, AppendFacts
    <3>3. Lists(i)
      BY <1>5, <2>1, <2>3, <3>2
    <3>4. ASSUME Distinct(s)
          PROVE  Distinct(g[i])
      <4>1. Distinct(t)
        BY <2>1, <3>4
      <4>2. ASSUME NEW x \in ToSet(t)
            PROVE  x.NodeID # s[i].NodeID
        <5>1. PICK j \in 1 .. i - 1 : x = s[j]
          BY <2>1
        <5>2. j \in 1 .. n /\ j # i
          BY <1>5
        <5> QED
          BY <1>3, <3>4, <5>1, <5>2 DEF Distinct
      <4> HIDE DEF t
      <4> QED
        BY <3>1, <4>1, <4>2, AppendFacts
    <3> HIDE DEF Lists
    <3> QED
      BY <1>5, <3>3, <3>4
  <2> QED
    BY <2>2, <2>3
<1>8. Lists(n) /\ Once(n)
  <2>1. n \in T
    <3> HIDE DEF T
    <3>1. \A i \in 0 .. n : i \in T
      BY <1>3, <1>6, <1>7, StepByStep
    <3> QED
      BY <1>3, <3>1
  <2> HIDE DEF Lists, Once
  <2> QED
    BY <2>1
<1>9. ToSet(g[n]) = {c \in ToSet(s) : c.NodeID # id}
  <2>1. \A x : x \in ToSet(s) <=> \E j \in 1 .. n : x = s[j]
    BY <1>3 DEF ToSet
  <2>2. \A x : x \in ToSet(g[n]) <=> x \in ToSet(s) /\ x.NodeID # id
    BY <1>8, <2>1
  <2> QED
    BY <2>2
<1>10. n \in 0 .. n
  BY <1>3
<1> QED
  BY <1>2, <1>8, <1>9, <1>10

\* An answer is the beginning of the list.
LEMMA FirstKFacts ==
  ASSUME NEW s \in Seq(Contact)
  PROVE  /\ FirstK(s) \in Seq(Contact)
         /\ Len(FirstK(s)) = IF Len(s) < k THEN Len(s) ELSE k
         /\ ToSet(FirstK(s)) \subseteq ToSet(s)
         /\ Distinct(s) => Distinct(FirstK(s))
<1> DEFINE n == IF Len(s) < k THEN Len(s) ELSE k
           t == FirstK(s)
<1>1. Len(s) \in Nat /\ DOMAIN s = 1 .. Len(s) /\ k \in Nat \ {0}
  BY LenProperties, kAssumption
<1>2. n \in Nat /\ \A i \in 1 .. n : i \in 1 .. Len(s)
  BY <1>1
<1>3. \A i \in 1 .. n : s[i] \in Contact
  BY <1>2, ElementOfSeq
<1>4. t = SubSeq(s, 1, n)
  BY DEF FirstK
<1> HIDE DEF n, t
<1>5. /\ t \in Seq(Contact) /\ Len(t) = n
      /\ \A i \in 1 .. n : t[i] = s[i]
  <2>1. 1 \in Int /\ n \in Int
    BY <1>2
  <2>2. /\ t \in Seq(Contact)
        /\ Len(t) = IF 1 <= n THEN n - 1 + 1 ELSE 0
        /\ \A i \in 1 .. n - 1 + 1 : t[i] = s[1 + i - 1]
    BY <1>3, <1>4, <2>1, SubSeqProperties
  <2> QED
    BY <1>2, <2>2
<1>6. DOMAIN t = 1 .. n
  BY <1>5, LenProperties
<1>7. ToSet(t) \subseteq ToSet(s)
  BY <1>1, <1>2, <1>5, <1>6 DEF ToSet
<1>8. Distinct(s) => Distinct(t)
  BY <1>1, <1>2, <1>5, <1>6 DEF Distinct
<1> QED
  BY <1>5, <1>7, <1>8 DEF n, t

\* A list of distinct nodes is as long as its set is large.
LEMMA CountFacts ==
  ASSUME NEW s \in Seq(Contact), Distinct(s)
  PROVE  IsFiniteSet(ToSet(s)) /\ Cardinality(ToSet(s)) = Len(s)
<1> DEFINE n == Len(s)
<1>1. n \in Nat /\ DOMAIN s = 1 .. n /\ s \in [1 .. n -> Contact]
  BY LenProperties
<1>2. s \in Bijection(1 .. n, ToSet(s))
  BY <1>1 DEF Bijection, Injection, Surjection, IsInjective, ToSet, Distinct
<1>3. ExistsBijection(1 .. n, ToSet(s))
  BY <1>2 DEF ExistsBijection
<1>4. IsFiniteSet(1 .. n) /\ Cardinality(1 .. n) = n
  BY <1>1, FS_Interval
<1> QED
  BY <1>3, <1>4, FS_Bijection

\* A query that answers the beginning of a list of distinct nodes is full.
LEMMA FirstKIsFull ==
  ASSUME NEW s \in Seq(Contact), Distinct(s)
  PROVE  ListsUpToK(FirstK(s), ToSet(s))
<1> DEFINE t == FirstK(s)
<1>1. /\ t \in Seq(Contact) /\ Distinct(t) /\ ToSet(t) \subseteq ToSet(s)
      /\ Len(t) = IF Len(s) < k THEN Len(s) ELSE k
  BY FirstKFacts
<1>2. Cardinality(ToSet(s)) = Len(s)
  BY CountFacts
<1> HIDE DEF t
<1>3. Cardinality(ToSet(t)) = Len(t)
  BY <1>1, CountFacts
<1>4. ListsUpToK(t, ToSet(s))
  BY <1>1, <1>2, <1>3 DEF ListsUpToK
<1> QED
  BY <1>4 DEF t

\* A query answers as many contacts as it may: FindCloset of all but the one searched
\* for, FindAlpha of all.
LEMMA QueryFacts ==
  ASSUME NEW table \in Table, NEW self \in ID, NEW id \in ID, OneEntry(table)
  PROVE  /\ ListsUpToK(FindCloset(table, self, id), Others(table, id))
         /\ ListsUpToK(FindAlpha(table, self, id), Known(table))
         /\ FindCloset(table, self, id) \in Seq(Contact)
         /\ Distinct(FindCloset(table, self, id))
<1> DEFINE s == Visited(table, BucketIndex(id, self))
           t == Without(s, id)
<1>1. BucketIndex(id, self) \in Bits
  BY BucketIndexFacts
<1>2. s \in Seq(Contact) /\ Distinct(s) /\ ToSet(s) = Known(table)
  BY <1>1, VisitedFacts
<1> HIDE DEF s
<1>3. t \in Seq(Contact) /\ Distinct(t) /\ ToSet(t) = {c \in ToSet(s) : c.NodeID # id}
  BY <1>2, WithoutFacts
<1> HIDE DEF t
<1>4. ToSet(t) = Others(table, id)
  BY <1>2, <1>3 DEF Others
<1>5. ListsUpToK(FirstK(s), Known(table)) /\ ListsUpToK(FirstK(t), Others(table, id))
  BY <1>2, <1>3, <1>4, FirstKIsFull
<1>6. FirstK(t) \in Seq(Contact) /\ Distinct(FirstK(t))
  BY <1>3, FirstKFacts
<1> QED
  BY <1>5, <1>6 DEF FindCloset, FindAlpha, s, t

\* What is filed in the bucket of an identifier is nearer to it than what is not.
LEMMA OwnBucketFacts ==
  ASSUME NEW table \in Table, NEW self \in ID, NEW id \in ID, Filed(table, self),
         NEW q \in Bits \ {BucketIndex(id, self)},
         NEW i \in DOMAIN table[BucketIndex(id, self)], NEW j \in DOMAIN table[q]
  PROVE  Closer(id, table[BucketIndex(id, self)][i].NodeID, table[q][j].NodeID)
<1> DEFINE p == BucketIndex(id, self)
           x == table[p][i].NodeID
           y == table[q][j].NodeID
<1>1. p \in Bits
  BY BucketIndexFacts
<1>2. table[p] \in Seq(Contact) /\ table[q] \in Seq(Contact)
  BY <1>1 DEF Table
<1>3. table[p][i] \in Contact /\ table[q][j] \in Contact
  BY <1>2, ElementOfSeq, LenProperties
<1>4. x \in ID /\ y \in ID
  BY <1>3, NodeIDAssumption DEF Contact
<1>5. BucketIndex(x, self) = p /\ BucketIndex(y, self) = q /\ q # p
  BY <1>1 DEF Filed
<1> HIDE DEF x, y
<1>6. Closer(id, x, y)
  BY <1>4, <1>5, NearestBucket
<1> QED
  BY <1>6 DEF x, y

\* FindContact answers exactly the contacts of a table in which all are filed.
LEMMA FiledIsFound ==
  ASSUME NEW table \in Table, NEW self \in ID, NEW id \in ID,
         Filed(table, self), \A p \in Bits : Distinct(table[p])
  PROVE  FindContact(table, self, id) = {c \in Known(table) : c.NodeID = id}
<1> DEFINE p == BucketIndex(id, self)
           bucket == table[p]
           n == FindPos(bucket, id)
<1>1. p \in Bits
  BY BucketIndexFacts
<1>2. bucket \in Seq(Contact) /\ Distinct(bucket)
  BY <1>1 DEF Table
<1>3. /\ n \in 0 .. Len(bucket)
      /\ \A i \in 1 .. Len(bucket) : bucket[i].NodeID = id <=> n = i
  BY <1>2, FindPosFacts
<1>4. DOMAIN bucket = 1 .. Len(bucket) /\ Len(bucket) \in Nat
  BY <1>2, LenProperties
<1>5. \A c : c \in Known(table) <=>
                \E q \in Bits : \E i \in DOMAIN table[q] : c = table[q][i]
  BY DEF Known, ToSet
<1>6. \A q \in Bits : \A i \in DOMAIN table[q] : table[q][i].NodeID = id => q = p
  BY DEF Filed
<1>7. FindContact(table, self, id) = IF n = 0 THEN {} ELSE {bucket[n]}
  BY DEF FindContact
<1>8. \A c : c \in Known(table) /\ c.NodeID = id <=>
                \E i \in 1 .. Len(bucket) : c = bucket[i] /\ bucket[i].NodeID = id
  BY <1>1, <1>4, <1>5, <1>6
<1> HIDE DEF p, bucket, n
<1>9. CASE n = 0
  BY <1>3, <1>7, <1>8, <1>9
<1>10. CASE n # 0
  <2>1. n \in 1 .. Len(bucket)
    BY <1>3, <1>4, <1>10
  <2>2. \A c : c \in Known(table) /\ c.NodeID = id <=> c = bucket[n]
    BY <1>3, <1>8, <2>1
  <2> QED
    BY <1>7, <1>10, <2>2
<1> QED
  BY <1>9, <1>10

\* A whole UpDate keeps every contact where it is filed.
LEMMA UpDateFiles ==
  ASSUME NEW table \in Table, NEW self \in ID, NEW c \in Contact,
         NEW headAnswers \in BOOLEAN, Filed(table, self),
         \A p \in Bits : Distinct(table[p]) /\ Len(table[p]) <= K + 1
  PROVE  Filed(TableUpDate(table, self, c, headAnswers), self)
<1> DEFINE p == BucketIndex(c.NodeID, self)
           old == table[p]
           new == UpDate(old, c, headAnswers)
           after == TableUpDate(table, self, c, headAnswers)
<1>1. p \in Bits
  BY NodeIDAssumption, BucketIndexFacts DEF Contact
<1>2. old \in Seq(Contact) /\ Distinct(old) /\ Len(old) <= K + 1
  BY <1>1 DEF Table
<1>3. /\ \A i \in DOMAIN new : \/ new[i] = c
                               \/ \E j \in DOMAIN old : new[i] = old[j]
      /\ \A j \in DOMAIN old : BucketIndex(old[j].NodeID, self) = p
  BY <1>1, <1>2, UpDateFacts DEF Filed
<1>4. BucketIndex(c.NodeID, self) = p
  OBVIOUS
<1>5. after = [table EXCEPT ![p] = new]
  BY DEF TableUpDate
<1> HIDE DEF p, old, new, after
<1>6. \A i \in DOMAIN new : BucketIndex(new[i].NodeID, self) = p
  BY <1>3, <1>4
<1>7. after[p] = new /\ \A q \in Bits : q # p => after[q] = table[q]
  BY <1>1, <1>5 DEF Table
<1>8. Filed(after, self)
  BY <1>6, <1>7 DEF Filed
<1> QED
  BY <1>8 DEF after

\* Between two states of the table of node self, a contact goes in exchange for another
\* of its bucket only.
ExchangesOnly(before, after, self) ==
    \A c \in Known(before) \ Known(after) :
       \E d \in Known(after) \ Known(before) :
          /\ BucketIndex(d.NodeID, self) = BucketIndex(c.NodeID, self)
          /\ Known(after) = (Known(before) \ {c}) \cup {d}

\* A whole UpDate exchanges one contact at most: the head of a full bucket that does
\* not answer for the one that is heard from.
LEMMA UpDateExchanges ==
  ASSUME NEW table \in Table, NEW self \in ID, NEW c \in Contact,
         NEW headAnswers \in BOOLEAN, Filed(table, self),
         \A p \in Bits : Distinct(table[p])
  PROVE  ExchangesOnly(table, TableUpDate(table, self, c, headAnswers), self)
<1> DEFINE p == BucketIndex(c.NodeID, self)
           old == table[p]
           new == UpDate(old, c, headAnswers)
           after == TableUpDate(table, self, c, headAnswers)
           rest == UNION {ToSet(table[q]) : q \in Bits \ {p}}
<1>1. p \in Bits
  BY NodeIDAssumption, BucketIndexFacts DEF Contact
<1>2. old \in Seq(Contact) /\ Distinct(old)
  BY <1>1 DEF Table
<1>3. after[p] = new /\ \A q \in Bits \ {p} : after[q] = table[q]
  <2>1. after = [table EXCEPT ![p] = new]
    BY DEF TableUpDate
  <2> HIDE DEF p, old, new, after
  <2> QED
    BY <1>1, <2>1 DEF Table
<1>4. Known(table) = ToSet(old) \cup rest
  BY <1>1 DEF Known
<1>5. Known(after) = ToSet(new) \cup rest
  <2> HIDE DEF after, new
  <2> QED
    BY <1>1, <1>3 DEF Known
<1>6. \A x \in rest : BucketIndex(x.NodeID, self) # p
  BY DEF Filed, ToSet
<1>7. \A x \in ToSet(old) : BucketIndex(x.NodeID, self) = p
  BY <1>1 DEF Filed, ToSet
<1>8. /\ FindPos(old, c.NodeID) # 0 => ToSet(new) = ToSet(old)
      /\ FindPos(old, c.NodeID) = 0 /\ HasRoom(old) => ToSet(new) = ToSet(old) \cup {c}
      /\ NeedsPing(old, c) /\ headAnswers => new = old
      /\ NeedsPing(old, c) /\ ~ headAnswers =>
            /\ old[1] \in ToSet(old)
            /\ ToSet(new) = (ToSet(old) \ {old[1]}) \cup {c}
  BY <1>2, UpDateContents
<1>9. FindPos(old, c.NodeID) = 0 => c \notin ToSet(old)
  <2>1. Len(old) \in Nat /\ DOMAIN old = 1 .. Len(old)
    BY <1>2, LenProperties
  <2>2. \A i \in 1 .. Len(old) : old[i].NodeID = c.NodeID <=> FindPos(old, c.NodeID) = i
    BY <1>2, FindPosFacts
  <2> QED
    BY <2>1, <2>2 DEF ToSet
<1>10. BucketIndex(c.NodeID, self) = p
  OBVIOUS
<1> HIDE DEF p, old, new, after, rest
<1>11. CASE NeedsPing(old, c) /\ ~ headAnswers
  <2>1. old[1] \notin rest /\ c \notin rest
    BY <1>6, <1>7, <1>8, <1>10, <1>11
  <2>2. c \notin ToSet(old)
    BY <1>9, <1>11 DEF NeedsPing
  <2>3. Known(after) = (Known(table) \ {old[1]}) \cup {c}
    BY <1>4, <1>5, <1>8, <1>11, <2>1
  <2>4. c \in Known(after) \ Known(table)
    BY <1>4, <2>1, <2>2, <2>3
  <2>5. \A x \in Known(table) \ Known(after) : x = old[1]
    BY <2>3
  <2>6. ExchangesOnly(table, after, self)
    BY <1>7, <1>8, <1>10, <1>11, <2>3, <2>4, <2>5 DEF ExchangesOnly
  <2> QED
    BY <2>6 DEF after
<1>12. CASE ~ (NeedsPing(old, c) /\ ~ headAnswers)
  <2>1. ToSet(old) \subseteq ToSet(new)
    BY <1>8, <1>12 DEF NeedsPing
  <2>2. ExchangesOnly(table, after, self)
    BY <1>4, <1>5, <2>1 DEF ExchangesOnly
  <2> QED
    BY <2>2 DEF after
<1> QED
  BY <1>11, <1>12
============================================================================
