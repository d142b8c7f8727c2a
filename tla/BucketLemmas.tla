---------------------------- MODULE BucketLemmas ----------------------------
(***************************************************************************)
(* Facts about the operators of module Buckets, for the proofs about the   *)
(* modules built from them.                                                *)
(***************************************************************************)
EXTENDS Buckets, SequenceTheorems, WellFoundedInduction, TLAPS

\* A set of natural numbers that is not empty has a least element.
LEMMA LeastNumber ==
  ASSUME NEW T, T \subseteq Nat, T # {}
  PROVE  \E x \in T : \A y \in T : x <= y
<1> DEFINE R == OpToRel(<, Nat)
<1>1. IsWellFoundedOn(R, Nat)
  BY NatLessThanWellFounded
<1>2. \A x, y \in Nat : <<y, x>> \in R <=> y < x
  BY DEF OpToRel
<1> HIDE DEF R
<1>3. PICK x \in T : \A y \in T : ~ (<<y, x>> \in R)
  BY <1>1, WFMin
<1>4. ASSUME NEW y \in T
      PROVE  x <= y
  <2>1. x \in Nat /\ y \in Nat /\ ~ (y < x)
    BY <1>2, <1>3
  <2> QED
    BY <2>1
<1> QED
  BY <1>3, <1>4

\* What holds of 0 and goes from each number to the next holds up to n.
LEMMA StepByStep ==
  ASSUME NEW n \in Nat, NEW T, 0 \in T,
         \A i \in 1 .. n : i - 1 \in T => i \in T
  PROVE  \A i \in 0 .. n : i \in T
<1> DEFINE missing == {i \in 0 .. n : i \notin T}
<1>1. SUFFICES ASSUME missing # {}
               PROVE  FALSE
  OBVIOUS
<1>2. PICK i \in missing : \A j \in missing : i <= j
  <2>1. missing \subseteq Nat
    OBVIOUS
  <2> QED
    BY <1>1, <2>1, LeastNumber
<1>3. i \in 1 .. n
  BY <1>2
<1>4. i - 1 \in 0 .. n /\ ~ (i <= i - 1)
  BY <1>3
<1>5. i - 1 \in T
  BY <1>2, <1>4
<1> QED
  BY <1>2, <1>3, <1>5

\* What RemoveAt leaves: everything but position i, in the same order.
LEMMA RemoveAtFacts ==
  ASSUME NEW S, NEW s \in Seq(S), NEW i \in 1 .. Len(s)
  PROVE  /\ RemoveAt(s, i) \in Seq(S)
         /\ Len(RemoveAt(s, i)) = Len(s) - 1
         /\ \A j \in 1 .. Len(s) - 1 :
               RemoveAt(s, i)[j] = IF j < i THEN s[j] ELSE s[j + 1]
<1> DEFINE left  == SubSeq(s, 1, i - 1)
           right == SubSeq(s, i + 1, Len(s))
<1>1. /\ left \in Seq(S)
      /\ Len(left) = i - 1
      /\ \A j \in 1 .. i - 1 : left[j] = s[j]
  <2>1. \A j \in 1 .. i - 1 : s[j] \in S
    BY ElementOfSeq, LenProperties
  <2> QED  BY <2>1, SubSeqProperties, LenProperties
<1>2. /\ right \in Seq(S)
      /\ Len(right) = Len(s) - i
      /\ \A j \in 1 .. Len(s) - i : right[j] = s[j + i]
  <2>1. \A j \in i + 1 .. Len(s) : s[j] \in S
    BY ElementOfSeq, LenProperties
  <2> QED  BY <2>1, SubSeqProperties, LenProperties
<1>3. RemoveAt(s, i) = left \o right
  BY DEF RemoveAt
<1> HIDE DEF left, right
<1>4. /\ left \o right \in Seq(S)
      /\ Len(left \o right) = Len(left) + Len(right)
      /\ \A j \in 1 .. Len(left) + Len(right) :
            (left \o right)[j] = IF j <= Len(left) THEN left[j]
                                 ELSE right[j - Len(left)]
  BY <1>1, <1>2, ConcatProperties
<1>5. Len(s) \in Nat
  BY LenProperties
<1> QED
  BY <1>1, <1>2, <1>3, <1>4, <1>5

\* FindPos answers the only position of the identifier, or 0.
LEMMA FindPosFacts ==
  ASSUME NEW b \in Seq(Contact), Distinct(b), NEW id
  PROVE  /\ FindPos(b, id) \in 0 .. Len(b)
         /\ FindPos(b, id) # 0 => b[FindPos(b, id)].NodeID = id
         /\ \A i \in 1 .. Len(b) : b[i].NodeID = id <=> FindPos(b, id) = i
<1>1. Len(b) \in Nat /\ DOMAIN b = 1 .. Len(b)
  BY LenProperties
<1>2. CASE \E i \in DOMAIN b : b[i].NodeID = id
  <2>1. PICK i \in DOMAIN b : b[i].NodeID = id
    BY <1>2
  <2>2. \A j \in DOMAIN b : b[j].NodeID = id => j = i
    BY <2>1 DEF Distinct
  <2>3. \A j \in 1 .. i - 1 : b[j].NodeID # id
    BY <2>2, <1>1
  <2>4. FindPos(b, id) = i
    BY <1>2, <2>1, <2>2, <2>3 DEF FindPos
  <2> QED
    BY <2>1, <2>2, <2>4, <1>1
<1>3. CASE ~ \E i \in DOMAIN b : b[i].NodeID = id
  BY <1>1, <1>3 DEF FindPos
<1> QED
  BY <1>2, <1>3

\* Where every contact of the bucket after UpDate comes from: it is the new one
\* if its node was unknown, and otherwise an old one, unchanged.
LEMMA UpDateFacts ==
  ASSUME NEW b \in Seq(Contact), Distinct(b), Len(b) <= K + 1,
         NEW c \in Contact, NEW headAnswers \in BOOLEAN
  PROVE  LET u == UpDate(b, c, headAnswers)
         IN  /\ u \in Seq(Contact)
             /\ Distinct(u)
             /\ Len(b) <= Len(u) /\ Len(u) <= K + 1
             /\ \A i \in DOMAIN u : \/ u[i] = c /\ FindPos(b, c.NodeID) = 0
                                    \/ \E j \in DOMAIN b : u[i] = b[j]
<1> DEFINE u == UpDate(b, c, headAnswers)
           p == FindPos(b, c.NodeID)
<1>1. Len(b) \in Nat /\ DOMAIN b = 1 .. Len(b) /\ K \in Nat \ {0}
  BY LenProperties, KAssumption
<1>2. \A i \in 1 .. Len(b) : b[i] \in Contact
  BY ElementOfSeq, <1>1
<1>3. /\ p \in 0 .. Len(b)
      /\ \A i \in 1 .. Len(b) : b[i].NodeID = c.NodeID <=> p = i
  BY FindPosFacts
<1>4. CASE u = b
  BY <1>4, <1>1
<1>5. CASE p # 0 /\ p # 1 /\ p # Len(b)
  <2> DEFINE r == RemoveAt(b, p)
  <2>1. p \in 1 .. Len(b)
    BY <1>3, <1>5
  <2>2. /\ r \in Seq(Contact) /\ Len(r) = Len(b) - 1
        /\ \A j \in 1 .. Len(b) - 1 : r[j] = IF j < p THEN b[j] ELSE b[j + 1]
    BY <2>1, RemoveAtFacts
  <2>3. u = Append(r, b[p])
    BY <1>5 DEF UpDate, MoveToTail
  <2>9. b[p] \in Contact
    BY <2>1, <1>2
  <2> HIDE DEF r, u, p
  <2>4. /\ u \in Seq(Contact) /\ Len(u) = Len(b)
        /\ DOMAIN u = 1 .. Len(b)
        /\ \A i \in 1 .. Len(b) - 1 : u[i] = IF i < p THEN b[i] ELSE b[i + 1]
        /\ u[Len(b)] = b[p]
    <3>1. /\ u \in Seq(Contact) /\ Len(u) = Len(r) + 1
          /\ \A i \in 1 .. Len(r) : u[i] = r[i]
          /\ u[Len(r) + 1] = b[p]
      BY <2>2, <2>3, <2>9, AppendProperties
    <3>2. Len(u) = Len(b) /\ DOMAIN u = 1 .. Len(u)
      BY <1>1, <2>2, <3>1, LenProperties
    <3>3. Len(r) + 1 = Len(b)
      BY <1>1, <2>2
    <3> QED
      BY <1>1, <2>2, <3>1, <3>2, <3>3
  <2> DEFINE old(i) == IF i = Len(b) THEN p ELSE IF i < p THEN i ELSE i + 1
  <2>5. \A i \in DOMAIN u : old(i) \in DOMAIN b /\ u[i] = b[old(i)]
    BY <1>1, <2>1, <2>4
  <2>6. \A i, j \in DOMAIN u : old(i) = old(j) => i = j
    BY <1>1, <2>1, <2>4
  <2> HIDE DEF old
  <2>7. Distinct(u)
    BY <2>5, <2>6 DEF Distinct
  <2> QED
    BY <1>1, <2>4, <2>5, <2>7 DEF u
<1>6. CASE p = 0 /\ HasRoom(b)
  <2>1. u = Append(b, c)
    BY <1>6 DEF UpDate, Push
  <2> HIDE DEF u
  <2>2. /\ u \in Seq(Contact) /\ Len(u) = Len(b) + 1
        /\ DOMAIN u = 1 .. Len(b) + 1
        /\ \A i \in 1 .. Len(b) : u[i] = b[i]
        /\ u[Len(b) + 1] = c
    BY <1>1, <2>1, AppendProperties, LenProperties
  <2>3. \A i \in 1 .. Len(b) : u[i].NodeID # c.NodeID
    BY <1>3, <1>6, <2>2
  <2>4. Distinct(u)
    BY <1>1, <2>2, <2>3 DEF Distinct
  <2> QED
    BY <1>1, <1>6, <2>2, <2>4 DEF HasRoom, u
<1>7. CASE p = 0 /\ ~ HasRoom(b) /\ ~ headAnswers
  <2>1. u = Append(Tail(b), c)
    BY <1>7 DEF UpDate, DeleteFrontInsert
  <2>9. ~ (Len(b) <= K)
    BY <1>7 DEF HasRoom
  <2>2. Len(b) = K + 1 /\ b # << >>
    <3>1. Len(b) = K + 1
      <4> DEFINE len == Len(b)
      <4>1. len \in Nat /\ K \in Nat /\ len <= K + 1 /\ ~ (len <= K)
        BY <1>1, <2>9
      <4> HIDE DEF len
      <4>2. len = K + 1
        BY <4>1
      <4> QED
        BY <4>2 DEF len
    <3>2. Len(b) # 0
      BY <1>1, <3>1
    <3> QED
      BY <3>1, <3>2, EmptySeq
  <2>3. /\ Tail(b) \in Seq(Contact) /\ Len(Tail(b)) = Len(b) - 1
        /\ \A i \in 1 .. Len(b) - 1 : Tail(b)[i] = b[i + 1]
    BY <2>2, HeadTailProperties
  <2> HIDE DEF u
  <2>4. /\ u \in Seq(Contact) /\ Len(u) = Len(b)
        /\ DOMAIN u = 1 .. Len(b)
        /\ \A i \in 1 .. Len(b) - 1 : u[i] = b[i + 1]
        /\ u[Len(b)] = c
    BY <1>1, <2>1, <2>2, <2>3, AppendProperties, LenProperties
  <2>5. \A i \in 1 .. Len(b) - 1 : u[i].NodeID # c.NodeID
    BY <1>1, <1>3, <1>7, <2>4
  <2>6. ASSUME NEW i \in 1 .. Len(b) - 1, NEW j \in 1 .. Len(b) - 1,
               u[i].NodeID = u[j].NodeID
        PROVE  i = j
    <3>1. i + 1 \in DOMAIN b /\ j + 1 \in DOMAIN b
      BY <1>1
    <3>2. b[i + 1].NodeID = b[j + 1].NodeID
      BY <2>4, <2>6
    <3>3. i + 1 = j + 1
      BY <3>1, <3>2 DEF Distinct
    <3> QED
      BY <1>1, <3>3
  <2>7. Distinct(u)
    BY <1>1, <2>4, <2>5, <2>6 DEF Distinct
  <2>8. \A i \in 1 .. Len(b) - 1 : i + 1 \in DOMAIN b
    BY <1>1
  <2> QED
    BY <1>1, <1>7, <2>4, <2>7, <2>8 DEF u
<1>8. \/ u = b
      \/ p # 0 /\ p # 1 /\ p # Len(b)
      \/ p = 0 /\ HasRoom(b)
      \/ p = 0 /\ ~ HasRoom(b) /\ ~ headAnswers
  BY DEF UpDate, MoveToTail
<1> QED
  BY <1>4, <1>5, <1>6, <1>7, <1>8

\* A list to which a contact is appended.
LEMMA AppendFacts ==
  ASSUME NEW s \in Seq(Contact), NEW c \in Contact
  PROVE  /\ Append(s, c) \in Seq(Contact)
         /\ ToSet(Append(s, c)) = ToSet(s) \cup {c}
         /\ Distinct(s) /\ (\A x \in ToSet(s) : x.NodeID # c.NodeID)
            => Distinct(Append(s, c))
<1> DEFINE u == Append(s, c)
           m == Len(s)
<1>1. /\ m \in Nat /\ DOMAIN s = 1 .. m
      /\ u \in Seq(Contact) /\ DOMAIN u = 1 .. m + 1
      /\ \A i \in 1 .. m : u[i] = s[i]
      /\ u[m + 1] = c
  BY LenProperties, AppendProperties
<1> HIDE DEF u, m
<1>2. ToSet(u) = ToSet(s) \cup {c}
  <2>1. \A i : i \in 1 .. m + 1 <=> i \in 1 .. m \/ i = m + 1
    BY <1>1
  <2>2. \A x : x \in ToSet(u) <=> x \in ToSet(s) \/ x = c
    BY <1>1, <2>1 DEF ToSet
  <2> QED
    BY <2>2
<1>3. ASSUME Distinct(s), \A x \in ToSet(s) : x.NodeID # c.NodeID
      PROVE  Distinct(u)
  <2>1. \A i \in 1 .. m : u[i].NodeID # c.NodeID
    BY <1>1, <1>3 DEF ToSet
  <2>2. \A i, j \in 1 .. m : u[i].NodeID = u[j].NodeID => i = j
    BY <1>1, <1>3 DEF Distinct
  <2>3. \A i \in 1 .. m + 1 : i \in 1 .. m \/ i = m + 1
    BY <1>1
  <2> QED
    BY <1>1, <2>1, <2>2, <2>3 DEF Distinct
<1> QED
  BY <1>1, <1>2, <1>3 DEF u

\* What the bucket holds after UpDate.
LEMMA UpDateContents ==
  ASSUME NEW b \in Seq(Contact), Distinct(b), NEW c \in Contact,
         NEW headAnswers \in BOOLEAN
  PROVE  LET u == UpDate(b, c, headAnswers)
         IN  /\ FindPos(b, c.NodeID) # 0 => ToSet(u) = ToSet(b)
             /\ FindPos(b, c.NodeID) = 0 /\ HasRoom(b) => ToSet(u) = ToSet(b) \cup {c}
             /\ NeedsPing(b, c) /\ headAnswers => u = b
             /\ NeedsPing(b, c) /\ ~ headAnswers =>
                   /\ u = DeleteFrontInsert(b, c)
                   /\ b # << >> /\ b[1] \in ToSet(b)
                   /\ ToSet(u) = (ToSet(b) \ {b[1]}) \cup {c}
<1> DEFINE u == UpDate(b, c, headAnswers)
           p == FindPos(b, c.NodeID)
           n == Len(b)
<1>1. /\ n \in Nat /\ DOMAIN b = 1 .. n /\ K \in Nat \ {0}
      /\ \A i \in 1 .. n : b[i] \in Contact
  BY LenProperties, ElementOfSeq, KAssumption
<1>2. p \in 0 .. n
  BY FindPosFacts
<1>3. ASSUME p # 0, p # 1, p # n
      PROVE  ToSet(u) = ToSet(b)
  <2> DEFINE r == RemoveAt(b, p)
  <2>1. p \in 1 .. n
    BY <1>1, <1>2, <1>3
  <2>2. /\ r \in Seq(Contact) /\ Len(r) = n - 1
        /\ \A j \in 1 .. n - 1 : r[j] = IF j < p THEN b[j] ELSE b[j + 1]
    BY <2>1, RemoveAtFacts
  <2>3. u = Append(r, b[p]) /\ b[p] \in Contact
    BY <1>1, <1>3, <2>1 DEF UpDate, MoveToTail
  <2>4. DOMAIN r = 1 .. n - 1
    BY <2>2, LenProperties
  <2> HIDE DEF r, u, p, n
  <2>5. ToSet(u) = ToSet(r) \cup {b[p]}
    BY <2>2, <2>3, AppendFacts
  <2>6. \A x : x \in ToSet(r) => x \in ToSet(b)
    <3>1. \A j \in 1 .. n - 1 : j \in 1 .. n /\ j + 1 \in 1 .. n
      BY <1>1
    <3> QED
      BY <1>1, <2>2, <2>4, <3>1 DEF ToSet
  <2>7. \A x : x \in ToSet(b) => x \in ToSet(r) \/ x = b[p]
    <3> SUFFICES ASSUME NEW i \in 1 .. n, i # p
                 PROVE  \E j \in 1 .. n - 1 : r[j] = b[i]
      BY <1>1, <2>4 DEF ToSet
    <3>1. CASE i < p
      BY <1>1, <2>1, <2>2, <3>1
    <3>2. CASE p < i
      <4>1. i - 1 \in 1 .. n - 1 /\ ~ (i - 1 < p) /\ (i - 1) + 1 = i
        BY <1>1, <2>1, <3>2
      <4>2. r[i - 1] = b[i]
        BY <2>2, <4>1
      <4> QED
        BY <4>1, <4>2
    <3> QED
      BY <1>1, <2>1, <3>1, <3>2
  <2>8. b[p] \in ToSet(b)
    BY <1>1, <2>1 DEF ToSet
  <2> QED
    BY <2>5, <2>6, <2>7, <2>8
<1>4. ASSUME p = 0, HasRoom(b)
      PROVE  ToSet(u) = ToSet(b) \cup {c}
  <2>1. u = Append(b, c)
    BY <1>4 DEF UpDate, Push
  <2> QED
    BY <2>1, AppendFacts
<1>5. ASSUME p = 0, ~ HasRoom(b), ~ headAnswers
      PROVE  /\ u = DeleteFrontInsert(b, c)
             /\ b # << >> /\ b[1] \in ToSet(b)
             /\ ToSet(u) = (ToSet(b) \ {b[1]}) \cup {c}
  <2> DEFINE t == Tail(b)
  <2>1. u = Append(t, c) /\ u = DeleteFrontInsert(b, c)
    BY <1>5 DEF UpDate, DeleteFrontInsert
  <2>2. 1 \in 1 .. n /\ b # << >>
    <3>1. ~ (n <= K)
      BY <1>5 DEF HasRoom
    <3>2. 1 \in 1 .. n /\ n # 0
      <4> HIDE DEF n
      <4> QED
        BY <1>1, <3>1
    <3> QED
      BY <3>2, EmptySeq
  <2>3. /\ t \in Seq(Contact) /\ Len(t) = n - 1
        /\ \A i \in 1 .. n - 1 : t[i] = b[i + 1]
    BY <2>2, HeadTailProperties
  <2>4. DOMAIN t = 1 .. n - 1
    BY <2>3, LenProperties
  <2>5. ToSet(u) = ToSet(t) \cup {c}
    BY <2>1, <2>3, AppendFacts
  <2> HIDE DEF t, u, p, n
  <2>6. \A x : x \in ToSet(t) => x \in ToSet(b) /\ x # b[1]
    <3> SUFFICES ASSUME NEW i \in 1 .. n - 1
                 PROVE  t[i] \in ToSet(b) /\ t[i] # b[1]
      BY <2>4 DEF ToSet
    <3>1. i + 1 \in 1 .. n /\ i + 1 # 1
      BY <1>1
    <3>2. b[i + 1].NodeID # b[1].NodeID
      BY <1>1, <2>2, <3>1 DEF Distinct
    <3> QED
      BY <1>1, <2>3, <3>1, <3>2 DEF ToSet
  <2>7. \A x : x \in ToSet(b) /\ x # b[1] => x \in ToSet(t)
    <3> SUFFICES ASSUME NEW i \in 1 .. n, i # 1
                 PROVE  \E j \in 1 .. n - 1 : t[j] = b[i]
      BY <1>1, <2>4 DEF ToSet
    <3>1. i - 1 \in 1 .. n - 1 /\ (i - 1) + 1 = i
      BY <1>1
    <3>2. t[i - 1] = b[i]
      BY <2>3, <3>1
    <3> QED
      BY <3>1, <3>2
  <2>8. b[1] \in ToSet(b)
    BY <1>1, <2>2 DEF ToSet
  <2> QED
    BY <2>1, <2>2, <2>5, <2>6, <2>7, <2>8
<1>6. ASSUME p # 0, p = 1 \/ p = n
      PROVE  ToSet(u) = ToSet(b)
  BY <1>6 DEF UpDate, MoveToTail
<1>7. ASSUME p = 0, ~ HasRoom(b), headAnswers
      PROVE  u = b
  BY <1>7 DEF UpDate
<1> HIDE DEF u, p, n
<1>8. /\ p # 0 => ToSet(u) = ToSet(b)
      /\ p = 0 /\ HasRoom(b) => ToSet(u) = ToSet(b) \cup {c}
      /\ p = 0 /\ ~ HasRoom(b) /\ headAnswers => u = b
      /\ p = 0 /\ ~ HasRoom(b) /\ ~ headAnswers =>
            /\ u = DeleteFrontInsert(b, c)
            /\ b # << >> /\ b[1] \in ToSet(b)
            /\ ToSet(u) = (ToSet(b) \ {b[1]}) \cup {c}
  BY <1>3, <1>4, <1>5, <1>6, <1>7
<1> QED
  BY <1>8 DEF NeedsPing, u, p

\* A bucket that has a node, or is full, stays so: UpDate makes no room.
LEMMA UpDateKeeps ==
  ASSUME NEW b \in Seq(Contact), Distinct(b), Len(b) <= K + 1,
         NEW c \in Contact, NEW headAnswers \in BOOLEAN, NEW id,
         FindPos(b, id) # 0 \/ ~ HasRoom(b) \/ id = c.NodeID
  PROVE  LET u == UpDate(b, c, headAnswers)
         IN  FindPos(u, id) # 0 \/ ~ HasRoom(u)
<1> DEFINE u == UpDate(b, c, headAnswers)
<1>1. /\ u \in Seq(Contact) /\ Distinct(u)
      /\ Len(b) <= Len(u)
  BY UpDateFacts
<1>2. Len(b) \in Nat /\ Len(u) \in Nat /\ K \in Nat
  BY <1>1, LenProperties, KAssumption
<1>3. /\ DOMAIN b = 1 .. Len(b) /\ DOMAIN u = 1 .. Len(u)
  BY <1>1, LenProperties
<1>4. ASSUME ~ HasRoom(b)
      PROVE  ~ HasRoom(u)
  <2> DEFINE m == Len(b)
             n == Len(u)
  <2>1. ~ (m <= K) /\ m <= n /\ m \in Nat /\ n \in Nat
    BY <1>1, <1>2, <1>4 DEF HasRoom
  <2> HIDE DEF m, n
  <2>2. ~ (n <= K)
    BY <1>2, <2>1
  <2> QED
    BY <2>2 DEF HasRoom, n
<1>5. ASSUME HasRoom(b)
      PROVE  \E x \in ToSet(u) : x.NodeID = id
  <2>1. CASE FindPos(b, id) # 0
    <3>1. \E x \in ToSet(b) : x.NodeID = id
      <4>1. FindPos(b, id) \in 1 .. Len(b) /\ b[FindPos(b, id)].NodeID = id
        BY <1>2, <2>1, FindPosFacts
      <4> QED
        BY <1>3, <4>1 DEF ToSet
    <3> QED
      BY <1>5, <3>1, UpDateContents
  <2>2. CASE id = c.NodeID /\ FindPos(b, id) = 0
    BY <1>5, <2>2, UpDateContents
  <2> QED
    BY <1>5, <2>1, <2>2
<1>6. ASSUME NEW x \in ToSet(u), x.NodeID = id
      PROVE  FindPos(u, id) # 0
  <2>1. PICK i \in 1 .. Len(u) : u[i].NodeID = id
    BY <1>3, <1>6 DEF ToSet
  <2> HIDE DEF u
  <2>2. FindPos(u, id) = i
    BY <1>1, <2>1, FindPosFacts
  <2> QED
    BY <2>2
<1> HIDE DEF u
<1>7. FindPos(u, id) # 0 \/ ~ HasRoom(u)
  BY <1>4, <1>5, <1>6
<1> QED
  BY <1>7 DEF u
============================================================================
