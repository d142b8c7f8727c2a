-------------------------- MODULE BucketListProofs --------------------------
(***************************************************************************)
(* Proofs that the linked list of module BucketList keeps its pointers     *)
(* right, and that it implements the k-bucket of module KBucket.           *)
(***************************************************************************)
EXTENDS BucketList, BucketLemmas

HeapType == [Addr -> Node \cup {Nil}]

\* What an assignment to the next field of a node changes.
LEMMA SetNextFacts ==
  ASSUME NEW heap \in HeapType, NEW a \in Addr, heap[a] # Nil,
         NEW b \in Addr \cup {Nil}
  PROVE  /\ SetNext(heap, a, b) \in HeapType
         /\ \A x \in Addr \ {a} : SetNext(heap, a, b)[x] = heap[x]
         /\ SetNext(heap, a, b)[a] # Nil
         /\ SetNext(heap, a, b)[a].contact = heap[a].contact
         /\ SetNext(heap, a, b)[a].next = b
         /\ SetNext(heap, a, b)[a].prev = heap[a].prev
<1>1. heap[a] \in Node
  BY DEF HeapType
<1> DEFINE node == [heap[a] EXCEPT !.next = b]
<1>2. /\ node \in Node /\ node.contact = heap[a].contact
      /\ node.next = b /\ node.prev = heap[a].prev
  BY <1>1 DEF Node
<1>3. node # Nil
  BY <1>2, NilAssumption
<1>4. SetNext(heap, a, b) = [heap EXCEPT ![a] = node]
  BY DEF SetNext
<1> HIDE DEF node
<1> QED
  BY <1>2, <1>3, <1>4 DEF HeapType

\* What an assignment to the prev field of a node changes.
LEMMA SetPrevFacts ==
  ASSUME NEW heap \in HeapType, NEW a \in Addr, heap[a] # Nil,
         NEW b \in Addr \cup {Nil}
  PROVE  /\ SetPrev(heap, a, b) \in HeapType
         /\ \A x \in Addr \ {a} : SetPrev(heap, a, b)[x] = heap[x]
         /\ SetPrev(heap, a, b)[a] # Nil
         /\ SetPrev(heap, a, b)[a].contact = heap[a].contact
         /\ SetPrev(heap, a, b)[a].prev = b
         /\ SetPrev(heap, a, b)[a].next = heap[a].next
<1>1. heap[a] \in Node
  BY DEF HeapType
<1> DEFINE node == [heap[a] EXCEPT !.prev = b]
<1>2. /\ node \in Node /\ node.contact = heap[a].contact
      /\ node.prev = b /\ node.next = heap[a].next
  BY <1>1 DEF Node
<1>3. node # Nil
  BY <1>2, NilAssumption
<1>4. SetPrev(heap, a, b) = [heap EXCEPT ![a] = node]
  BY DEF SetPrev
<1> HIDE DEF node
<1> QED
  BY <1>2, <1>3, <1>4 DEF HeapType

\* A list is typed when its parts are.
LEMMA ListFacts ==
  /\ \A l \in ListRecord : /\ l.heap \in HeapType /\ l.length \in Nat
                           /\ l.head \in Addr \cup {Nil}
                           /\ l.tail \in Addr \cup {Nil}
  /\ \A heap \in HeapType, head, tail \in Addr \cup {Nil}, length \in Nat :
        [heap |-> heap, head |-> head, tail |-> tail, length |-> length]
           \in ListRecord
BY DEF ListRecord, HeapType

\* Push behind the tail of a well-linked list leaves a well-linked list.
LEMMA PushLinks ==
  ASSUME NEW l \in ListRecord, NEW ch \in Seq(Addr), Linked(l, ch),
         NEW n \in Addr, l.heap[n] = Nil, NEW c \in Contact
  PROVE  /\ PushNode(l, n, c) \in ListRecord
         /\ Linked(PushNode(l, n, c), Append(ch, n))
         /\ PushNode(l, n, c).length = l.length + 1
         /\ ContactAt(PushNode(l, n, c), n) = c
         /\ \A i \in DOMAIN ch :
               ContactAt(PushNode(l, n, c), ch[i]) = ContactAt(l, ch[i])
<1> DEFINE m  == PushNode(l, n, c)
           cn == Append(ch, n)
           back == IF l.head = Nil THEN Nil ELSE l.tail
           new == [contact |-> c, next |-> Nil, prev |-> back]
           heap == [l.heap EXCEPT ![n] = new]
<1>1. /\ cn \in Seq(Addr)
      /\ Len(cn) = Len(ch) + 1
      /\ DOMAIN cn = 1 .. Len(ch) + 1
      /\ DOMAIN ch = 1 .. Len(ch)
      /\ Len(ch) \in Nat
      /\ cn # << >>
      /\ \A i \in 1 .. Len(ch) : cn[i] = ch[i] /\ ch[i] \in Addr
      /\ cn[Len(ch) + 1] = n
  BY AppendProperties, LenProperties, ElementOfSeq
<1>2. ch = << >> <=> Len(ch) = 0
  BY EmptySeq, <1>1
<1>3. \A i \in 1 .. Len(ch) : ch[i] # n /\ l.heap[ch[i]] # Nil
  BY <1>1 DEF Linked
<1>4. new \in Node /\ new # Nil /\ new.contact = c /\ new.next = Nil
      /\ new.prev = back
  BY ListFacts, NilAssumption DEF Node
<1>5. /\ heap \in HeapType
      /\ \A a \in Addr \ {n} : heap[a] = l.heap[a]
      /\ heap[n] = new
  BY ListFacts, <1>4 DEF HeapType
<1>6. CASE ch = << >>
  <2>1. l.head = Nil /\ l.tail = Nil
    BY <1>6 DEF Linked
  <2>2. m = [heap |-> heap, head |-> n, tail |-> n, length |-> l.length + 1]
    BY <2>1 DEF PushNode, HeapWith
  <2>3. m \in ListRecord
    BY <2>2, <1>5, ListFacts
  <2>4. \A a \in Addr \ {n} : heap[a] = Nil
    BY <1>1, <1>2, <1>5, <1>6 DEF Linked
  <2>5. m.heap = heap /\ m.head = n /\ m.tail = n /\ m.length = l.length + 1
    BY <2>2
  <2> HIDE DEF m, cn, heap, new
  <2>6. Linked(m, cn)
    BY <1>1, <1>2, <1>4, <1>5, <1>6, <2>1, <2>4, <2>5 DEF Linked, back
  <2> QED
    BY <2>3, <2>5, <2>6, <1>1, <1>2, <1>4, <1>5, <1>6 DEF ContactAt, m, cn
<1>7. CASE ch # << >>
  <2> DEFINE h == SetNext(heap, l.tail, n)
  <2>1. Len(ch) \in 1 .. Len(ch) /\ 1 \in 1 .. Len(ch)
    BY <1>1, <1>2, <1>7
  <2>2. /\ l.head = ch[1] /\ l.tail = ch[Len(ch)]
        /\ l.head # Nil /\ l.tail # n /\ l.tail \in Addr
    BY <1>1, <1>3, <1>7, <2>1, NilAssumption DEF Linked
  <2>3. back = l.tail /\ heap[l.tail] = l.heap[l.tail] /\ l.heap[l.tail] # Nil
    BY <1>1, <1>3, <1>5, <2>1, <2>2
  <2>4. m = [heap |-> h, head |-> l.head, tail |-> n,
             length |-> l.length + 1]
    BY <2>2 DEF PushNode, HeapWith
  <2>5. m.heap = h /\ m.head = ch[1] /\ m.tail = n /\ m.length = l.length + 1
    BY <2>2, <2>4
  <2> HIDE DEF m, cn, heap, new, back
  <2>6. /\ h \in HeapType
        /\ \A x \in Addr \ {l.tail} : h[x] = heap[x]
        /\ h[l.tail] # Nil /\ h[l.tail].contact = l.heap[l.tail].contact
        /\ h[l.tail].next = n /\ h[l.tail].prev = l.heap[l.tail].prev
    BY <1>5, <2>2, <2>3, SetNextFacts
  <2> HIDE DEF h
  <2>7. m \in ListRecord
    BY <2>2, <2>4, <2>6, ListFacts
  <2>8. \A i \in 1 .. Len(ch) : ch[i] = l.tail <=> i = Len(ch)
    <3>1. \A i, j \in 1 .. Len(ch) : ch[i] = ch[j] => i = j
      BY <1>1 DEF Linked
    <3> QED
      BY <2>1, <2>2, <3>1
  <2>9. /\ h[n] = new
        /\ \A i \in 1 .. Len(ch) : i # Len(ch) => h[ch[i]] = l.heap[ch[i]]
        /\ \A i \in 1 .. Len(ch) : h[ch[i]] # Nil
        /\ \A a \in Addr \ {n} : h[a] # Nil <=> l.heap[a] # Nil
    <3>1. h[n] = new
      BY <1>5, <2>2, <2>6
    <3>2. ASSUME NEW i \in 1 .. Len(ch), i # Len(ch)
          PROVE  h[ch[i]] = l.heap[ch[i]]
      BY <1>1, <1>3, <1>5, <2>6, <2>8, <3>2
    <3>3. ASSUME NEW a \in Addr \ {n}
          PROVE  h[a] # Nil <=> l.heap[a] # Nil
      BY <1>5, <2>3, <2>6
    <3>4. ASSUME NEW i \in 1 .. Len(ch)
          PROVE  h[ch[i]] # Nil
      BY <1>1, <1>3, <3>3
    <3> QED
      BY <3>1, <3>2, <3>3, <3>4
  <2>10. Linked(m, cn)
    <3>1. \A a \in Addr : m.heap[a] # Nil <=> \E i \in DOMAIN cn : cn[i] = a
      <4>1. \A a \in Addr \ {n} :
               m.heap[a] # Nil <=> \E i \in DOMAIN ch : ch[i] = a
        BY <2>5, <2>9 DEF Linked
      <4>2. m.heap[n] # Nil /\ n = cn[Len(ch) + 1]
        BY <1>1, <1>4, <2>5, <2>9
      <4>3. Len(ch) + 1 \in DOMAIN cn
        BY <1>1
      <4> QED
        BY <1>1, <4>1, <4>2, <4>3
    <3>2. \A i, j \in DOMAIN cn : cn[i] = cn[j] => i = j
      BY <1>1, <1>3 DEF Linked
    <3>3. m.head = cn[1] /\ m.tail = cn[Len(cn)]
      BY <1>1, <2>1, <2>5
    <3>4. ASSUME NEW i \in DOMAIN cn
          PROVE  /\ m.heap[cn[i]].next = IF i = Len(cn) THEN Nil ELSE cn[i + 1]
                 /\ m.heap[cn[i]].prev = IF i = 1 THEN Nil ELSE cn[i - 1]
      <4>1. CASE i = Len(ch) + 1
        <5>1. cn[i] = n /\ i = Len(cn) /\ i # 1 /\ cn[i - 1] = ch[Len(ch)]
          BY <4>1, <1>1, <1>2, <1>7, <2>1
        <5> QED
          BY <5>1, <1>4, <2>2, <2>3, <2>5, <2>9
      <4>2. CASE i = Len(ch)
        <5>1. /\ i \in DOMAIN ch /\ i # Len(cn) /\ cn[i] = l.tail
              /\ cn[i + 1] = n /\ (i # 1 => cn[i - 1] = ch[i - 1])
              /\ ch[i] = l.tail
          BY <4>2, <1>1, <2>1, <2>2
        <5>2. l.heap[ch[i]].prev = IF i = 1 THEN Nil ELSE ch[i - 1]
          BY <5>1 DEF Linked
        <5>3. m.heap[l.tail].next = n /\ m.heap[l.tail].prev = l.heap[l.tail].prev
          BY <2>5, <2>6
        <5> QED
          BY <5>1, <5>2, <5>3
      <4>3. CASE i < Len(ch)
        <5>1. /\ i \in 1 .. Len(ch) /\ i # Len(ch) /\ i # Len(cn)
              /\ cn[i] = ch[i] /\ cn[i + 1] = ch[i + 1]
              /\ i # 1 => cn[i - 1] = ch[i - 1]
          BY <4>3, <1>1
        <5>2. m.heap[ch[i]] = l.heap[ch[i]]
          BY <5>1, <2>5, <2>9
        <5> QED
          BY <5>1, <5>2, <1>1 DEF Linked
      <4> QED
        BY <4>1, <4>2, <4>3, <1>1
    <3> QED
      BY <3>1, <3>2, <3>3, <3>4, <1>1 DEF Linked
  <2>11. \A i \in DOMAIN ch : m.heap[ch[i]].contact = l.heap[ch[i]].contact
    BY <1>1, <2>5, <2>6, <2>8, <2>9
  <2>12. m.heap[n].contact = c
    BY <1>4, <2>5, <2>9
  <2> QED
    BY <2>5, <2>7, <2>10, <2>11, <2>12 DEF ContactAt, m, cn
<1> QED
  BY <1>6, <1>7

\* Taking the front node off a list of two or more leaves a well-linked list.
LEMMA DropLinks ==
  ASSUME NEW l \in ListRecord, NEW ch \in Seq(Addr), Linked(l, ch),
         Len(ch) >= 2
  PROVE  /\ DropFront(l) \in ListRecord
         /\ Linked(DropFront(l), Tail(ch))
         /\ DropFront(l).length = l.length
         /\ \A i \in 2 .. Len(ch) :
               ContactAt(DropFront(l), ch[i]) = ContactAt(l, ch[i])
<1> DEFINE m == DropFront(l)
           t == Tail(ch)
           h1 == SetPrev(l.heap, ch[2], Nil)
           h == Free(h1, ch[1])
<1>1. /\ Len(ch) \in Nat /\ ch # << >>
      /\ DOMAIN ch = 1 .. Len(ch)
      /\ 1 \in DOMAIN ch /\ 2 \in DOMAIN ch /\ Len(ch) \in DOMAIN ch
      /\ \A i \in DOMAIN ch : ch[i] \in Addr
  BY LenProperties, ElementOfSeq, EmptySeq
<1>2. /\ t \in Seq(Addr)
      /\ Len(t) = Len(ch) - 1
      /\ DOMAIN t = 1 .. Len(ch) - 1
      /\ t # << >>
      /\ \A i \in 1 .. Len(ch) - 1 : t[i] = ch[i + 1]
  BY <1>1, HeadTailProperties, LenProperties, EmptySeq
<1>3. /\ \A i, j \in DOMAIN ch : ch[i] = ch[j] => i = j
      /\ \A i \in DOMAIN ch : l.heap[ch[i]] # Nil
      /\ l.head = ch[1] /\ l.tail = ch[Len(ch)]
  BY <1>1 DEF Linked
<1>4. ch[1] # ch[2] /\ l.heap[ch[1]].next = ch[2]
  <2>1. l.heap[ch[1]].next = IF 1 = Len(ch) THEN Nil ELSE ch[1 + 1]
    BY <1>1 DEF Linked
  <2> QED
    BY <2>1, <1>1, <1>3
<1>5. m = [heap |-> h, head |-> ch[2], tail |-> l.tail, length |-> l.length]
  BY <1>3, <1>4 DEF DropFront
<1>6. /\ m.heap = h /\ m.head = ch[2] /\ m.tail = ch[Len(ch)]
      /\ m.length = l.length
  BY <1>3, <1>5
<1>7. /\ h1 \in HeapType
      /\ \A a \in Addr \ {ch[2]} : h1[a] = l.heap[a]
      /\ h1[ch[2]] # Nil /\ h1[ch[2]].contact = l.heap[ch[2]].contact
      /\ h1[ch[2]].prev = Nil /\ h1[ch[2]].next = l.heap[ch[2]].next
  BY <1>1, <1>3, ListFacts, SetPrevFacts
<1> HIDE DEF h1
<1>8. /\ h \in HeapType
      /\ h[ch[1]] = Nil
      /\ \A a \in Addr \ {ch[1]} : h[a] = h1[a]
  BY <1>1, <1>7 DEF Free, HeapType
<1> HIDE DEF h, m, t
<1>9. m \in ListRecord
  BY <1>1, <1>5, <1>8, ListFacts
<1>10. \A i \in DOMAIN ch : i # 1 =>
          /\ h[ch[i]] # Nil
          /\ h[ch[i]].contact = l.heap[ch[i]].contact
          /\ h[ch[i]].next = l.heap[ch[i]].next
          /\ h[ch[i]].prev = IF i = 2 THEN Nil ELSE l.heap[ch[i]].prev
  <2> SUFFICES ASSUME NEW i \in DOMAIN ch, i # 1
               PROVE  /\ h[ch[i]] # Nil
                      /\ h[ch[i]].contact = l.heap[ch[i]].contact
                      /\ h[ch[i]].next = l.heap[ch[i]].next
                      /\ h[ch[i]].prev = IF i = 2 THEN Nil
                                         ELSE l.heap[ch[i]].prev
    OBVIOUS
  <2>1. ch[i] # ch[1] /\ ch[i] \in Addr /\ (ch[i] = ch[2] <=> i = 2)
    BY <1>1, <1>3
  <2> QED
    BY <2>1, <1>3, <1>7, <1>8
<1>11. Linked(m, t)
  <2>1. ASSUME NEW a \in Addr
        PROVE  m.heap[a] # Nil <=> \E i \in DOMAIN t : t[i] = a
    <3>1. l.heap[a] # Nil <=> \E i \in DOMAIN ch : ch[i] = a
      BY DEF Linked
    <3>2. CASE m.heap[a] # Nil
      <4>1. l.heap[a] # Nil /\ a # ch[1]
        BY <3>2, <1>1, <1>3, <1>6, <1>7, <1>8
      <4>2. PICK i \in DOMAIN ch : ch[i] = a
        BY <3>1, <4>1
      <4>3. i - 1 \in DOMAIN t /\ t[i - 1] = a
        BY <4>1, <4>2, <1>1, <1>2
      <4> QED
        BY <3>2, <4>3
    <3>3. ASSUME NEW i \in DOMAIN t, t[i] = a
          PROVE  m.heap[a] # Nil
      <4>1. i + 1 \in DOMAIN ch /\ ch[i + 1] = a /\ i + 1 # 1
        BY <3>3, <1>1, <1>2
      <4> QED
        BY <4>1, <1>6, <1>10
    <3> QED
      BY <3>2, <3>3
  <2>2. \A i, j \in DOMAIN t : t[i] = t[j] => i = j
    BY <1>1, <1>2, <1>3
  <2>3. m.head = t[1] /\ m.tail = t[Len(t)]
    BY <1>1, <1>2, <1>6
  <2>4. ASSUME NEW i \in DOMAIN t
        PROVE  /\ m.heap[t[i]].next = IF i = Len(t) THEN Nil ELSE t[i + 1]
               /\ m.heap[t[i]].prev = IF i = 1 THEN Nil ELSE t[i - 1]
    <3> DEFINE j == i + 1
    <3>1. /\ j \in DOMAIN ch /\ t[i] = ch[j] /\ j # 1
          /\ j = 2 <=> i = 1
          /\ j = Len(ch) <=> i = Len(t)
          /\ i # Len(t) => t[i + 1] = ch[j + 1]
          /\ i # 1 => t[i - 1] = ch[j - 1]
      BY <1>1, <1>2
    <3> HIDE DEF j
    <3>2. /\ l.heap[ch[j]].next = IF j = Len(ch) THEN Nil ELSE ch[j + 1]
          /\ l.heap[ch[j]].prev = IF j = 1 THEN Nil ELSE ch[j - 1]
      BY <3>1 DEF Linked
    <3>3. /\ h[ch[j]].next = l.heap[ch[j]].next
          /\ h[ch[j]].prev = IF j = 2 THEN Nil ELSE l.heap[ch[j]].prev
      BY <3>1, <1>10
    <3> QED
      BY <3>1, <3>2, <3>3, <1>6
  <2> QED
    BY <2>1, <2>2, <2>3, <2>4, <1>2 DEF Linked
<1>12. ASSUME NEW i \in 2 .. Len(ch)
       PROVE  m.heap[ch[i]].contact = l.heap[ch[i]].contact
  BY <1>1, <1>6, <1>10
<1> QED
  BY <1>6, <1>9, <1>11, <1>12 DEF m, t, ContactAt

\* Unlinking a node that has two neighbours leaves a well-linked list.
LEMMA UnlinkLinks ==
  ASSUME NEW l \in ListRecord, NEW ch \in Seq(Addr), Linked(l, ch),
         NEW p \in 2 .. Len(ch) - 1, l.length >= 1
  PROVE  /\ Unlink(l, ch[p]) \in ListRecord
         /\ Linked(Unlink(l, ch[p]), RemoveAt(ch, p))
         /\ Unlink(l, ch[p]).length = l.length - 1
         /\ \A i \in DOMAIN ch : i # p =>
               ContactAt(Unlink(l, ch[p]), ch[i]) = ContactAt(l, ch[i])
<1> DEFINE x == ch[p]
           m == Unlink(l, x)
           r == RemoveAt(ch, p)
           h1 == SetNext(l.heap, ch[p - 1], ch[p + 1])
           h2 == SetPrev(h1, ch[p + 1], ch[p - 1])
           h  == Free(h2, x)
<1>1. /\ Len(ch) \in Nat /\ p \in Nat
      /\ DOMAIN ch = 1 .. Len(ch) /\ p \in 1 .. Len(ch)
      /\ 1 \in DOMAIN ch /\ p - 1 \in DOMAIN ch /\ p \in DOMAIN ch
      /\ p + 1 \in DOMAIN ch /\ Len(ch) \in DOMAIN ch
  BY LenProperties
<1>2. ch # << >> /\ \A i \in DOMAIN ch : ch[i] \in Addr
  BY <1>1, ElementOfSeq, EmptySeq
<1>3. /\ r \in Seq(Addr)
      /\ Len(r) = Len(ch) - 1
      /\ \A i \in 1 .. Len(ch) - 1 : r[i] = IF i < p THEN ch[i] ELSE ch[i + 1]
  BY <1>1, RemoveAtFacts
<1>4. DOMAIN r = 1 .. Len(ch) - 1 /\ r # << >>
  BY <1>1, <1>3, LenProperties, EmptySeq
<1>5. /\ \A i, j \in DOMAIN ch : ch[i] = ch[j] => i = j
      /\ \A i \in DOMAIN ch : l.heap[ch[i]] # Nil
      /\ l.head = ch[1] /\ l.tail = ch[Len(ch)]
  BY <1>1, <1>2 DEF Linked
<1>6. l.heap[x].next = ch[p + 1] /\ l.heap[x].prev = ch[p - 1]
  <2>1. /\ l.heap[x].next = IF p = Len(ch) THEN Nil ELSE ch[p + 1]
        /\ l.heap[x].prev = IF p = 1 THEN Nil ELSE ch[p - 1]
    BY <1>1 DEF Linked
  <2> QED
    BY <2>1, <1>1
<1>7. ch[p - 1] # x /\ ch[p + 1] # x /\ ch[p - 1] # ch[p + 1]
  BY <1>1, <1>5
<1>8. m = [heap |-> h, head |-> l.head, tail |-> l.tail,
           length |-> l.length - 1]
  BY <1>6 DEF Unlink, HeapWithout
<1>9. /\ m.heap = h /\ m.head = ch[1] /\ m.tail = ch[Len(ch)]
      /\ m.length = l.length - 1
  BY <1>5, <1>8
<1>10. /\ h1 \in HeapType
       /\ \A a \in Addr \ {ch[p - 1]} : h1[a] = l.heap[a]
       /\ h1[ch[p - 1]] # Nil
       /\ h1[ch[p - 1]].contact = l.heap[ch[p - 1]].contact
       /\ h1[ch[p - 1]].next = ch[p + 1]
       /\ h1[ch[p - 1]].prev = l.heap[ch[p - 1]].prev
  BY <1>1, <1>2, <1>5, ListFacts, SetNextFacts
<1> HIDE DEF h1
<1>11. /\ h2 \in HeapType
       /\ \A a \in Addr \ {ch[p + 1]} : h2[a] = h1[a]
       /\ h2[ch[p + 1]] # Nil
       /\ h2[ch[p + 1]].contact = l.heap[ch[p + 1]].contact
       /\ h2[ch[p + 1]].prev = ch[p - 1]
       /\ h2[ch[p + 1]].next = l.heap[ch[p + 1]].next
  <2>1. /\ h1[ch[p + 1]] = l.heap[ch[p + 1]]
        /\ ch[p + 1] \in Addr /\ ch[p - 1] \in Addr
    BY <1>1, <1>2, <1>7, <1>10
  <2> QED
    BY <2>1, <1>1, <1>5, <1>10, SetPrevFacts
<1> HIDE DEF h2
<1>12. /\ h \in HeapType
       /\ h[x] = Nil
       /\ \A a \in Addr \ {x} : h[a] = h2[a]
  BY <1>1, <1>2, <1>11 DEF Free, HeapType
<1> HIDE DEF h, m, r
<1>13. m \in ListRecord
  BY <1>1, <1>8, <1>12, ListFacts
<1>14. \A i \in DOMAIN ch : i # p =>
          /\ h[ch[i]] # Nil
          /\ h[ch[i]].contact = l.heap[ch[i]].contact
          /\ h[ch[i]].next = IF i = p - 1 THEN ch[p + 1] ELSE l.heap[ch[i]].next
          /\ h[ch[i]].prev = IF i = p + 1 THEN ch[p - 1] ELSE l.heap[ch[i]].prev
  <2> SUFFICES ASSUME NEW i \in DOMAIN ch, i # p
               PROVE  /\ h[ch[i]] # Nil
                      /\ h[ch[i]].contact = l.heap[ch[i]].contact
                      /\ h[ch[i]].next = IF i = p - 1 THEN ch[p + 1]
                                         ELSE l.heap[ch[i]].next
                      /\ h[ch[i]].prev = IF i = p + 1 THEN ch[p - 1]
                                         ELSE l.heap[ch[i]].prev
    OBVIOUS
  <2>1. /\ ch[i] # x /\ ch[i] \in Addr /\ l.heap[ch[i]] # Nil
        /\ ch[i] = ch[p - 1] <=> i = p - 1
        /\ ch[i] = ch[p + 1] <=> i = p + 1
    BY <1>1, <1>2, <1>5
  <2>2. h[ch[i]] = h2[ch[i]]
    BY <2>1, <1>12
  <2>3. CASE i = p - 1
    <3>1. h2[ch[i]] = h1[ch[i]]
      BY <2>1, <2>3, <1>1, <1>11
    <3> QED
      BY <2>2, <2>3, <3>1, <1>1, <1>10
  <2>4. CASE i = p + 1
    BY <2>2, <2>4, <1>1, <1>11
  <2>5. CASE i # p - 1 /\ i # p + 1
    BY <2>1, <2>2, <2>5, <1>10, <1>11
  <2> QED
    BY <2>3, <2>4, <2>5
<1>15. Linked(m, r)
  <2>1. ASSUME NEW a \in Addr
        PROVE  m.heap[a] # Nil <=> \E i \in DOMAIN r : r[i] = a
    <3>1. l.heap[a] # Nil <=> \E i \in DOMAIN ch : ch[i] = a
      BY DEF Linked
    <3>2. CASE m.heap[a] # Nil
      <4>1. l.heap[a] # Nil /\ a # x
        BY <3>2, <1>1, <1>5, <1>9, <1>10, <1>11, <1>12
      <4>2. PICK i \in DOMAIN ch : ch[i] = a
        BY <3>1, <4>1
      <4>3. CASE i < p
        <5>1. i \in DOMAIN r /\ r[i] = a
          BY <4>2, <4>3, <1>1, <1>3, <1>4
        <5> QED
          BY <3>2, <5>1
      <4>4. CASE i > p
        <5>1. i - 1 \in DOMAIN r /\ r[i - 1] = a
          BY <4>2, <4>4, <1>1, <1>3, <1>4
        <5> QED
          BY <3>2, <5>1
      <4>5. i # p
        BY <4>1, <4>2
      <4> QED
        BY <4>3, <4>4, <4>5, <1>1
    <3>3. ASSUME NEW i \in DOMAIN r, r[i] = a
          PROVE  m.heap[a] # Nil
      <4> DEFINE j == IF i < p THEN i ELSE i + 1
      <4>1. j \in DOMAIN ch /\ j # p /\ ch[j] = a
        BY <3>3, <1>1, <1>3, <1>4
      <4> HIDE DEF j
      <4> QED
        BY <4>1, <1>9, <1>14
    <3> QED
      BY <3>2, <3>3
  <2>2. ASSUME NEW i \in DOMAIN r, NEW k \in DOMAIN r, r[i] = r[k]
        PROVE  i = k
    <3> DEFINE u == IF i < p THEN i ELSE i + 1
               v == IF k < p THEN k ELSE k + 1
    <3>1. u \in DOMAIN ch /\ v \in DOMAIN ch /\ r[i] = ch[u] /\ r[k] = ch[v]
      BY <1>1, <1>3, <1>4
    <3>2. u = v
      <4> HIDE DEF u, v
      <4> QED
        BY <2>2, <3>1, <1>5
    <3> QED
      BY <3>2, <1>1, <1>4
  <2>3. m.head = r[1] /\ m.tail = r[Len(r)]
    BY <1>1, <1>3, <1>4, <1>9
  <2>4. ASSUME NEW i \in DOMAIN r
        PROVE  /\ m.heap[r[i]].next = IF i = Len(r) THEN Nil ELSE r[i + 1]
               /\ m.heap[r[i]].prev = IF i = 1 THEN Nil ELSE r[i - 1]
    <3> DEFINE j == IF i < p THEN i ELSE i + 1
    <3>1. /\ j \in DOMAIN ch /\ j # p /\ r[i] = ch[j]
          /\ i = Len(r) <=> j = Len(ch)
          /\ i = 1 <=> j = 1
      BY <1>1, <1>3, <1>4
    <3>2. i # Len(r) => r[i + 1] = IF j = p - 1 THEN ch[p + 1] ELSE ch[j + 1]
      <4>1. i + 1 \in 1 .. Len(ch) - 1 =>
               r[i + 1] = IF i + 1 < p THEN ch[i + 1] ELSE ch[i + 2]
        BY <1>1, <1>3, <1>4
      <4>2. i # Len(r) => i + 1 \in 1 .. Len(ch) - 1
        BY <1>1, <1>3, <1>4
      <4>3. CASE i + 1 < p
        BY <4>1, <4>2, <4>3, <1>1, <1>4
      <4>4. CASE i + 1 = p
        BY <4>1, <4>2, <4>4, <1>1, <1>4
      <4>5. CASE i + 1 > p
        BY <4>1, <4>2, <4>5, <1>1, <1>4
      <4> QED
        BY <4>3, <4>4, <4>5, <1>1, <1>4
    <3>3. i # 1 => r[i - 1] = IF j = p + 1 THEN ch[p - 1] ELSE ch[j - 1]
      BY <1>1, <1>3, <1>4
    <3> HIDE DEF j
    <3>4. /\ l.heap[ch[j]].next = IF j = Len(ch) THEN Nil ELSE ch[j + 1]
          /\ l.heap[ch[j]].prev = IF j = 1 THEN Nil ELSE ch[j - 1]
      BY <3>1 DEF Linked
    <3>5. /\ h[ch[j]].next = IF j = p - 1 THEN ch[p + 1] ELSE l.heap[ch[j]].next
          /\ h[ch[j]].prev = IF j = p + 1 THEN ch[p - 1] ELSE l.heap[ch[j]].prev
      BY <3>1, <1>14
    <3>6. p - 1 # Len(ch) /\ p + 1 # 1
      BY <1>1
    <3> QED
      BY <3>1, <3>2, <3>3, <3>4, <3>5, <3>6, <1>9
  <2> QED
    BY <2>1, <2>2, <2>3, <2>4, <1>4 DEF Linked
<1>16. ASSUME NEW i \in DOMAIN ch, i # p
       PROVE  m.heap[ch[i]].contact = l.heap[ch[i]].contact
  BY <1>9, <1>14, <1>16
<1> QED
  BY <1>9, <1>13, <1>15, <1>16 DEF m, r, x, ContactAt

----------------------------------------------------------------------------
\* The contacts of a well-linked list.
LEMMA ContentsFacts ==
  ASSUME NEW l \in ListRecord, NEW ch \in Seq(Addr), Linked(l, ch)
  PROVE  /\ ContentsOf(l, ch) \in Seq(Contact)
         /\ Len(ContentsOf(l, ch)) = Len(ch)
         /\ DOMAIN ContentsOf(l, ch) = 1 .. Len(ch)
         /\ \A i \in 1 .. Len(ch) : ContentsOf(l, ch)[i] = ContactAt(l, ch[i])
<1>1. Len(ch) \in Nat /\ DOMAIN ch = 1 .. Len(ch)
  BY LenProperties
<1>2. ASSUME NEW i \in DOMAIN ch
      PROVE  ContactAt(l, ch[i]) \in Contact
  <2>1. ch[i] \in Addr /\ l.heap[ch[i]] # Nil
    BY ElementOfSeq, <1>1 DEF Linked
  <2>2. l.heap[ch[i]] \in Node
    BY <2>1, ListFacts DEF HeapType
  <2> QED
    BY <2>2 DEF Node, ContactAt
<1>3. ContentsOf(l, ch) \in [1 .. Len(ch) -> Contact]
  BY <1>1, <1>2 DEF ContentsOf
<1>4. /\ ContentsOf(l, ch) \in Seq(Contact)
      /\ Len(ContentsOf(l, ch)) = Len(ch)
  <2>1. ContentsOf(l, ch) \in Seq(Contact)
    BY <1>1, <1>3, SeqDef
  <2> QED
    BY <1>1, <1>3, <2>1, LenProperties
<1> QED
  BY <1>1, <1>3, <1>4 DEF ContentsOf

\* Seen through the contacts, Push appends one.
LEMMA PushContents ==
  ASSUME NEW l \in ListRecord, NEW ch \in Seq(Addr), Linked(l, ch),
         NEW n \in Addr, l.heap[n] = Nil, NEW c \in Contact
  PROVE  ContentsOf(PushNode(l, n, c), Append(ch, n))
            = Append(ContentsOf(l, ch), c)
<1> DEFINE m == PushNode(l, n, c)
           s == ContentsOf(l, ch)
           t == ContentsOf(m, Append(ch, n))
<1>1. /\ m \in ListRecord /\ Linked(m, Append(ch, n)) /\ ContactAt(m, n) = c
      /\ \A i \in 1 .. Len(ch) : ContactAt(m, ch[i]) = ContactAt(l, ch[i])
  BY PushLinks, LenProperties
<1>2. /\ Append(ch, n) \in Seq(Addr) /\ Len(Append(ch, n)) = Len(ch) + 1
      /\ Append(ch, n)[Len(ch) + 1] = n
      /\ \A i \in 1 .. Len(ch) : Append(ch, n)[i] = ch[i]
      /\ Len(ch) \in Nat
  BY AppendProperties, LenProperties
<1>3. /\ s \in Seq(Contact) /\ Len(s) = Len(ch)
      /\ \A i \in 1 .. Len(ch) : s[i] = ContactAt(l, ch[i])
  BY ContentsFacts
<1>4. /\ t \in Seq(Contact) /\ Len(t) = Len(ch) + 1
      /\ \A i \in 1 .. Len(ch) + 1 : t[i] = ContactAt(m, Append(ch, n)[i])
  BY <1>1, <1>2, ContentsFacts
<1>5. /\ Append(s, c) \in Seq(Contact) /\ Len(Append(s, c)) = Len(ch) + 1
      /\ Append(s, c)[Len(ch) + 1] = c
      /\ \A i \in 1 .. Len(ch) : Append(s, c)[i] = s[i]
  BY <1>3, AppendProperties
<1> HIDE DEF m, s, t
<1>6. \A i \in 1 .. Len(ch) + 1 : t[i] = Append(s, c)[i]
  BY <1>1, <1>2, <1>3, <1>4, <1>5
<1>7. t = Append(s, c)
  BY <1>4, <1>5, <1>6, SeqEqual
<1> QED
  BY <1>7 DEF m, s, t

\* Seen through the contacts, deleting the front leaves the tail.
LEMMA DropContents ==
  ASSUME NEW l \in ListRecord, NEW ch \in Seq(Addr), Linked(l, ch),
         Len(ch) >= 2
  PROVE  ContentsOf(DropFront(l), Tail(ch)) = Tail(ContentsOf(l, ch))
<1> DEFINE m == DropFront(l)
           s == ContentsOf(l, ch)
           t == ContentsOf(m, Tail(ch))
<1>1. /\ m \in ListRecord /\ Linked(m, Tail(ch))
      /\ \A i \in 2 .. Len(ch) : ContactAt(m, ch[i]) = ContactAt(l, ch[i])
  BY DropLinks
<1>2. Len(ch) \in Nat /\ ch # << >>
  BY LenProperties, EmptySeq
<1>3. /\ Tail(ch) \in Seq(Addr) /\ Len(Tail(ch)) = Len(ch) - 1
      /\ \A i \in 1 .. Len(ch) - 1 : Tail(ch)[i] = ch[i + 1]
  BY <1>2, HeadTailProperties
<1>4. /\ s \in Seq(Contact) /\ Len(s) = Len(ch)
      /\ \A i \in 1 .. Len(ch) : s[i] = ContactAt(l, ch[i])
  BY ContentsFacts
<1>5. /\ t \in Seq(Contact) /\ Len(t) = Len(ch) - 1
      /\ \A i \in 1 .. Len(ch) - 1 : t[i] = ContactAt(m, Tail(ch)[i])
  BY <1>1, <1>3, ContentsFacts
<1> HIDE DEF m, s, t
<1>6. s # << >>
  BY <1>2, <1>4, EmptySeq
<1>7. /\ Tail(s) \in Seq(Contact) /\ Len(Tail(s)) = Len(ch) - 1
      /\ \A i \in 1 .. Len(ch) - 1 : Tail(s)[i] = s[i + 1]
  BY <1>4, <1>6, HeadTailProperties
<1>8. ASSUME NEW i \in 1 .. Len(ch) - 1
      PROVE  t[i] = Tail(s)[i]
  <2>1. i + 1 \in 2 .. Len(ch) /\ i + 1 \in 1 .. Len(ch)
    BY <1>2
  <2> QED
    BY <2>1, <1>1, <1>3, <1>4, <1>5, <1>7
<1>9. t = Tail(s)
  BY <1>5, <1>7, <1>8, SeqEqual
<1> QED
  BY <1>9 DEF m, s, t

\* Seen through the contacts, unlinking removes one position.
LEMMA UnlinkContents ==
  ASSUME NEW l \in ListRecord, NEW ch \in Seq(Addr), Linked(l, ch),
         NEW p \in 2 .. Len(ch) - 1, l.length >= 1
  PROVE  ContentsOf(Unlink(l, ch[p]), RemoveAt(ch, p))
            = RemoveAt(ContentsOf(l, ch), p)
<1> DEFINE m == Unlink(l, ch[p])
           s == ContentsOf(l, ch)
           r == RemoveAt(ch, p)
           t == ContentsOf(m, r)
<1>1. /\ m \in ListRecord /\ Linked(m, r)
      /\ \A i \in 1 .. Len(ch) : i # p => ContactAt(m, ch[i]) = ContactAt(l, ch[i])
  BY UnlinkLinks, LenProperties
<1>2. Len(ch) \in Nat /\ p \in 1 .. Len(ch)
  BY LenProperties
<1>3. /\ r \in Seq(Addr) /\ Len(r) = Len(ch) - 1
      /\ \A i \in 1 .. Len(ch) - 1 : r[i] = IF i < p THEN ch[i] ELSE ch[i + 1]
  BY <1>2, RemoveAtFacts
<1>4. /\ s \in Seq(Contact) /\ Len(s) = Len(ch)
      /\ \A i \in 1 .. Len(ch) : s[i] = ContactAt(l, ch[i])
  BY ContentsFacts
<1>5. /\ t \in Seq(Contact) /\ Len(t) = Len(ch) - 1
      /\ \A i \in 1 .. Len(ch) - 1 : t[i] = ContactAt(m, r[i])
  BY <1>1, <1>3, ContentsFacts
<1> HIDE DEF m, s, t, r
<1>6. /\ RemoveAt(s, p) \in Seq(Contact) /\ Len(RemoveAt(s, p)) = Len(ch) - 1
      /\ \A i \in 1 .. Len(ch) - 1 :
            RemoveAt(s, p)[i] = IF i < p THEN s[i] ELSE s[i + 1]
  BY <1>2, <1>4, RemoveAtFacts
<1>7. ASSUME NEW i \in 1 .. Len(ch) - 1
      PROVE  t[i] = RemoveAt(s, p)[i]
  <2>1. CASE i < p
    <3>1. i \in 1 .. Len(ch) /\ i # p
      BY <1>2, <2>1
    <3> QED
      BY <2>1, <3>1, <1>1, <1>3, <1>4, <1>5, <1>6
  <2>2. CASE ~ (i < p)
    <3>1. i + 1 \in 1 .. Len(ch) /\ i + 1 # p
      BY <1>2, <2>2
    <3> QED
      BY <2>2, <3>1, <1>1, <1>3, <1>4, <1>5, <1>6
  <2> QED
    BY <2>1, <2>2
<1>8. t = RemoveAt(s, p)
  BY <1>5, <1>6, <1>7, SeqEqual
<1> QED
  BY <1>8 DEF m, s, t, r

----------------------------------------------------------------------------
\* The invariant that every action preserves.
IInv == /\ TypeOK
        /\ LinksAgree
        /\ NoDuplicates
        /\ RoomIsJudgedRightly
        /\ LRUBehindHead

\* What the steps below use of the invariant.
LEMMA StateFacts ==
  ASSUME IInv
  PROVE  /\ list \in ListRecord /\ chain \in Seq(Addr) /\ Linked(list, chain)
         /\ Len(chain) \in Nat /\ DOMAIN chain = 1 .. Len(chain)
         /\ Contents \in Seq(Contact) /\ Len(Contents) = Len(chain)
         /\ DOMAIN Contents = 1 .. Len(chain)
         /\ \A i \in 1 .. Len(chain) : Contents[i] = ContactAt(list, chain[i])
         /\ Distinct(Contents)
         /\ list.length \in Nat /\ K \in Nat \ {0}
         /\ Len(chain) <= K + 1
         /\ Len(chain) <= K => list.length = Len(chain)
         /\ Len(chain) = K + 1 => list.length > K
<1>1. list \in ListRecord /\ chain \in Seq(Addr) /\ Linked(list, chain)
  BY DEF IInv, TypeOK, LinksAgree
<1> QED
  BY <1>1, ListFacts, ContentsFacts, LenProperties, KAssumption
     DEF IInv, NoDuplicates, RoomIsJudgedRightly, Contents

\* The walk from First by Next meets every node of the list.
LEMMA OnListFacts ==
  ASSUME IInv
  PROVE  OnList(list) = Allocated(list)
<1>1. /\ Len(chain) \in Nat /\ \A i \in 1 .. Len(chain) : chain[i] \in Addr
      /\ DOMAIN chain = 1 .. Len(chain)
      /\ Linked(list, chain)
  BY StateFacts, ElementOfSeq
<1>2. SUFFICES ASSUME NEW S \in SUBSET Addr, list.head \in S \cup {Nil},
                      \A x \in S \cap Allocated(list) :
                          list.heap[x].next \in S \cup {Nil},
                      NEW a \in Allocated(list)
               PROVE  a \in S
  BY DEF OnList
<1>3. PICK p \in 1 .. Len(chain) : chain[p] = a
  BY <1>1 DEF Allocated, Linked
<1> DEFINE T == {i \in Nat : i + 1 \in 1 .. Len(chain) => chain[i + 1] \in S}
<1>4. 0 \in T
  <2>1. 1 \in 1 .. Len(chain) /\ list.head = chain[1] /\ chain[1] \in Addr
    BY <1>1, <1>3 DEF Linked
  <2> QED
    BY <1>2, <2>1, NilAssumption
<1>5. ASSUME NEW i \in 1 .. p, i - 1 \in T
      PROVE  i \in T
  <2> SUFFICES ASSUME i + 1 \in 1 .. Len(chain)
               PROVE  chain[i + 1] \in S
    BY <1>3
  <2>1. i \in 1 .. Len(chain) /\ i # Len(chain) /\ (i - 1) + 1 = i
    <3>1. Len(chain) \in Nat /\ p \in 1 .. Len(chain) /\ i \in 1 .. p
      BY <1>1, <1>3, <1>5
    <3> HIDE DEF T
    <3> QED
      BY <3>1
  <2>2. chain[i] \in S
    BY <1>5, <2>1
  <2>3. chain[i] \in Allocated(list)
    BY <1>1, <2>1 DEF Allocated, Linked
  <2>4. list.heap[chain[i]].next = chain[i + 1]
    BY <1>1, <2>1 DEF Linked
  <2>5. chain[i + 1] \in S \cup {Nil}
    BY <1>2, <2>2, <2>3, <2>4
  <2> QED
    BY <1>1, <2>5, NilAssumption
<1>6. p - 1 \in T
  <2>1. p \in Nat /\ p - 1 \in 0 .. p
    BY <1>1, <1>3
  <2> HIDE DEF T
  <2> QED
    BY <1>4, <1>5, <2>1, StepByStep
<1>7. (p - 1) + 1 = p
  BY <1>1, <1>3
<1> QED
  BY <1>3, <1>6, <1>7

\* Find follows the list and answers the node that FindPos points at.
LEMMA FindFacts ==
  ASSUME IInv, NEW id
  PROVE  LET p == FindPos(Contents, id)
         IN  /\ p \in 0 .. Len(chain)
             /\ p = 0 => Find(list, id) = Nil
             /\ p # 0 => Find(list, id) = chain[p] /\ chain[p] \in Addr
             /\ p = 0 <=> Find(list, id) = Nil
<1> DEFINE p == FindPos(Contents, id)
<1>1. /\ p \in 0 .. Len(chain)
      /\ \A i \in 1 .. Len(chain) :
            ContactAt(list, chain[i]).NodeID = id <=> p = i
  BY StateFacts, FindPosFacts
<1>2. \A a \in Addr : a \in Allocated(list)
                         <=> \E i \in 1 .. Len(chain) : chain[i] = a
  BY StateFacts DEF Allocated, Linked
<1>3. \A i \in 1 .. Len(chain) : chain[i] \in Addr
  BY StateFacts, ElementOfSeq
<1>4. Len(chain) \in Nat /\ OnList(list) = Allocated(list)
  BY StateFacts, OnListFacts
<1> HIDE DEF p
<1>5. CASE p = 0
  <2>1. \A a \in Allocated(list) : ContactAt(list, a).NodeID # id
    BY <1>1, <1>2, <1>5 DEF Allocated
  <2> QED
    BY <1>1, <1>4, <1>5, <2>1 DEF Find, p
<1>6. CASE p # 0
  <2>1. p \in 1 .. Len(chain)
    BY <1>1, <1>4, <1>6
  <2>2. chain[p] \in Allocated(list) /\ ContactAt(list, chain[p]).NodeID = id
    BY <1>1, <1>2, <1>3, <2>1
  <2>3. \A a \in Allocated(list) : ContactAt(list, a).NodeID = id => a = chain[p]
    BY <1>1, <1>2, <1>6 DEF Allocated
  <2>4. Find(list, id) = chain[p]
    BY <1>4, <2>2, <2>3 DEF Find
  <2> QED
    BY <1>1, <1>3, <1>6, <2>1, <2>4, NilAssumption DEF p
<1> QED
  BY <1>5, <1>6

\* What an action does to the list: the links stay right, the test for room
\* stays right, and the contacts change as UpDate says.
StepOf(c) ==
  /\ list' \in ListRecord /\ chain' \in Seq(Addr) /\ Linked(list', chain')
  /\ RoomIsJudgedRightly'
  /\ \E headAnswers \in BOOLEAN : Contents' = UpDate(Contents, c, headAnswers)

LEMMA InsertStep ==
  ASSUME IInv, NEW c \in Contact, NEW n \in Addr \ Allocated(list),
         Insert(c, n)
  PROVE  StepOf(c)
<1>1. list.heap[n] = Nil
  BY DEF Allocated
<1>2. list' = PushNode(list, n, c) /\ chain' = Append(chain, n)
  BY DEF Insert
<1>3. /\ list' \in ListRecord /\ Linked(list', chain')
      /\ list'.length = list.length + 1
  BY <1>1, <1>2, StateFacts, PushLinks
<1>4. chain' \in Seq(Addr) /\ Len(chain') = Len(chain) + 1
  BY <1>2, StateFacts, AppendProperties
<1>5. list.length <= K /\ Len(chain) <= K /\ list.length = Len(chain)
  BY StateFacts DEF Insert
<1>6. RoomIsJudgedRightly'
  BY <1>3, <1>4, <1>5, StateFacts DEF RoomIsJudgedRightly
<1>7. Contents' = Append(Contents, c)
  BY <1>1, <1>2, StateFacts, PushContents DEF Contents
<1>8. FindPos(Contents, c.NodeID) = 0 /\ HasRoom(Contents)
  BY <1>5, StateFacts, FindFacts DEF Insert, HasRoom
<1>9. Contents' = UpDate(Contents, c, TRUE)
  BY <1>7, <1>8 DEF UpDate, Push
<1> QED
  BY <1>3, <1>4, <1>6, <1>9 DEF StepOf

\* No room means that the list has all its K + 1 nodes.
LEMMA FullFacts ==
  ASSUME IInv, ~ (list.length <= K)
  PROVE  Len(chain) = K + 1 /\ ~ HasRoom(Contents)
<1>1. Len(chain) = K + 1
  BY StateFacts
<1> QED
  BY <1>1, StateFacts DEF HasRoom

LEMMA KeepHeadStep ==
  ASSUME IInv, NEW c \in Contact, KeepHead(c)
  PROVE  StepOf(c)
<1>1. list' = list /\ chain' = chain /\ Contents' = Contents
  BY DEF KeepHead, Contents, ContentsOf, ContactAt
<1>2. FindPos(Contents, c.NodeID) = 0 /\ ~ HasRoom(Contents)
  BY StateFacts, FindFacts, FullFacts DEF KeepHead
<1>3. Contents' = UpDate(Contents, c, TRUE)
  BY <1>1, <1>2 DEF UpDate
<1>4. RoomIsJudgedRightly'
  BY <1>1 DEF RoomIsJudgedRightly, IInv
<1> QED
  BY <1>1, <1>3, <1>4, StateFacts DEF StepOf

LEMMA ReplaceHeadStep ==
  ASSUME IInv, NEW c \in Contact, NEW n \in Addr \ Allocated(list),
         ReplaceHead(c, n)
  PROVE  StepOf(c)
<1> DEFINE d == DropFront(list)
           rest == Tail(chain)
<1>1. /\ Find(list, c.NodeID) = Nil /\ ~ (list.length <= K)
      /\ list' = PushNode(d, n, c) /\ chain' = Append(rest, n)
  BY DEF ReplaceHead
<1>2. Len(chain) = K + 1 /\ ~ HasRoom(Contents) /\ Len(chain) >= 2
  BY <1>1, FullFacts, StateFacts
<1>3. /\ d \in ListRecord /\ Linked(d, rest) /\ d.length = list.length
  BY <1>2, StateFacts, DropLinks
<1>4. rest \in Seq(Addr) /\ Len(rest) = Len(chain) - 1
  BY <1>2, StateFacts, EmptySeq, HeadTailProperties
<1>5. d.heap[n] = Nil
  <2>1. list.heap[n] = Nil /\ n \in Addr
    BY DEF Allocated
  <2>2. ~ \E i \in 1 .. Len(chain) : chain[i] = n
    BY <2>1, StateFacts DEF Linked
  <2>3. \A i \in 1 .. Len(chain) - 1 : rest[i] = chain[i + 1]
                                     /\ i + 1 \in 1 .. Len(chain)
    BY <1>2, StateFacts, EmptySeq, HeadTailProperties
  <2>4. DOMAIN rest = 1 .. Len(chain) - 1
    BY <1>4, LenProperties
  <2>5. ~ \E i \in DOMAIN rest : rest[i] = n
    BY <2>2, <2>3, <2>4
  <2> QED
    BY <1>3, <2>1, <2>5 DEF Linked
<1> HIDE DEF d, rest
<1>6. /\ list' \in ListRecord /\ Linked(list', chain')
      /\ list'.length = list.length + 1
  BY <1>1, <1>3, <1>4, <1>5, PushLinks
<1>7. chain' \in Seq(Addr) /\ Len(chain') = Len(chain)
  BY <1>1, <1>4, StateFacts, AppendProperties
<1>8. RoomIsJudgedRightly'
  BY <1>1, <1>2, <1>6, <1>7, StateFacts DEF RoomIsJudgedRightly
<1>9. Contents' = Append(Tail(Contents), c)
  <2>1. Contents' = Append(ContentsOf(d, rest), c)
    BY <1>1, <1>3, <1>4, <1>5, PushContents DEF Contents
  <2>2. ContentsOf(d, rest) = Tail(Contents)
    BY <1>2, StateFacts, DropContents DEF Contents, d, rest
  <2> QED
    BY <2>1, <2>2
<1>10. FindPos(Contents, c.NodeID) = 0
  BY <1>1, FindFacts
<1>11. Contents' = UpDate(Contents, c, FALSE)
  BY <1>2, <1>9, <1>10 DEF UpDate, DeleteFrontInsert
<1> QED
  BY <1>6, <1>7, <1>8, <1>11 DEF StepOf

\* A node is at an end of the list exactly if its position is.
LEMMA EndFacts ==
  ASSUME IInv, NEW p \in 1 .. Len(chain)
  PROVE  AtEitherEnd(list, chain[p]) <=> p = 1 \/ p = Len(chain)
<1>1. /\ list.heap[chain[p]].next = IF p = Len(chain) THEN Nil ELSE chain[p + 1]
      /\ list.heap[chain[p]].prev = IF p = 1 THEN Nil ELSE chain[p - 1]
  BY StateFacts DEF Linked
<1>2. /\ p # Len(chain) => chain[p + 1] \in Addr
      /\ p # 1 => chain[p - 1] \in Addr
  <2>1. /\ p # Len(chain) => p + 1 \in 1 .. Len(chain)
        /\ p # 1 => p - 1 \in 1 .. Len(chain)
    <3>1. Len(chain) \in Nat
      BY StateFacts
    <3> QED
      BY <3>1
  <2> QED
    BY <2>1, StateFacts, ElementOfSeq
<1> QED
  BY <1>1, <1>2, NilAssumption DEF AtEitherEnd

LEMMA LeaveAtEndStep ==
  ASSUME IInv, NEW c \in Contact, LeaveAtEnd(c)
  PROVE  StepOf(c)
<1> DEFINE p == FindPos(Contents, c.NodeID)
<1>1. list' = list /\ chain' = chain /\ Contents' = Contents
  BY DEF LeaveAtEnd, Contents, ContentsOf, ContactAt
<1>2. Find(list, c.NodeID) # Nil
  BY DEF LeaveAtEnd
<1>3. p \in 0 .. Len(chain) /\ p # 0 /\ Find(list, c.NodeID) = chain[p]
  BY <1>2, FindFacts
<1>4. AtEitherEnd(list, chain[p])
  BY <1>3 DEF LeaveAtEnd
<1> HIDE DEF p
<1>5. p = 1 \/ p = Len(Contents)
  <2>1. Len(chain) \in Nat /\ Len(Contents) = Len(chain)
    BY StateFacts
  <2>2. p \in 1 .. Len(chain)
    BY <1>3, <2>1
  <2> QED
    BY <1>4, <2>1, <2>2, EndFacts
<1>6. Contents' = UpDate(Contents, c, TRUE)
  BY <1>1, <1>3, <1>5 DEF UpDate, MoveToTail, p
<1>7. RoomIsJudgedRightly'
  BY <1>1 DEF RoomIsJudgedRightly, IInv
<1> QED
  BY <1>1, <1>6, <1>7, StateFacts DEF StepOf

LEMMA RefreshStep ==
  ASSUME IInv, NEW c \in Contact, NEW n \in Addr \ Allocated(list),
         Refresh(c, n)
  PROVE  StepOf(c)
<1> DEFINE p == FindPos(Contents, c.NodeID)
           x == Find(list, c.NodeID)
           m == Unlink(list, chain[p])
           r == RemoveAt(chain, p)
           d == ContactAt(list, chain[p])
<1>1. x # Nil /\ ~ AtEitherEnd(list, x)
  BY DEF Refresh
<1>2. p \in 0 .. Len(chain) /\ p # 0 /\ x = chain[p]
  BY <1>1, FindFacts
<1>3. PICK i \in DOMAIN chain : chain[i] = x /\ chain' = Append(RemoveAt(chain, i), n)
  BY DEF Refresh
<1>4. list' = PushNode(Unlink(list, x), n, ContactAt(list, x))
  BY DEF Refresh
<1> HIDE DEF p, x
<1>5. p \in 1 .. Len(chain)
  BY <1>2, StateFacts
<1>6. p # 1 /\ p # Len(chain)
  BY <1>1, <1>2, <1>5, EndFacts
<1>7. p \in 2 .. Len(chain) - 1
  <2>1. Len(chain) \in Nat
    BY StateFacts
  <2> QED
    BY <1>5, <1>6, <2>1
<1>8. i = p
  BY <1>2, <1>3, <1>5, StateFacts DEF Linked
<1>9. list' = PushNode(m, n, d) /\ chain' = Append(r, n)
  BY <1>2, <1>3, <1>4, <1>8
<1>10. list.length >= 1
  BY <1>7, StateFacts
<1>11. m \in ListRecord /\ Linked(m, r) /\ m.length = list.length - 1
  BY <1>7, <1>10, StateFacts, UnlinkLinks
<1>12. /\ r \in Seq(Addr) /\ Len(r) = Len(chain) - 1
       /\ \A j \in 1 .. Len(chain) - 1 :
             r[j] = IF j < p THEN chain[j] ELSE chain[j + 1]
  BY <1>5, StateFacts, RemoveAtFacts
<1>13. m.heap[n] = Nil
  <2>1. list.heap[n] = Nil /\ n \in Addr
    BY DEF Allocated
  <2>2. ~ \E j \in 1 .. Len(chain) : chain[j] = n
    BY <2>1, StateFacts DEF Linked
  <2>3. \A j \in 1 .. Len(chain) - 1 : \E k \in 1 .. Len(chain) : r[j] = chain[k]
    <3> SUFFICES ASSUME NEW j \in 1 .. Len(chain) - 1
                 PROVE  \E k \in 1 .. Len(chain) : r[j] = chain[k]
      OBVIOUS
    <3>1. j \in 1 .. Len(chain) /\ j + 1 \in 1 .. Len(chain)
      BY StateFacts
    <3> QED
      BY <3>1, <1>12
  <2>4. DOMAIN r = 1 .. Len(chain) - 1
    BY <1>12, LenProperties
  <2>5. ~ \E j \in DOMAIN r : r[j] = n
    BY <2>2, <2>3, <2>4
  <2> QED
    BY <1>11, <2>1, <2>5 DEF Linked
<1>14. d = Contents[p] /\ d \in Contact
  BY <1>5, StateFacts, ElementOfSeq
<1>15. ContentsOf(m, r) = RemoveAt(Contents, p)
  BY <1>7, <1>10, StateFacts, UnlinkContents DEF Contents
<1> HIDE DEF m, r, d
<1>16. /\ list' \in ListRecord /\ Linked(list', chain')
       /\ list'.length = list.length
  <2>1. /\ list' \in ListRecord /\ Linked(list', chain')
        /\ list'.length = m.length + 1
    BY <1>9, <1>11, <1>12, <1>13, <1>14, PushLinks
  <2> QED
    BY <2>1, <1>11, StateFacts
<1>17. chain' \in Seq(Addr) /\ Len(chain') = Len(chain)
  BY <1>9, <1>12, StateFacts, AppendProperties
<1>18. RoomIsJudgedRightly'
  BY <1>16, <1>17, StateFacts DEF RoomIsJudgedRightly
<1>19. Contents' = Append(RemoveAt(Contents, p), Contents[p])
  BY <1>9, <1>11, <1>12, <1>13, <1>14, <1>15, PushContents DEF Contents
<1>20. Contents' = UpDate(Contents, c, TRUE)
  BY <1>2, <1>6, <1>19, StateFacts DEF UpDate, MoveToTail, p
<1> QED
  BY <1>16, <1>17, <1>18, <1>20 DEF StepOf

LEMMA ActionStep ==
  ASSUME IInv, Next
  PROVE  \E c \in Contact : StepOf(c) /\ Contacted(c)
<1>1. PICK c \in Contact :
         \/ KeepHead(c)
         \/ LeaveAtEnd(c)
         \/ \E n \in Addr \ Allocated(list) :
               Insert(c, n) \/ ReplaceHead(c, n) \/ Refresh(c, n)
  BY DEF Next
<1>2. CASE KeepHead(c)
  BY <1>2, KeepHeadStep DEF KeepHead
<1>3. CASE LeaveAtEnd(c)
  BY <1>3, LeaveAtEndStep DEF LeaveAtEnd
<1>4. ASSUME NEW n \in Addr \ Allocated(list), Insert(c, n)
      PROVE  StepOf(c) /\ Contacted(c)
  BY <1>4, InsertStep DEF Insert
<1>5. ASSUME NEW n \in Addr \ Allocated(list), ReplaceHead(c, n)
      PROVE  StepOf(c) /\ Contacted(c)
  BY <1>5, ReplaceHeadStep DEF ReplaceHead
<1>6. ASSUME NEW n \in Addr \ Allocated(list), Refresh(c, n)
      PROVE  StepOf(c) /\ Contacted(c)
  BY <1>6, RefreshStep DEF Refresh
<1> QED
  BY <1>1, <1>2, <1>3, <1>4, <1>5, <1>6

----------------------------------------------------------------------------
\* The order of last contact behind the head survives UpDate.
LEMMA OrderStep ==
  ASSUME NEW b \in Seq(Contact), Distinct(b), Len(b) <= K + 1,
         NEW c \in Contact, NEW headAnswers \in BOOLEAN,
         \A i, j \in DOMAIN b :
            1 < i /\ i < j => <<b[i].NodeID, b[j].NodeID>> \in older
  PROVE  LET u == UpDate(b, c, headAnswers)
         IN  \A i, j \in DOMAIN u : 1 < i /\ i < j =>
                <<u[i].NodeID, u[j].NodeID>> \in Latest(c.NodeID)
<1> DEFINE u == UpDate(b, c, headAnswers)
           p == FindPos(b, c.NodeID)
<1>1. Len(b) \in Nat /\ DOMAIN b = 1 .. Len(b) /\ K \in Nat \ {0}
  BY LenProperties, KAssumption
<1>2. \A i \in 1 .. Len(b) : b[i] \in Contact /\ b[i].NodeID \in NodeID
  <2>1. \A i \in 1 .. Len(b) : b[i] \in Contact
    BY ElementOfSeq, <1>1
  <2>2. \A d \in Contact : d.NodeID \in NodeID
    BY DEF Contact
  <2> QED
    BY <2>1, <2>2
<1>3. /\ p \in 0 .. Len(b)
      /\ p # 0 => b[p].NodeID = c.NodeID
      /\ \A i \in 1 .. Len(b) : b[i].NodeID = c.NodeID <=> p = i
  BY FindPosFacts
\* A pair of the old bucket that does not involve c stays in order, and
\* everything is older than c.
<1>4. ASSUME NEW i \in 1 .. Len(b), NEW j \in 1 .. Len(b),
             1 < i, i < j, i # p
      PROVE  <<b[i].NodeID, b[j].NodeID>> \in Latest(c.NodeID)
  <2>1. b[i].NodeID # c.NodeID /\ b[i].NodeID \in NodeID
    BY <1>2, <1>3, <1>4
  <2>2. <<b[i].NodeID, b[j].NodeID>> \in older
    BY <1>1, <1>4
  <2>3. CASE b[j].NodeID = c.NodeID
    BY <2>1, <2>3 DEF Latest
  <2>4. CASE b[j].NodeID # c.NodeID
    BY <2>1, <2>2, <2>4 DEF Latest
  <2> QED
    BY <2>3, <2>4
<1>5. ASSUME NEW i \in 1 .. Len(b), i # p
      PROVE  <<b[i].NodeID, c.NodeID>> \in Latest(c.NodeID)
  <2>1. b[i].NodeID # c.NodeID /\ b[i].NodeID \in NodeID
    BY <1>2, <1>3, <1>5
  <2>2. c.NodeID \in NodeID
    BY DEF Contact
  <2> QED
    BY <2>1, <2>2 DEF Latest
<1>6. CASE u = b /\ (p = 0 \/ p = 1 \/ p = Len(b))
  <2> HIDE DEF u, p
  <2>1. ASSUME NEW i \in DOMAIN b, NEW j \in DOMAIN b, 1 < i, i < j
        PROVE  <<b[i].NodeID, b[j].NodeID>> \in Latest(c.NodeID)
    <3>1. i # p /\ i \in 1 .. Len(b) /\ j \in 1 .. Len(b)
      BY <1>1, <1>6, <2>1
    <3> QED
      BY <1>4, <2>1, <3>1
  <2>2. \A i, j \in DOMAIN u : 1 < i /\ i < j =>
           <<u[i].NodeID, u[j].NodeID>> \in Latest(c.NodeID)
    BY <1>6, <2>1
  <2> QED
    BY <2>2 DEF u
<1>7. CASE p # 0 /\ p # 1 /\ p # Len(b)
  <2> DEFINE r == RemoveAt(b, p)
  <2>1. p \in 1 .. Len(b)
    BY <1>3, <1>7
  <2>2. /\ r \in Seq(Contact) /\ Len(r) = Len(b) - 1
        /\ \A j \in 1 .. Len(b) - 1 : r[j] = IF j < p THEN b[j] ELSE b[j + 1]
    BY <2>1, RemoveAtFacts
  <2>3. u = Append(r, b[p])
    BY <1>7 DEF UpDate, MoveToTail
  <2>4. b[p] \in Contact /\ b[p].NodeID = c.NodeID
    BY <1>2, <1>3, <2>1
  <2> HIDE DEF r, u, p
  <2>5. /\ DOMAIN u = 1 .. Len(b)
        /\ \A i \in 1 .. Len(b) - 1 : u[i] = r[i]
        /\ u[Len(b)] = b[p]
    <3>1. /\ u \in Seq(Contact) /\ Len(u) = Len(r) + 1
          /\ \A i \in 1 .. Len(r) : u[i] = r[i]
          /\ u[Len(r) + 1] = b[p]
      BY <2>2, <2>3, <2>4, AppendProperties
    <3>2. Len(r) + 1 = Len(b) /\ DOMAIN u = 1 .. Len(u)
      BY <1>1, <2>2, <3>1, LenProperties
    <3> QED
      BY <2>2, <3>1, <3>2
  <2> DEFINE old(i) == IF i < p THEN i ELSE i + 1
  <2>6. \A i \in 1 .. Len(b) - 1 :
           old(i) \in 1 .. Len(b) /\ old(i) # p /\ u[i] = b[old(i)]
    BY <1>1, <2>1, <2>2, <2>5
  <2>7. \A i, j \in 1 .. Len(b) - 1 : 1 < i /\ i < j => 1 < old(i) /\ old(i) < old(j)
    BY <1>1, <2>1
  <2> HIDE DEF old
  <2>8. ASSUME NEW i \in DOMAIN u, NEW j \in DOMAIN u, 1 < i, i < j
        PROVE  <<u[i].NodeID, u[j].NodeID>> \in Latest(c.NodeID)
    <3>1. i \in 1 .. Len(b) - 1 /\ (j = Len(b) \/ j \in 1 .. Len(b) - 1)
      BY <1>1, <2>5, <2>8
    <3>2. CASE j = Len(b)
      BY <1>5, <2>4, <2>5, <2>6, <3>1, <3>2
    <3>3. CASE j \in 1 .. Len(b) - 1
      BY <1>4, <2>6, <2>7, <2>8, <3>1, <3>3
    <3> QED
      BY <3>1, <3>2, <3>3
  <2> QED
    BY <2>8 DEF u
<1>8. CASE p = 0 /\ HasRoom(b)
  <2>1. u = Append(b, c)
    BY <1>8 DEF UpDate, Push
  <2> HIDE DEF u, p
  <2>2. /\ DOMAIN u = 1 .. Len(b) + 1
        /\ \A i \in 1 .. Len(b) : u[i] = b[i]
        /\ u[Len(b) + 1] = c
    BY <1>1, <2>1, AppendProperties, LenProperties
  <2>3. ASSUME NEW i \in DOMAIN u, NEW j \in DOMAIN u, 1 < i, i < j
        PROVE  <<u[i].NodeID, u[j].NodeID>> \in Latest(c.NodeID)
    <3>1. /\ i \in 1 .. Len(b) /\ i # p
          /\ (j = Len(b) + 1 \/ j \in 1 .. Len(b))
      BY <1>1, <1>8, <2>2, <2>3
    <3> QED
      BY <1>4, <1>5, <2>2, <2>3, <3>1
  <2> QED
    BY <2>3 DEF u
<1>9. CASE p = 0 /\ ~ HasRoom(b) /\ ~ headAnswers
  <2>1. u = Append(Tail(b), c)
    BY <1>9 DEF UpDate, DeleteFrontInsert
  <2> DEFINE len == Len(b)
  <2>2. len = K + 1 /\ b # << >>
    <3>1. ~ (len <= K)
      BY <1>9 DEF HasRoom
    <3>2. len \in Nat /\ len <= K + 1 /\ K \in Nat \ {0}
      BY <1>1
    <3> HIDE DEF len
    <3>3. len = K + 1 /\ len # 0
      BY <3>1, <3>2
    <3> USE DEF len
    <3> QED
      BY <3>3, EmptySeq
  <2>3. /\ Tail(b) \in Seq(Contact) /\ Len(Tail(b)) = Len(b) - 1
        /\ \A i \in 1 .. Len(b) - 1 : Tail(b)[i] = b[i + 1]
    BY <2>2, HeadTailProperties
  <2> HIDE DEF u, p
  <2>4. /\ DOMAIN u = 1 .. Len(b)
        /\ \A i \in 1 .. Len(b) - 1 : u[i] = b[i + 1]
        /\ u[Len(b)] = c
    BY <1>1, <2>1, <2>2, <2>3, AppendProperties, LenProperties
  <2>5. ASSUME NEW i \in DOMAIN u, NEW j \in DOMAIN u, 1 < i, i < j
        PROVE  <<u[i].NodeID, u[j].NodeID>> \in Latest(c.NodeID)
    <3>1. /\ i \in 1 .. Len(b) - 1 /\ i + 1 \in 1 .. Len(b) /\ i + 1 # p
          /\ 1 < i + 1
          /\ \/ j = Len(b)
             \/ j \in 1 .. Len(b) - 1 /\ j + 1 \in 1 .. Len(b) /\ i + 1 < j + 1
      BY <1>1, <1>9, <2>4, <2>5
    <3> QED
      BY <1>4, <1>5, <2>4, <3>1
  <2> QED
    BY <2>5 DEF u
<1>10. \/ u = b /\ (p = 0 \/ p = 1 \/ p = Len(b))
       \/ p # 0 /\ p # 1 /\ p # Len(b)
       \/ p = 0 /\ HasRoom(b)
       \/ p = 0 /\ ~ HasRoom(b) /\ ~ headAnswers
  BY DEF UpDate, MoveToTail
<1> QED
  BY <1>6, <1>7, <1>8, <1>9, <1>10

----------------------------------------------------------------------------
LEMMA InitInvariant == Init => IInv
<1> SUFFICES ASSUME Init PROVE IInv
  OBVIOUS
<1>1. /\ list.heap = [a \in Addr |-> Nil] /\ list.head = Nil
      /\ list.tail = Nil /\ list.length = 0
      /\ list = [heap |-> list.heap, head |-> Nil, tail |-> Nil, length |-> 0]
      /\ chain = << >> /\ older = {}
  BY DEF Init
<1>2. /\ chain \in Seq(Addr) /\ Len(chain) = 0 /\ DOMAIN chain = {}
      /\ 0 <= K /\ 0 <= K + 1 /\ 0 # K + 1
  BY <1>1, EmptySeq, KAssumption
<1>3. list.heap \in HeapType
  BY <1>1 DEF HeapType
<1>4. list \in ListRecord
  <2>1. [heap |-> list.heap, head |-> Nil, tail |-> Nil, length |-> 0]
           \in ListRecord
    BY <1>3, ListFacts
  <2> QED
    BY <1>1, <2>1
<1>5. LinksAgree
  BY <1>1, <1>2 DEF LinksAgree, Linked
<1>6. DOMAIN Contents = {}
  BY <1>2 DEF Contents, ContentsOf
<1>7. NoDuplicates /\ LRUBehindHead
  BY <1>6 DEF NoDuplicates, Distinct, LRUBehindHead
<1>8. RoomIsJudgedRightly
  BY <1>1, <1>2 DEF RoomIsJudgedRightly
<1>9. TypeOK
  BY <1>1, <1>2, <1>4 DEF TypeOK
<1> QED
  BY <1>5, <1>7, <1>8, <1>9 DEF IInv

LEMMA NextInvariant == IInv /\ [Next]_vars => IInv'
<1> SUFFICES ASSUME IInv, [Next]_vars PROVE IInv'
  OBVIOUS
<1>1. CASE Next
  <2>1. PICK c \in Contact : StepOf(c) /\ Contacted(c)
    BY <1>1, ActionStep
  <2>2. PICK headAnswers \in BOOLEAN : Contents' = UpDate(Contents, c, headAnswers)
    BY <2>1 DEF StepOf
  <2>3. LinksAgree' /\ RoomIsJudgedRightly'
    BY <2>1 DEF StepOf, LinksAgree
  <2>4. older' = Latest(c.NodeID) /\ Latest(c.NodeID) \subseteq NodeID \X NodeID
    BY <2>1 DEF Contacted, Latest, Contact, IInv, TypeOK
  <2>5. TypeOK'
    BY <2>1, <2>4 DEF StepOf, TypeOK
  <2>6. /\ Contents \in Seq(Contact) /\ Distinct(Contents)
        /\ Len(Contents) <= K + 1
    BY StateFacts
  <2>7. NoDuplicates'
    BY <2>2, <2>6, UpDateFacts DEF NoDuplicates
  <2>8. LRUBehindHead'
    <3>1. \A i, j \in DOMAIN Contents : 1 < i /\ i < j =>
             <<Contents[i].NodeID, Contents[j].NodeID>> \in older
      BY DEF IInv, LRUBehindHead
    <3>2. \A i, j \in DOMAIN Contents' : 1 < i /\ i < j =>
             <<Contents'[i].NodeID, Contents'[j].NodeID>> \in Latest(c.NodeID)
      BY <2>2, <2>6, <3>1, OrderStep
    <3> QED
      BY <2>4, <3>2 DEF LRUBehindHead
  <2> QED
    BY <2>3, <2>5, <2>7, <2>8 DEF IInv
<1>2. CASE UNCHANGED vars
  BY <1>2 DEF vars, IInv, TypeOK, LinksAgree, NoDuplicates, Distinct,
              RoomIsJudgedRightly, LRUBehindHead, Contents
<1> QED
  BY <1>1, <1>2

\* The invariant holds in every reachable state, for any number of nodes,
\* addresses and any bucket size.
THEOREM Invariant == Spec => []IInv
<1> QED
  BY InitInvariant, NextInvariant, PTL DEF Spec

\* The list is always a value of the Go structs.
THEOREM TypeCorrect == Spec => []TypeOK
<1>1. IInv => TypeOK
  BY DEF IInv
<1> QED
  BY <1>1, Invariant, PTL

\* head, tail, next and prev always describe one doubly linked list, which
\* runs through every allocated node once.
THEOREM LinksCorrect == Spec => []LinksAgree
<1>1. IInv => LinksAgree
  BY DEF IInv
<1> QED
  BY <1>1, Invariant, PTL

\* A bucket never holds two entries for one node.
THEOREM NoDuplicatesCorrect == Spec => []NoDuplicates
<1>1. IInv => NoDuplicates
  BY DEF IInv
<1> QED
  BY <1>1, Invariant, PTL

\* The drifting length counter never lets a bucket grow beyond K + 1 nodes nor
\* refuses a node for which there is room.
THEOREM RoomCorrect == Spec => []RoomIsJudgedRightly
<1>1. IInv => RoomIsJudgedRightly
  BY DEF IInv
<1> QED
  BY <1>1, Invariant, PTL

\* Behind its head, a bucket is always in order of last contact.
THEOREM OrderCorrect == Spec => []LRUBehindHead
<1>1. IInv => LRUBehindHead
  BY DEF IInv
<1> QED
  BY <1>1, Invariant, PTL

\* A stored contact is never overwritten with a newer address of its node.
THEOREM StoredContactCorrect == Spec => StoredContactIsKept
<1> DEFINE Kept == \A i \in DOMAIN Contents, j \in DOMAIN Contents' :
                      Contents'[j].NodeID = Contents[i].NodeID
                         => Contents'[j] = Contents[i]
<1>1. IInv /\ [Next]_vars => [Kept]_vars
  <2> SUFFICES ASSUME IInv, Next PROVE Kept
    OBVIOUS
  <2>1. PICK c \in Contact : StepOf(c)
    BY ActionStep
  <2>2. PICK headAnswers \in BOOLEAN : Contents' = UpDate(Contents, c, headAnswers)
    BY <2>1 DEF StepOf
  <2>3. /\ Contents \in Seq(Contact) /\ Distinct(Contents)
        /\ Len(Contents) <= K + 1 /\ DOMAIN Contents = 1 .. Len(Contents)
    BY StateFacts
  <2>4. \A j \in DOMAIN Contents' :
           \/ Contents'[j] = c /\ FindPos(Contents, c.NodeID) = 0
           \/ \E k \in DOMAIN Contents : Contents'[j] = Contents[k]
    BY <2>2, <2>3, UpDateFacts
  <2> SUFFICES ASSUME NEW i \in DOMAIN Contents, NEW j \in DOMAIN Contents',
                      Contents'[j].NodeID = Contents[i].NodeID
               PROVE  Contents'[j] = Contents[i]
    OBVIOUS
  <2>5. CASE Contents'[j] = c /\ FindPos(Contents, c.NodeID) = 0
    <3>1. Contents[i].NodeID # c.NodeID
      <4>1. i \in 1 .. Len(Contents) /\ i # 0
        BY <2>3
      <4> QED
        BY <2>3, <2>5, <4>1, FindPosFacts
    <3> QED
      BY <2>5, <3>1
  <2>6. ASSUME NEW k \in DOMAIN Contents, Contents'[j] = Contents[k]
        PROVE  Contents'[j] = Contents[i]
    BY <2>3, <2>6 DEF Distinct
  <2> QED
    BY <2>4, <2>5, <2>6
<1> QED
  BY <1>1, Invariant, PTL DEF Spec, StoredContactIsKept

\* The linked list implements the k-bucket of module KBucket.
THEOREM Refinement == Spec => ImplementsKBucket
<1>1. Init => Abstract!Init
  BY EmptySeq DEF Init, Abstract!Init, Contents, ContentsOf
<1>2. IInv /\ [Next]_vars => [Abstract!Next]_Contents
  <2> SUFFICES ASSUME IInv, [Next]_vars PROVE [Abstract!Next]_Contents
    OBVIOUS
  <2>1. CASE Next
    <3>1. PICK c \in Contact : StepOf(c)
      BY <2>1, ActionStep
    <3>2. PICK headAnswers \in BOOLEAN :
             Contents' = UpDate(Contents, c, headAnswers)
      BY <3>1 DEF StepOf
    <3>3. Contents' = Abstract!UpDate(Contents, c, headAnswers)
      BY <3>2 DEF UpDate, FindPos, MoveToTail, HasRoom, Push, DeleteFrontInsert,
                  RemoveAt, Abstract!UpDate, Abstract!FindPos,
                  Abstract!MoveToTail, Abstract!HasRoom, Abstract!Push,
                  Abstract!DeleteFrontInsert, Abstract!RemoveAt
    <3>4. c \in Abstract!Contact
      BY DEF Contact, Abstract!Contact
    <3> QED
      BY <3>3, <3>4 DEF Abstract!Next, Abstract!Contacted
  <2>2. CASE UNCHANGED vars
    BY <2>2 DEF vars, Contents
  <2> QED
    BY <2>1, <2>2
<1> QED
  BY <1>1, <1>2, Invariant, PTL DEF Spec, ImplementsKBucket, Abstract!Spec
============================================================================
