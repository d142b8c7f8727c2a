------------------------- MODULE RoutingTableProofs -------------------------
(***************************************************************************)
(* Proofs about the routing table of module RoutingTable, for identifiers  *)
(* of any width, any owner and buckets of any size.                        *)
(***************************************************************************)
EXTENDS RoutingTable, TableLemmas

\* The invariant that every UpDate preserves.
IInv == /\ TypeOK
        /\ Placement
        /\ \A p \in Bits : Distinct(table[p]) /\ Len(table[p]) <= K + 1

LEMMA ContactFacts ==
  /\ \A c \in Contact : c.NodeID \in NodeID /\ c.NodeID \in ID
  /\ SelfId \in ID
BY NodeIDAssumption, SelfAssumption DEF Contact

\* UpDate changes one bucket, as the operator of module Buckets says.
LEMMA HandleUpDateFacts ==
  ASSUME TypeOK, NEW c \in Contact, NEW headAnswers \in BOOLEAN,
         HandleUpDate(c, headAnswers)
  PROVE  LET p == BucketIndex(c.NodeID, SelfId)
         IN  /\ p \in Bits
             /\ table[p] \in Seq(Contact)
             /\ table' = [table EXCEPT ![p] = UpDate(@, c, headAnswers)]
             /\ DOMAIN table = Bits
             /\ table'[p] = UpDate(table[p], c, headAnswers)
             /\ \A q \in Bits \ {p} : table'[q] = table[q]
<1> DEFINE p == BucketIndex(c.NodeID, SelfId)
<1>1. p \in Bits
  BY ContactFacts, BucketIndexFacts
<1>2. table' = [table EXCEPT ![p] = UpDate(@, c, headAnswers)]
  BY DEF HandleUpDate, TableUpDate
<1>3. table \in [Bits -> Seq(Contact)]
  BY DEF TypeOK, Table
<1> HIDE DEF p
<1>4. /\ table[p] \in Seq(Contact) /\ DOMAIN table = Bits
      /\ table'[p] = UpDate(table[p], c, headAnswers)
      /\ \A q \in Bits \ {p} : table'[q] = table[q]
  BY <1>1, <1>2, <1>3
<1> QED
  BY <1>1, <1>2, <1>4 DEF p

LEMMA InitInvariant == Init => IInv
<1> SUFFICES ASSUME Init PROVE IInv
  OBVIOUS
<1>1. /\ table = [p \in Bits |-> << >>]
      /\ \A p \in Bits : table[p] = << >>
  BY DEF Init, NewRoutingTable
<1>2. << >> \in Seq(Contact) /\ Len(<< >>) = 0 /\ DOMAIN << >> = {}
      /\ 0 <= K + 1
  BY EmptySeq, KAssumption
<1>3. TypeOK
  BY <1>1, <1>2 DEF TypeOK, Table
<1>4. Placement
  BY <1>1, <1>2 DEF Placement, Filed
<1>5. \A p \in Bits : Distinct(table[p]) /\ Len(table[p]) <= K + 1
  BY <1>1, <1>2 DEF Distinct
<1> QED
  BY <1>3, <1>4, <1>5 DEF IInv

LEMMA NextInvariant == IInv /\ [Next]_table => IInv'
<1> SUFFICES ASSUME IInv, [Next]_table PROVE IInv'
  OBVIOUS
<1>1. CASE Next
  <2>1. PICK c \in Contact, headAnswers \in BOOLEAN : HandleUpDate(c, headAnswers)
    BY <1>1 DEF Next
  <2> DEFINE p == BucketIndex(c.NodeID, SelfId)
             old == table[p]
             new == UpDate(old, c, headAnswers)
  <2>2. /\ p \in Bits /\ old \in Seq(Contact)
        /\ table' = [table EXCEPT ![p] = new]
        /\ table'[p] = new
        /\ \A q \in Bits \ {p} : table'[q] = table[q]
    BY <2>1, HandleUpDateFacts DEF IInv
  <2>3. Distinct(old) /\ Len(old) <= K + 1
    BY <2>2 DEF IInv
  <2>4. /\ new \in Seq(Contact) /\ Distinct(new) /\ Len(new) <= K + 1
        /\ \A i \in DOMAIN new : \/ new[i] = c
                                 \/ \E j \in DOMAIN old : new[i] = old[j]
    BY <2>2, <2>3, UpDateFacts
  <2>5. \A j \in DOMAIN old : BucketIndex(old[j].NodeID, SelfId) = p
    BY <2>2 DEF IInv, Placement, Filed
  <2>6. BucketIndex(c.NodeID, SelfId) = p
    OBVIOUS
  <2> HIDE DEF p, old, new
  <2>7. TypeOK'
    BY <2>2, <2>4 DEF TypeOK, Table, IInv
  <2>8. Placement'
    <3>1. \A i \in DOMAIN new : BucketIndex(new[i].NodeID, SelfId) = p
      BY <2>4, <2>5, <2>6
    <3>2. \A q \in Bits \ {p} : \A i \in DOMAIN table[q] :
             BucketIndex(table[q][i].NodeID, SelfId) = q
      BY DEF IInv, Placement, Filed
    <3> QED
      BY <2>2, <3>1, <3>2 DEF Placement, Filed
  <2>9. (\A q \in Bits : Distinct(table[q]) /\ Len(table[q]) <= K + 1)'
    BY <2>2, <2>4 DEF IInv
  <2> QED
    BY <2>7, <2>8, <2>9 DEF IInv
<1>2. CASE UNCHANGED table
  BY <1>2 DEF IInv, TypeOK, Placement, Filed
<1> QED
  BY <1>1, <1>2

THEOREM Invariance == Spec => []IInv
<1> QED
  BY InitInvariant, NextInvariant, PTL DEF Spec

\* Every bucket is a sequence of contacts.
THEOREM TypeCorrect == Spec => []TypeOK
<1>1. IInv => TypeOK
  BY DEF IInv
<1> QED
  BY <1>1, Invariance, PTL

\* Every contact is filed under the index of its own identifier.
THEOREM PlacementCorrect == Spec => []Placement
<1>1. IInv => Placement
  BY DEF IInv
<1> QED
  BY <1>1, Invariance, PTL

\* No node has two entries in the whole table.
THEOREM OneEntryCorrect == Spec => []OneEntryPerNode
<1>1. IInv => OneEntryPerNode
  BY DEF IInv, Placement, Filed, Distinct, OneEntryPerNode
<1> QED
  BY <1>1, Invariance, PTL

\* The bucket that a query visits first holds the nearest contacts.
THEOREM NearestCorrect == Spec => []OwnBucketIsNearest
<1>1. IInv => OwnBucketIsNearest
  BY ContactFacts, OwnBucketFacts DEF IInv, TypeOK, Placement, OwnBucketIsNearest
<1> QED
  BY <1>1, Invariance, PTL

\* FindContact finds exactly the nodes that are known.
THEOREM FindContactCorrect == Spec => []FindContactIsRight
<1>1. IInv => FindContactIsRight
  <2> SUFFICES ASSUME IInv, NEW id \in ID
               PROVE  FindContact(table, SelfId, id)
                         = {c \in Known(table) : c.NodeID = id}
    BY DEF FindContactIsRight
  <2>1. /\ SelfId \in ID /\ table \in Table /\ Filed(table, SelfId)
        /\ \A p \in Bits : Distinct(table[p])
    BY ContactFacts DEF IInv, TypeOK, Placement
  <2> QED
    BY <2>1, FiledIsFound
<1> QED
  BY <1>1, Invariance, PTL

\* Both queries answer as many contacts as they may, each once.
THEOREM QueriesCorrect == Spec => []QueriesAreFull
<1>1. IInv => QueriesAreFull
  <2> SUFFICES ASSUME IInv, NEW id \in ID
               PROVE  /\ ListsUpToK(FindCloset(table, SelfId, id), Others(table, id))
                      /\ ListsUpToK(FindAlpha(table, SelfId, id), Known(table))
    BY DEF QueriesAreFull
  <2>1. table \in Table /\ OneEntry(table) /\ SelfId \in ID
    BY ContactFacts DEF IInv, TypeOK, Placement, Filed, Distinct, OneEntry
  <2> QED
    BY <2>1, QueryFacts
<1> QED
  BY <1>1, Invariance, PTL

\* No UpDate makes the table know fewer nodes: one is dropped in exchange for
\* another of its bucket only.
THEOREM ExchangeCorrect == Spec => DropsOnlyInExchange
<1>1. IInv /\ [Next]_table => [ExchangesOnly(table, table', SelfId)]_table
  <2> SUFFICES ASSUME IInv, Next
               PROVE  ExchangesOnly(table, table', SelfId)
    OBVIOUS
  <2>1. PICK c \in Contact, headAnswers \in BOOLEAN :
           table' = TableUpDate(table, SelfId, c, headAnswers)
    BY DEF Next, HandleUpDate
  <2>2. /\ SelfId \in ID /\ table \in Table /\ Filed(table, SelfId)
        /\ \A p \in Bits : Distinct(table[p])
    BY ContactFacts DEF IInv, TypeOK, Placement
  <2> QED
    BY <2>1, <2>2, UpDateExchanges
<1>2. [][ExchangesOnly(table, table', SelfId)]_table => DropsOnlyInExchange
  BY PTL DEF DropsOnlyInExchange, ExchangesOnly
<1> QED
  BY <1>1, <1>2, Invariance, PTL DEF Spec
============================================================================
