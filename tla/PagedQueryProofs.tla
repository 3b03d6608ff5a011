--------------------------- MODULE PagedQueryProofs ---------------------------
(***************************************************************************)
(* Proofs about PagedQuery, for pages of any size and a table that changes *)
(* any number of times.                                                    *)
(*                                                                         *)
(* What is behind the page last asked for is larger than all that was      *)
(* collected (Ahead): rows only move up when others are removed, and new   *)
(* ones come last.  What is at or before that page and was not collected   *)
(* (Lost) is paid for, row by row, by a removal or by a page skipped.      *)
(***************************************************************************)
EXTENDS PagedQuery, FiniteSetTheorems, FunctionTheorems, SequenceTheorems, TLAPS

-----------------------------------------------------------------------------
(* The inductive invariant. *)

\* The table is in the order of its ids, none of which is above the last given out.
InOrder ==
    /\ \A j, k \in 1..Len(table) : j < k => table[j] < table[k]
    /\ \A k \in 1..Len(table) : k <= table[k] /\ table[k] <= lastId

CollectedInOrder == \A j, k \in 1..Len(invItems) : j < k => invItems[j] < invItems[k]

Given == \A j \in 1..Len(invItems) : invItems[j] <= lastId

Ahead == \A k \in 1..Len(table) : k > page * PerPage =>
            \A j \in 1..Len(invItems) : invItems[j] < table[k]

NotBegun == pc = "first" => page = 1 /\ invItems = <<>> /\ stayed = {}

\* No row of the first answer's time is behind the pages it announced.
WithinPages == \A k \in 1..Len(table) : table[k] \in stayed => k <= numPages * PerPage

EndAfterLast == currPage <= page /\ (pc = "returned" => currPage >= numPages)

Lost == {r \in stayed \ RowsOf(invItems) :
            \E k \in 1..Len(table) : table[k] = r /\ k <= page * PerPage}

FewLost == Cardinality(Lost) <= removes + skipped * PerPage

IInv == /\ TypeOK /\ InOrder /\ CollectedInOrder /\ Given /\ Ahead
        /\ NotBegun /\ WithinPages /\ EndAfterLast /\ FewLost

-----------------------------------------------------------------------------
(* Lemmas. *)

Rows == 1..(MaxRows + MaxInserts)

LEMMA Numbers ==
    /\ PerPage \in Nat \ {0}
    /\ MaxRows \in Nat /\ MaxInserts \in Nat /\ MaxRemoves \in Nat /\ MaxFails \in Nat
    /\ MaxPage \in Nat
    /\ MaxPage * PerPage > MaxRows + MaxInserts + PerPage
BY PageAssumption

\* Rows are numbers.
LEMMA RowsAreNumbers ==
    ASSUME TypeOK
    PROVE  /\ table \in Seq(Rows) /\ invItems \in Seq(Rows) /\ Rows \subseteq Nat
           /\ lastId \in Nat /\ Len(table) \in Nat /\ Len(invItems) \in Nat
           /\ \A k \in 1..Len(table) : table[k] \in Nat
           /\ \A j \in 1..Len(invItems) : invItems[j] \in Nat
<1>1. table \in Seq(Rows) /\ invItems \in Seq(Rows)
  BY DEF TypeOK, Rows
<1>2. Rows \subseteq Nat
  BY Numbers DEF Rows
<1>3. lastId \in Nat
  BY Numbers DEF TypeOK
<1>4. ASSUME NEW s \in Seq(Rows)
      PROVE  Len(s) \in Nat /\ \A k \in 1..Len(s) : s[k] \in Nat
  <2>1. Len(s) \in Nat /\ \A k \in 1..Len(s) : s[k] \in Rows
    OBVIOUS
  <2> QED
    BY <1>2, <2>1
<1> QED
  BY <1>1, <1>2, <1>3, <1>4

\* Pages in numbers of rows.
LEMMA PageSizes ==
    ASSUME NEW p \in Nat
    PROVE  /\ p * PerPage \in Nat
           /\ (p + 1) * PerPage = p * PerPage + PerPage
           /\ (p - 1) * PerPage = p * PerPage - PerPage
           /\ \A q \in Nat : p <= q => p * PerPage <= q * PerPage
BY Numbers

LEMMA SeveralPages == MaxPage \in Nat \ {0}
BY Numbers, PageSizes

\* The pages hold the whole table.
LEMMA TotalPagesHold ==
    ASSUME table \in Seq(Rows)
    PROVE  TotalPages \in Nat /\ Len(table) <= TotalPages * PerPage
<1>1. Len(table) \in Nat /\ PerPage \in Nat \ {0}
  BY Numbers
<1>2. CASE table = <<>>
  BY <1>1, <1>2 DEF TotalPages
<1>3. CASE table # <<>>
  BY <1>1, <1>3 DEF TotalPages
<1> QED
  BY <1>2, <1>3

\* What Sonar answers for page p: the rows at its places, in their order.
LEMMA EntitiesOfPage ==
    ASSUME table \in Seq(Rows), NEW p \in Nat \ {0}
    PROVE  LET e == Entities(p)
               lo == p * PerPage - PerPage
           IN /\ e \in Seq(Rows)
              /\ \A i \in 1..Len(e) : /\ lo + i \in 1..Len(table)
                                     /\ lo + i <= p * PerPage
                                     /\ e[i] = table[lo + i]
              /\ \A k \in 1..Len(table) :
                    lo < k /\ k <= p * PerPage => table[k] \in RowsOf(e)
<1> DEFINE lo == p * PerPage - PerPage
           hi == IF p * PerPage < Len(table) THEN p * PerPage ELSE Len(table)
           e == SubSeq(table, lo + 1, hi)
<1>1. /\ Len(table) \in Nat /\ lo \in Nat /\ p * PerPage \in Nat /\ hi \in Nat
      /\ hi <= Len(table) /\ hi <= p * PerPage
      /\ \A k \in 1..Len(table) : k <= p * PerPage => k <= hi
  <2>1. Len(table) \in Nat /\ p * PerPage \in Nat
    <3>1. p \in Nat
      OBVIOUS
    <3>2. p * PerPage \in Nat
      BY <3>1, PageSizes
    <3> QED
      BY <3>2
  <2>2. lo \in Nat
    <3>1. p - 1 \in Nat
      OBVIOUS
    <3>2. (p - 1) * PerPage \in Nat
      BY <3>1, PageSizes
    <3> QED
      BY <3>2, PageSizes
  <2> QED
    BY <2>1, <2>2
<1>2. Entities(p) = e
  BY PageSizes DEF Entities
<1> HIDE DEF lo, hi
<1>3. /\ e \in Seq(Rows) /\ Len(e) = IF lo + 1 <= hi THEN hi - lo ELSE 0
      /\ \A i \in 1..(hi - lo) : e[i] = table[lo + i]
  <2>1. \A i \in (lo + 1)..hi : table[i] \in Rows
    BY <1>1
  <2>2. lo + 1 \in 1..(Len(table) + 1) \/ lo + 1 > hi
    BY <1>1
  <2> QED
    BY <1>1, <2>1, <2>2
<1> HIDE DEF e
<1>4. ASSUME NEW i \in 1..Len(e)
      PROVE  lo + i \in 1..Len(table) /\ lo + i <= p * PerPage /\ e[i] = table[lo + i]
  BY <1>1, <1>3
<1>5. ASSUME NEW k \in 1..Len(table), lo < k, k <= p * PerPage
      PROVE  table[k] \in RowsOf(e)
  <2>1. k - lo \in 1..Len(e) /\ k - lo \in 1..(hi - lo) /\ lo + (k - lo) = k
    BY <1>1, <1>3, <1>5
  <2>2. e[k - lo] = table[k]
    BY <1>3, <2>1
  <2> QED
    BY <2>1, <2>2 DEF RowsOf
<1> QED
  BY <1>2, <1>3, <1>4, <1>5 DEF lo

LEMMA RowsOfConcat ==
    ASSUME NEW s \in Seq(Rows), NEW t \in Seq(Rows)
    PROVE  RowsOf(s \o t) = RowsOf(s) \cup RowsOf(t)
<1>1. ASSUME NEW r \in RowsOf(s \o t) PROVE r \in RowsOf(s) \cup RowsOf(t)
  <2>1. PICK k \in 1..Len(s \o t) : r = (s \o t)[k]
    BY DEF RowsOf
  <2>2. CASE k <= Len(s)
    BY <2>1, <2>2 DEF RowsOf
  <2>3. CASE k > Len(s)
    <3>1. k - Len(s) \in 1..Len(t) /\ r = t[k - Len(s)]
      BY <2>1, <2>3
    <3> QED
      BY <3>1 DEF RowsOf
  <2> QED
    BY <2>1, <2>2, <2>3
<1>2. ASSUME NEW r \in RowsOf(s) PROVE r \in RowsOf(s \o t)
  <2>1. PICK k \in 1..Len(s) : r = s[k]
    BY <1>2 DEF RowsOf
  <2>2. k \in 1..Len(s \o t) /\ (s \o t)[k] = r
    BY <2>1
  <2> QED
    BY <2>2 DEF RowsOf
<1>3. ASSUME NEW r \in RowsOf(t) PROVE r \in RowsOf(s \o t)
  <2>1. PICK k \in 1..Len(t) : r = t[k]
    BY <1>3 DEF RowsOf
  <2>2. Len(s) + k \in 1..Len(s \o t) /\ (s \o t)[Len(s) + k] = r
    BY <2>1
  <2> QED
    BY <2>2 DEF RowsOf
<1> QED
  BY <1>1, <1>2, <1>3

\* Nothing is on the page the counter stops at.
LEMMA NothingOnLastPage ==
    ASSUME TypeOK, InOrder
    PROVE  Len(table) <= MaxPage * PerPage - PerPage
<1>1. CASE Len(table) = 0
  BY <1>1, Numbers, SeveralPages, PageSizes
<1>2. CASE Len(table) # 0
  <2>1. Len(table) \in 1..Len(table)
    BY <1>2 DEF TypeOK
  <2>2. Len(table) <= table[Len(table)] /\ table[Len(table)] <= lastId
    BY <2>1 DEF InOrder
  <2>3. lastId <= MaxRows + MaxInserts /\ table[Len(table)] \in Nat /\ lastId \in Nat
    BY <2>1, Numbers DEF TypeOK
  <2> QED
    BY <2>1, <2>2, <2>3, Numbers, SeveralPages, PageSizes
<1> QED
  BY <1>1, <1>2

\* The next page, unless the counter stops.
LEMMA NextPage ==
    ASSUME TypeOK, AskForNext
    PROVE  /\ page \in Nat \ {0} /\ page' \in 1..MaxPage /\ page' \in Nat \ {0}
           /\ \/ page' = page + 1 /\ page' * PerPage - PerPage = page * PerPage
              \/ page' = page /\ page = MaxPage
           /\ page * PerPage \in Nat /\ page' * PerPage \in Nat
           /\ page * PerPage <= page' * PerPage
<1>1. /\ page \in Nat \ {0} /\ page' \in 1..MaxPage /\ page' \in Nat \ {0}
      /\ (page' = page + 1 \/ (page' = page /\ page = MaxPage)) /\ page <= page'
  BY SeveralPages DEF TypeOK, AskForNext
<1>2. /\ page * PerPage \in Nat /\ (page + 1) * PerPage = page * PerPage + PerPage
      /\ page * PerPage <= page' * PerPage
  BY <1>1, PageSizes
<1>3. page' * PerPage \in Nat
  BY <1>1, PageSizes
<1>4. CASE page' = page + 1
  BY <1>1, <1>2, <1>3, <1>4, Numbers
<1>5. CASE page' = page /\ page = MaxPage
  BY <1>1, <1>2, <1>3, <1>5
<1> QED
  BY <1>1, <1>4, <1>5

\* What a page brings is larger than all collected before it.
LEMMA PageIsAhead ==
    ASSUME IInv, AskForNext
    PROVE  LET e == Entities(page')
           IN /\ e \in Seq(Rows)
              /\ \A i \in 1..Len(e), j \in 1..Len(invItems) : invItems[j] < e[i]
              /\ \A i, j \in 1..Len(e) : i < j => e[i] < e[j]
<1> DEFINE e == Entities(page')
           lo == page' * PerPage - PerPage
<1>1. table \in Seq(Rows) /\ page' \in Nat \ {0}
  BY NextPage DEF IInv, TypeOK, Rows
<1>2. /\ e \in Seq(Rows)
      /\ \A i \in 1..Len(e) : lo + i \in 1..Len(table) /\ e[i] = table[lo + i]
  BY <1>1, EntitiesOfPage
<1>3. lo \in Nat /\ (lo = page * PerPage \/ Len(table) <= lo)
  <2>1. CASE page' = page + 1
    BY <2>1, NextPage DEF IInv
  <2>2. CASE page' = page /\ page = MaxPage
    <3>1. Len(table) <= lo /\ Len(table) \in Nat
      BY <2>2, NothingOnLastPage DEF IInv, TypeOK
    <3>2. lo \in Int
      BY NextPage, Numbers DEF IInv
    <3> QED
      BY <3>1, <3>2
  <2> QED
    BY <2>1, <2>2, NextPage DEF IInv
<1> HIDE DEF e, lo
<1>4. ASSUME NEW i \in 1..Len(e), NEW j \in 1..Len(invItems) PROVE invItems[j] < e[i]
  <2>1. lo + i \in 1..Len(table) /\ e[i] = table[lo + i] /\ Len(table) \in Nat /\ i > 0
    BY <1>1, <1>2
  <2>2. lo + i > page * PerPage
    BY <1>3, <2>1
  <2> QED
    BY <2>1, <2>2 DEF IInv, Ahead
<1>5. ASSUME NEW i \in 1..Len(e), NEW j \in 1..Len(e), i < j PROVE e[i] < e[j]
  <2>1. lo + i < lo + j
    BY <1>2, <1>3, <1>5
  <2> QED
    BY <1>2, <2>1 DEF IInv, InOrder
<1> QED
  BY <1>2, <1>4, <1>5 DEF e

-----------------------------------------------------------------------------
(* The types and the order of the table. *)

\* The table after a row was removed from it.
LEMMA AfterRemove ==
    ASSUME TypeOK, NEW place \in 1..Len(table), Remove(place)
    PROVE  /\ table' \in Seq(Rows) /\ Len(table) \in Nat /\ Len(table') = Len(table) - 1
           /\ \A k \in 1..Len(table') :
                 /\ k \in 1..Len(table) /\ k + 1 \in 1..Len(table)
                 /\ table'[k] = IF k < place THEN table[k] ELSE table[k + 1]
<1>1. table \in Seq(Rows) /\ Len(table) \in Nat /\ Len(table) - 1 \in Nat
  BY DEF TypeOK, Rows
<1>2. table' = [k \in 1..(Len(table) - 1) |-> IF k < place THEN table[k] ELSE table[k + 1]]
  BY DEF Remove
<1>3. ASSUME NEW k \in 1..(Len(table) - 1)
      PROVE  k \in 1..Len(table) /\ k + 1 \in 1..Len(table)
  BY <1>1
<1>4. \A k \in 1..(Len(table) - 1) :
        (IF k < place THEN table[k] ELSE table[k + 1]) \in Rows
  BY <1>1, <1>3
<1>5. table' \in Seq(Rows) /\ Len(table') = Len(table) - 1
  BY <1>1, <1>2, <1>4
<1> QED
  BY <1>1, <1>2, <1>3, <1>5

LEMMA AfterInsert ==
    ASSUME TypeOK, Insert
    PROVE  /\ table' \in Seq(Rows) /\ Len(table) \in Nat /\ Len(table') = Len(table) + 1
           /\ table'[Len(table')] = lastId + 1 /\ lastId' = lastId + 1 /\ lastId' \in Rows
           /\ \A k \in 1..Len(table) : table'[k] = table[k]
<1>1. table \in Seq(Rows) /\ lastId + 1 \in Rows /\ table' = Append(table, lastId + 1)
      /\ lastId' = lastId + 1
  BY Numbers DEF TypeOK, Insert, Rows
<1> QED
  BY <1>1

LEMMA TypeKept ==
    ASSUME IInv, [Next]_vars
    PROVE  TypeOK'
<1> USE DEF IInv
<1>1. ASSUME FirstPage PROVE TypeOK'
  <2>1. Entities(1) \in Seq(Rows) /\ TotalPages \in Nat /\ page = 1
    BY <1>1, EntitiesOfPage, TotalPagesHold DEF TypeOK, FirstPage, NotBegun, Rows
  <2>2. \/ currPage' = currPage \/ currPage' = 1
    BY <1>1, <2>1 DEF FirstPage
  <2>3. fails' \in Nat /\ currPage' \in 0..MaxPage
    BY <1>1, <2>2, SeveralPages DEF TypeOK, FirstPage, Fails
  <2>4. stayed' \subseteq RowsOf(table)
    BY <1>1 DEF TypeOK, FirstPage
  <2> QED
    BY <1>1, <2>1, <2>3, <2>4 DEF TypeOK, FirstPage, Rows
<1>2. ASSUME AskForNext, fails' \in Nat,
             \/ currPage' = page' /\ invItems' = invItems \o Entities(page') /\ UNCHANGED skipped
             \/ Skip
      PROVE  TypeOK'
  <2>1. page' \in 1..MaxPage /\ Entities(page') \in Seq(Rows)
    BY <1>2, NextPage, PageIsAhead
  <2>2. skipped' \in Nat
    BY <1>2 DEF TypeOK, Skip
  <2>3. currPage' \in 0..MaxPage
    BY <1>2, <2>1, SeveralPages DEF TypeOK, Skip
  <2>4. invItems' \in Seq(Rows)
    <3>1. invItems \in Seq(Rows)
      BY DEF TypeOK, Rows
    <3>2. invItems \o Entities(page') \in Seq(Rows)
      BY <2>1, <3>1
    <3> QED
      BY <1>2, <3>1, <3>2 DEF Skip
  <2> QED
    BY <1>2, <2>1, <2>2, <2>3, <2>4 DEF TypeOK, AskForNext, Rows
<1>3. ASSUME TakePage PROVE TypeOK'
  BY <1>2, <1>3 DEF TakePage, TypeOK
<1>4. ASSUME RequestFails \/ PagesDiffer PROVE TypeOK'
  BY <1>2, <1>4 DEF RequestFails, PagesDiffer, Fails, TypeOK
<1>5. ASSUME Return PROVE TypeOK'
  BY <1>5 DEF Return, TypeOK
<1>6. ASSUME Insert PROVE TypeOK'
  <2>1. RowsOf(table) \subseteq RowsOf(table')
    BY <1>6, AfterInsert DEF RowsOf
  <2> QED
    BY <1>6, <2>1, AfterInsert, Numbers DEF Insert, TypeOK, Rows, call
<1>7. ASSUME NEW place \in 1..Len(table), Remove(place) PROVE TypeOK'
  <2>1. ASSUME NEW r \in stayed' PROVE r \in RowsOf(table')
    <3>1. PICK k \in 1..Len(table) : r = table[k]
      BY <1>7, <2>1 DEF Remove, TypeOK, RowsOf
    <3>2. k # place
      BY <1>7, <2>1, <3>1 DEF Remove
    <3>3. CASE k < place
      <4>1. k \in 1..Len(table') /\ table'[k] = r
        BY <1>7, <3>1, <3>3, AfterRemove
      <4> QED
        BY <4>1 DEF RowsOf
    <3>4. CASE k > place
      <4>1. k - 1 \in 1..Len(table') /\ ~(k - 1 < place) /\ (k - 1) + 1 = k
        BY <1>7, <3>1, <3>4, AfterRemove
      <4>2. table'[k - 1] = r
        BY <1>7, <3>1, <4>1, AfterRemove
      <4> QED
        BY <4>1, <4>2 DEF RowsOf
    <3> QED
      BY <3>2, <3>3, <3>4
  <2>2. stayed' \subseteq RowsOf(table')
    BY <2>1
  <2>3. table' \in Seq(Rows) /\ removes' \in Nat
    BY <1>7, AfterRemove DEF Remove, TypeOK
  <2> QED
    BY <1>7, <2>2, <2>3 DEF Remove, TypeOK, Rows, call
<1>8. ASSUME UNCHANGED vars PROVE TypeOK'
  BY <1>8 DEF TypeOK, vars, RowsOf
<1> QED
  BY <1>1, <1>3, <1>4, <1>5, <1>6, <1>7, <1>8 DEF Next, Call, Over

LEMMA InOrderKept ==
    ASSUME TypeOK, InOrder, [Next]_vars
    PROVE  InOrder'
<1>1. ASSUME Insert PROVE InOrder'
  <2>1. /\ Len(table) \in Nat /\ Len(table') = Len(table) + 1 /\ lastId \in Nat
        /\ table'[Len(table) + 1] = lastId + 1 /\ lastId' = lastId + 1
        /\ \A k \in 1..Len(table) : table'[k] = table[k] /\ table[k] \in Nat
    BY <1>1, AfterInsert, RowsAreNumbers
  <2>2. Len(table) <= lastId
    <3>1. CASE Len(table) = 0
      BY <2>1, <3>1
    <3>2. CASE Len(table) # 0
      <4>1. Len(table) \in 1..Len(table)
        BY <2>1, <3>2
      <4> QED
        BY <2>1, <4>1 DEF InOrder
    <3> QED
      BY <3>1, <3>2
  <2>3. ASSUME NEW k \in 1..Len(table') PROVE k <= table'[k] /\ table'[k] <= lastId'
    BY <2>1, <2>2 DEF InOrder
  <2>4. ASSUME NEW j \in 1..Len(table'), NEW k \in 1..Len(table'), j < k
        PROVE  table'[j] < table'[k]
    <3>1. j \in 1..Len(table) /\ table'[j] = table[j] /\ table[j] <= lastId
      BY <2>1, <2>4 DEF InOrder
    <3>2. CASE k \in 1..Len(table)
      BY <2>1, <2>4, <3>1, <3>2 DEF InOrder
    <3>3. CASE k = Len(table) + 1
      BY <2>1, <3>1, <3>3
    <3> QED
      BY <2>1, <3>2, <3>3
  <2> QED
    BY <2>3, <2>4 DEF InOrder
<1>2. ASSUME NEW place \in 1..Len(table), Remove(place) PROVE InOrder'
  <2>1. /\ Len(table) \in Nat
        /\ \A k \in 1..Len(table') :
              /\ k \in 1..Len(table) /\ k + 1 \in 1..Len(table)
              /\ table'[k] = IF k < place THEN table[k] ELSE table[k + 1]
        /\ \A k \in 1..Len(table) : table[k] \in Nat
        /\ UNCHANGED lastId
    BY <1>2, AfterRemove, RowsAreNumbers DEF Remove
  <2>2. ASSUME NEW k \in 1..Len(table') PROVE k <= table'[k] /\ table'[k] <= lastId'
    <3>1. k \in 1..Len(table) /\ k + 1 \in 1..Len(table) /\ k \in Nat
      BY <2>1
    <3>2. k <= table[k] /\ table[k] <= lastId /\ k + 1 <= table[k + 1] /\ table[k + 1] <= lastId
      BY <3>1 DEF InOrder
    <3>3. table[k] \in Nat /\ table[k + 1] \in Nat
      BY <2>1, <3>1
    <3> QED
      BY <2>1, <3>1, <3>2, <3>3
  <2>3. ASSUME NEW j \in 1..Len(table'), NEW k \in 1..Len(table'), j < k
        PROVE  table'[j] < table'[k]
    <3>1. /\ j \in 1..Len(table) /\ j + 1 \in 1..Len(table)
          /\ k \in 1..Len(table) /\ k + 1 \in 1..Len(table)
      BY <2>1
    <3>2. table[j] < table[k] /\ table[j] < table[k + 1] /\ table[j + 1] < table[k + 1]
      BY <2>3, <3>1 DEF InOrder
    <3> QED
      BY <2>1, <2>3, <3>1, <3>2
  <2> QED
    BY <2>2, <2>3 DEF InOrder
<1>3. ASSUME UNCHANGED <<table, lastId>> PROVE InOrder'
  BY <1>3 DEF InOrder
<1> QED
  BY <1>1, <1>2, <1>3 DEF Next, Call, FirstPage, AskForNext, TakePage, RequestFails,
     PagesDiffer, Return, Over, vars

-----------------------------------------------------------------------------
(* What is collected is in order. *)

LEMMA CollectedKept ==
    ASSUME IInv, [Next]_vars
    PROVE  CollectedInOrder'
<1> USE DEF IInv
<1>1. ASSUME FirstPage PROVE CollectedInOrder'
  <2>1. invItems = <<>> /\ page = 1 /\ table \in Seq(Rows)
    BY <1>1 DEF FirstPage, NotBegun, TypeOK, Rows
  <2>2. CASE invItems' = invItems
    BY <2>1, <2>2 DEF CollectedInOrder
  <2>3. CASE invItems' = Entities(1)
    <3>1. \A i \in 1..Len(Entities(1)) : /\ PerPage - PerPage + i \in 1..Len(table)
                                       /\ Entities(1)[i] = table[PerPage - PerPage + i]
      BY <2>1, EntitiesOfPage, Numbers
    <3>2. \A i \in 1..Len(Entities(1)) : i \in 1..Len(table) /\ Entities(1)[i] = table[i]
      BY <3>1, Numbers
    <3> QED
      BY <2>3, <3>2 DEF CollectedInOrder, InOrder
  <2> QED
    BY <1>1, <2>1, <2>2, <2>3 DEF FirstPage
<1>2. ASSUME TakePage PROVE CollectedInOrder'
  <2> DEFINE e == Entities(page')
  <2>1. /\ e \in Seq(Rows)
        /\ \A i \in 1..Len(e), j \in 1..Len(invItems) : invItems[j] < e[i]
        /\ \A i, j \in 1..Len(e) : i < j => e[i] < e[j]
    BY <1>2, PageIsAhead DEF TakePage
  <2>2. invItems' = invItems \o e /\ invItems \in Seq(Rows)
    BY <1>2 DEF TakePage, TypeOK, Rows
  <2> HIDE DEF e
  <2>3. ASSUME NEW j \in 1..Len(invItems'), NEW k \in 1..Len(invItems'), j < k
        PROVE  invItems'[j] < invItems'[k]
    <3>1. CASE k <= Len(invItems)
      BY <2>1, <2>2, <2>3, <3>1 DEF CollectedInOrder
    <3>2. CASE j <= Len(invItems) /\ k > Len(invItems)
      BY <2>1, <2>2, <2>3, <3>2
    <3>3. CASE j > Len(invItems)
      BY <2>1, <2>2, <2>3, <3>3
    <3> QED
      BY <2>1, <2>2, <2>3, <3>1, <3>2, <3>3
  <2> QED
    BY <2>3 DEF CollectedInOrder
<1>3. ASSUME UNCHANGED invItems PROVE CollectedInOrder'
  BY <1>3 DEF CollectedInOrder
<1> QED
  BY <1>1, <1>2, <1>3 DEF Next, Call, RequestFails, PagesDiffer, Skip, Return, Insert,
     Remove, Over, call, vars

LEMMA GivenKept ==
    ASSUME IInv, [Next]_vars
    PROVE  Given'
<1> USE DEF IInv
<1>1. ASSUME NEW p \in Nat \ {0}, invItems' = invItems \o Entities(p), UNCHANGED lastId
      PROVE  Given'
  <2> DEFINE e == Entities(p)
             lo == p * PerPage - PerPage
  <2>1. /\ e \in Seq(Rows)
        /\ \A i \in 1..Len(e) : lo + i \in 1..Len(table) /\ e[i] = table[lo + i]
    BY EntitiesOfPage DEF TypeOK, Rows
  <2>2. invItems' = invItems \o e /\ invItems \in Seq(Rows)
    BY <1>1 DEF TypeOK, Rows
  <2> HIDE DEF e, lo
  <2>3. \A i \in 1..Len(e) : e[i] <= lastId
    BY <2>1 DEF InOrder
  <2>4. ASSUME NEW j \in 1..Len(invItems') PROVE invItems'[j] <= lastId
    <3>1. CASE j <= Len(invItems)
      BY <2>1, <2>2, <3>1 DEF Given
    <3>2. CASE j > Len(invItems)
      <4>1. j - Len(invItems) \in 1..Len(e) /\ invItems'[j] = e[j - Len(invItems)]
        BY <2>1, <2>2, <3>2
      <4> QED
        BY <2>3, <4>1
    <3> QED
      BY <2>1, <2>2, <3>1, <3>2
  <2> QED
    BY <1>1, <2>4 DEF Given
<1>2. ASSUME UNCHANGED invItems, lastId <= lastId', lastId' \in Nat PROVE Given'
  <2> SUFFICES ASSUME NEW j \in 1..Len(invItems) PROVE invItems[j] <= lastId'
    BY <1>2 DEF Given
  <2>1. invItems[j] <= lastId /\ invItems[j] \in Nat /\ lastId \in Nat
    BY RowsAreNumbers DEF Given
  <2> QED
    BY <1>2, <2>1
<1>3. lastId \in Nat /\ lastId <= lastId /\ lastId <= lastId + 1 /\ lastId + 1 \in Nat
  BY DEF TypeOK
<1>4. ASSUME FirstPage PROVE Given'
  <2>1. page = 1 /\ invItems = <<>> /\ UNCHANGED lastId
    BY <1>4 DEF FirstPage, NotBegun
  <2>2. CASE UNCHANGED invItems
    BY <1>2, <1>3, <2>1, <2>2
  <2>3. CASE invItems' = Entities(1)
    <3>1. Entities(1) \in Seq(Rows)
      BY EntitiesOfPage DEF TypeOK, Rows
    <3>2. <<>> \o Entities(1) = Entities(1)
      BY <3>1
    <3> QED
      BY <1>1, <2>1, <2>3, <3>2
  <2> QED
    BY <1>4, <2>1, <2>2, <2>3 DEF FirstPage
<1>5. ASSUME TakePage PROVE Given'
  BY <1>1, <1>5, NextPage DEF TakePage, AskForNext
<1> QED
  BY <1>2, <1>3, <1>4, <1>5 DEF Next, Call, AskForNext, RequestFails, PagesDiffer, Skip,
     Return, Insert, Remove, Over, call, vars

LEMMA AheadKept ==
    ASSUME IInv, [Next]_vars
    PROVE  Ahead'
<1> USE DEF IInv
<1>1. ASSUME FirstPage PROVE Ahead'
  <2>1. invItems = <<>> /\ page = 1 /\ table \in Seq(Rows) /\ UNCHANGED <<page, table>>
    BY <1>1 DEF FirstPage, NotBegun, TypeOK, Rows
  <2>2. CASE invItems' = invItems
    BY <2>1, <2>2 DEF Ahead
  <2>3. CASE invItems' = Entities(1)
    <3>1. \A i \in 1..Len(Entities(1)) : /\ PerPage - PerPage + i \in 1..Len(table)
                                       /\ PerPage - PerPage + i <= 1 * PerPage
                                       /\ Entities(1)[i] = table[PerPage - PerPage + i]
      BY <2>1, EntitiesOfPage, Numbers
    <3>2. \A i \in 1..Len(Entities(1)) :
             i \in 1..Len(table) /\ i <= PerPage /\ Entities(1)[i] = table[i]
      BY <3>1, Numbers
    <3>3. ASSUME NEW k \in 1..Len(table), k > PerPage, NEW j \in 1..Len(Entities(1))
          PROVE  Entities(1)[j] < table[k]
      <4>1. j \in 1..Len(table) /\ j <= PerPage /\ Entities(1)[j] = table[j] /\ j < k
        BY <3>2, <3>3, Numbers
      <4> QED
        BY <4>1 DEF InOrder
    <3> QED
      BY <2>1, <2>3, <3>3, Numbers DEF Ahead
  <2> QED
    BY <1>1, <2>1, <2>2, <2>3 DEF FirstPage
<1>2. ASSUME TakePage PROVE Ahead'
  <2> DEFINE e == Entities(page')
             lo == page' * PerPage - PerPage
  <2>1. /\ e \in Seq(Rows)
        /\ \A i \in 1..Len(e) : /\ lo + i \in 1..Len(table)
                               /\ lo + i <= page' * PerPage
                               /\ e[i] = table[lo + i]
    BY <1>2, NextPage, EntitiesOfPage DEF TakePage, TypeOK, Rows
  <2>2. invItems' = invItems \o e /\ invItems \in Seq(Rows) /\ UNCHANGED table
    BY <1>2 DEF TakePage, AskForNext, TypeOK, Rows
  <2>3. /\ page * PerPage \in Nat /\ page' * PerPage \in Nat /\ lo \in Int
        /\ page * PerPage <= page' * PerPage
    BY <1>2, NextPage, Numbers DEF TakePage
  <2> HIDE DEF e, lo
  <2>4. ASSUME NEW k \in 1..Len(table), k > page' * PerPage, NEW j \in 1..Len(invItems')
        PROVE  invItems'[j] < table[k]
    <3>1. CASE j <= Len(invItems)
      <4>1. invItems'[j] = invItems[j] /\ k > page * PerPage /\ j \in 1..Len(invItems)
        BY <2>1, <2>2, <2>3, <2>4, <3>1
      <4> QED
        BY <4>1 DEF Ahead
    <3>2. CASE j > Len(invItems)
      <4> DEFINE i == j - Len(invItems)
      <4>1. i \in 1..Len(e) /\ invItems'[j] = e[i]
        BY <2>1, <2>2, <3>2
      <4>2. lo + i \in 1..Len(table) /\ e[i] = table[lo + i] /\ lo + i < k
        BY <2>1, <2>3, <2>4, <4>1
      <4> QED
        BY <4>1, <4>2 DEF InOrder
    <3> QED
      BY <2>1, <2>2, <3>1, <3>2
  <2> QED
    BY <2>2, <2>4 DEF Ahead
<1>3. ASSUME RequestFails \/ PagesDiffer PROVE Ahead'
  <2>1. /\ page * PerPage \in Nat /\ page' * PerPage \in Nat
        /\ page * PerPage <= page' * PerPage
        /\ UNCHANGED <<table, invItems>>
    BY <1>3, NextPage DEF RequestFails, PagesDiffer, AskForNext, Skip
  <2>2. \A k \in 1..Len(table) : k > page' * PerPage => k > page * PerPage
    BY <2>1 DEF TypeOK
  <2> QED
    BY <2>1, <2>2 DEF Ahead
<1>4. ASSUME Insert PROVE Ahead'
  <2> SUFFICES ASSUME NEW k \in 1..Len(table'), k > page * PerPage, NEW j \in 1..Len(invItems)
               PROVE  invItems[j] < table'[k]
    BY <1>4 DEF Ahead, Insert, call
  <2>1. k \in 1..Len(table) \/ (k = Len(table') /\ table'[k] = lastId + 1)
    BY <1>4, AfterInsert
  <2>2. CASE k \in 1..Len(table)
    BY <1>4, <2>2, AfterInsert DEF Ahead
  <2>3. CASE k = Len(table') /\ table'[k] = lastId + 1
    <3>1. invItems[j] <= lastId /\ invItems[j] \in Nat /\ lastId \in Nat
      BY RowsAreNumbers DEF Given
    <3> QED
      BY <2>3, <3>1
  <2> QED
    BY <2>1, <2>2, <2>3
<1>5. ASSUME NEW place \in 1..Len(table), Remove(place) PROVE Ahead'
  <2> SUFFICES ASSUME NEW k \in 1..Len(table'), k > page * PerPage, NEW j \in 1..Len(invItems)
               PROVE  invItems[j] < table'[k]
    BY <1>5 DEF Ahead, Remove, call
  <2>1. k \in 1..Len(table) /\ k + 1 \in 1..Len(table) /\ k + 1 > page * PerPage
    <3>1. page * PerPage \in Nat
      BY PageSizes DEF TypeOK
    <3> QED
      BY <1>5, <3>1, AfterRemove
  <2>2. invItems[j] < table[k] /\ invItems[j] < table[k + 1]
    BY <2>1 DEF Ahead
  <2> QED
    BY <1>5, <2>2, AfterRemove
<1>6. ASSUME UNCHANGED <<table, page, invItems>> PROVE Ahead'
  BY <1>6 DEF Ahead
<1> QED
  BY <1>1, <1>2, <1>3, <1>4, <1>5, <1>6 DEF Next, Call, Return, Over, vars

-----------------------------------------------------------------------------
(* What is missing. *)

LEMMA NotBegunKept ==
    ASSUME NotBegun, [Next]_vars
    PROVE  NotBegun'
BY DEF NotBegun, Next, Call, FirstPage, AskForNext, TakePage, RequestFails, PagesDiffer,
   Return, Insert, Remove, Running, Over, call, vars

LEMMA EndAfterLastKept ==
    ASSUME IInv, [Next]_vars
    PROVE  EndAfterLast'
<1> USE DEF IInv
<1>1. currPage <= page /\ currPage \in Nat /\ page \in Nat /\ numPages \in Nat
  BY DEF EndAfterLast, TypeOK
<1>2. ASSUME FirstPage PROVE EndAfterLast'
  BY <1>1, <1>2 DEF FirstPage, EndAfterLast
<1>3. ASSUME AskForNext, currPage' = page' \/ UNCHANGED currPage PROVE EndAfterLast'
  <2>1. page <= page' /\ page' \in Nat /\ pc' = "pages"
    BY <1>1, <1>3 DEF AskForNext
  <2> QED
    BY <1>1, <1>3, <2>1 DEF EndAfterLast
<1>4. ASSUME Return PROVE EndAfterLast'
  BY <1>1, <1>4 DEF Return, EndAfterLast
<1>5. ASSUME UNCHANGED <<page, currPage, numPages, pc>> PROVE EndAfterLast'
  BY <1>5 DEF EndAfterLast
<1> QED
  BY <1>2, <1>3, <1>4, <1>5 DEF Next, Call, TakePage, RequestFails, PagesDiffer, Skip,
     Insert, Remove, Over, call, vars

LEMMA WithinPagesKept ==
    ASSUME IInv, [Next]_vars
    PROVE  WithinPages'
<1> USE DEF IInv
<1>1. ASSUME FirstPage PROVE WithinPages'
  <2>1. CASE numPages' = TotalPages
    <3>1. \A k \in 1..Len(table) : k <= numPages' * PerPage
      <4>1. /\ TotalPages \in Nat /\ Len(table) <= TotalPages * PerPage
            /\ Len(table) \in Nat /\ TotalPages * PerPage \in Nat
        BY RowsAreNumbers, TotalPagesHold, PageSizes
      <4> QED
        BY <2>1, <4>1
    <3> QED
      BY <1>1, <3>1 DEF FirstPage, WithinPages
  <2>2. CASE stayed' = {}
    BY <1>1, <2>2 DEF FirstPage, WithinPages
  <2> QED
    BY <1>1, <2>1, <2>2 DEF FirstPage, NotBegun
<1>2. ASSUME Insert PROVE WithinPages'
  <2> SUFFICES ASSUME NEW k \in 1..Len(table'), table'[k] \in stayed
               PROVE  k <= numPages * PerPage
    BY <1>2 DEF WithinPages, Insert, call
  <2>1. lastId + 1 \notin stayed
    <3>1. ASSUME NEW j \in 1..Len(table) PROVE table[j] # lastId + 1
      <4>1. table[j] <= lastId /\ table[j] \in Nat /\ lastId \in Nat
        BY RowsAreNumbers DEF InOrder
      <4> QED
        BY <4>1
    <3> QED
      BY <3>1 DEF TypeOK, RowsOf
  <2>2. k \in 1..Len(table) /\ table'[k] = table[k]
    BY <1>2, <2>1, AfterInsert
  <2> QED
    BY <2>2 DEF WithinPages
<1>3. ASSUME NEW place \in 1..Len(table), Remove(place) PROVE WithinPages'
  <2>0. stayed' \subseteq stayed /\ UNCHANGED numPages
    BY <1>3 DEF Remove, call
  <2> SUFFICES ASSUME NEW k \in 1..Len(table'), table'[k] \in stayed
               PROVE  k <= numPages * PerPage
    BY <2>0 DEF WithinPages
  <2>1. /\ k \in 1..Len(table) /\ k + 1 \in 1..Len(table)
        /\ table'[k] = table[k] \/ table'[k] = table[k + 1]
    BY <1>3, AfterRemove
  <2>2. k <= numPages * PerPage \/ k + 1 <= numPages * PerPage
    BY <2>1 DEF WithinPages
  <2>3. numPages * PerPage \in Nat
    BY PageSizes DEF TypeOK
  <2> QED
    BY <2>2, <2>3
<1>4. ASSUME UNCHANGED <<table, stayed, numPages>> PROVE WithinPages'
  BY <1>4 DEF WithinPages
<1> QED
  BY <1>1, <1>2, <1>3, <1>4 DEF Next, Call, AskForNext, TakePage, RequestFails,
     PagesDiffer, Return, Over, vars

LEMMA LostIsFinite ==
    ASSUME TypeOK
    PROVE  /\ IsFiniteSet(RowsOf(table)) /\ IsFiniteSet(stayed) /\ IsFiniteSet(Lost)
           /\ Cardinality(Lost) \in Nat
<1>1. IsFiniteSet(RowsOf(table))
  <2>1. IsFiniteSet(1..Len(table))
    BY RowsAreNumbers, FS_Interval
  <2>2. table \in [1..Len(table) -> RowsOf(table)]
    BY RowsAreNumbers DEF RowsOf
  <2>3. table \in Surjection(1..Len(table), RowsOf(table))
    BY <2>2 DEF Surjection, RowsOf
  <2> QED
    BY <2>1, <2>3, FS_Surjection
<1>2. IsFiniteSet(stayed)
  BY <1>1, FS_Subset DEF TypeOK
<1>3. IsFiniteSet(Lost)
  BY <1>2, FS_Subset DEF Lost
<1> QED
  BY <1>1, <1>2, <1>3, FS_CardinalityType

\* The rows at the places of one page are no more than a page holds.
LEMMA OnePageOfRows ==
    ASSUME TypeOK, NEW lo \in Nat
    PROVE  LET S == {table[k] : k \in (lo + 1)..(lo + PerPage)}
           IN IsFiniteSet(S) /\ Cardinality(S) \in Nat /\ Cardinality(S) <= PerPage
<1> DEFINE I == (lo + 1)..(lo + PerPage)
           S == {table[k] : k \in I}
           f == [k \in I |-> table[k]]
<1>1. IsFiniteSet(I) /\ Cardinality(I) = PerPage
  BY Numbers, FS_Interval
<1> HIDE DEF I
<1>2. f \in Surjection(I, S)
  BY DEF Surjection
<1>3. IsFiniteSet(S) /\ Cardinality(S) <= Cardinality(I)
  BY <1>1, <1>2, FS_Surjection
<1>4. Cardinality(S) \in Nat
  BY <1>3, FS_CardinalityType
<1> QED
  BY <1>1, <1>3, <1>4 DEF I

\* The losses grow by no more than T.
LEMMA LostGrows ==
    ASSUME TypeOK, NEW T, IsFiniteSet(T), Lost' \subseteq Lost \cup T
    PROVE  /\ Cardinality(Lost') \in Nat
           /\ Cardinality(Lost') <= Cardinality(Lost) + Cardinality(T)
<1>1. /\ IsFiniteSet(Lost) /\ Cardinality(Lost) \in Nat /\ Cardinality(T) \in Nat
      /\ IsFiniteSet(Lost \cap T) /\ Cardinality(Lost \cap T) \in Nat
  BY LostIsFinite, FS_CardinalityType, FS_Intersection
<1>2. /\ IsFiniteSet(Lost \cup T)
      /\ Cardinality(Lost \cup T) = Cardinality(Lost) + Cardinality(T) - Cardinality(Lost \cap T)
  BY <1>1, FS_Union
<1>3. /\ IsFiniteSet(Lost') /\ Cardinality(Lost') <= Cardinality(Lost \cup T)
  BY <1>2, FS_Subset
<1>4. Cardinality(Lost') \in Nat
  BY <1>3, FS_CardinalityType
<1> QED
  BY <1>1, <1>2, <1>3, <1>4

LEMMA FewLostKept ==
    ASSUME IInv, [Next]_vars, TypeOK'
    PROVE  FewLost'
<1> USE DEF IInv
<1> DEFINE Paid == removes + skipped * PerPage
<1>1. /\ Cardinality(Lost) \in Nat /\ Cardinality(Lost) <= Paid
      /\ removes \in Nat /\ skipped \in Nat /\ skipped * PerPage \in Nat
      /\ (skipped + 1) * PerPage = skipped * PerPage + PerPage
      /\ PerPage \in Nat /\ page * PerPage \in Nat
  <2>1. removes \in Nat /\ skipped \in Nat /\ page \in Nat
    BY DEF TypeOK
  <2>2. /\ skipped * PerPage \in Nat /\ page * PerPage \in Nat
        /\ (skipped + 1) * PerPage = skipped * PerPage + PerPage
    BY <2>1, PageSizes
  <2> QED
    BY <2>1, <2>2, LostIsFinite, Numbers DEF FewLost
<1>2. ASSUME Lost' \subseteq Lost, Paid <= Paid' PROVE FewLost'
  <2>1. Cardinality(Lost') \in Nat /\ Cardinality(Lost') <= Cardinality(Lost)
    BY <1>2, LostIsFinite, FS_Subset, FS_CardinalityType
  <2>2. removes' \in Nat /\ skipped' * PerPage \in Nat
    BY PageSizes DEF TypeOK
  <2> QED
    BY <1>1, <1>2, <2>1, <2>2 DEF FewLost
<1>3. ASSUME UNCHANGED <<removes, skipped>> PROVE Paid <= Paid'
  BY <1>1, <1>3
<1>4. ASSUME FirstPage PROVE FewLost'
  <2>1. Lost' = {}
    <3>1. CASE stayed' = {}
      BY <3>1 DEF Lost
    <3>2. CASE invItems' = Entities(page)
      <4>1. page = 1 /\ UNCHANGED <<table, page>>
        BY <1>4 DEF FirstPage, NotBegun
      <4>2. ASSUME NEW k \in 1..Len(table), k <= 1 * PerPage
            PROVE  table[k] \in RowsOf(Entities(1))
        <5>1. 1 * PerPage - PerPage < k
          BY Numbers
        <5>2. table \in Seq(Rows)
          BY RowsAreNumbers
        <5> QED
          BY <4>2, <5>1, <5>2, EntitiesOfPage
      <4> QED
        BY <3>2, <4>1, <4>2 DEF Lost
    <3> QED
      BY <1>4, <3>1, <3>2 DEF FirstPage, NotBegun
  <2> QED
    BY <1>2, <1>3, <1>4, <2>1 DEF FirstPage
<1>5. ASSUME TakePage PROVE FewLost'
  <2>1. table \in Seq(Rows) /\ invItems \in Seq(Rows) /\ Entities(page') \in Seq(Rows)
    BY <1>5, RowsAreNumbers, PageIsAhead DEF TakePage
  <2>2. RowsOf(invItems') = RowsOf(invItems) \cup RowsOf(Entities(page'))
    <3>1. invItems' = invItems \o Entities(page')
      BY <1>5 DEF TakePage
    <3>2. RowsOf(invItems \o Entities(page')) = RowsOf(invItems) \cup RowsOf(Entities(page'))
      BY <2>1, RowsOfConcat
    <3> QED
      BY <3>1, <3>2 DEF RowsOf
  <2>3. ASSUME NEW r \in Lost' PROVE r \in Lost
    <3>1. /\ r \in stayed /\ r \notin RowsOf(invItems) /\ r \notin RowsOf(Entities(page'))
          /\ \E k \in 1..Len(table) : table[k] = r /\ k <= page' * PerPage
      BY <1>5, <2>2 DEF TakePage, AskForNext, Lost
    <3>2. PICK k \in 1..Len(table) : table[k] = r /\ k <= page' * PerPage
      BY <3>1
    <3>3. page' \in Nat \ {0} /\ (page' * PerPage - PerPage = page * PerPage \/ page' = page)
      BY <1>5, NextPage DEF TakePage
    <3>4. ~(page' * PerPage - PerPage < k)
      BY <2>1, <3>1, <3>2, <3>3, EntitiesOfPage
    <3>5. k <= page * PerPage
      <4>1. CASE page' = page
        BY <3>2, <4>1
      <4>2. CASE page' * PerPage - PerPage = page * PerPage
        BY <1>1, <3>4, <4>2
      <4> QED
        BY <3>3, <4>1, <4>2
    <3> QED
      BY <3>1, <3>2, <3>5 DEF Lost
  <2> QED
    BY <1>2, <1>3, <1>5, <2>3 DEF TakePage, AskForNext
<1>6. ASSUME AskForNext, Skip PROVE FewLost'
  <2>1. UNCHANGED <<table, stayed, invItems, removes, numPages>>
    BY <1>6 DEF AskForNext, Skip
  <2>2. CASE page' = page
    <3>1. Lost' = Lost
      BY <2>1, <2>2 DEF Lost
    <3>2. skipped' = skipped \/ skipped' = skipped + 1
      BY <1>6 DEF Skip
    <3> QED
      BY <1>1, <1>2, <2>1, <3>1, <3>2
  <2>3. CASE page' = page + 1 /\ page' <= numPages
    <3> DEFINE lo == page * PerPage
               T == {table[k] : k \in (lo + 1)..(lo + PerPage)}
    <3>1. page' * PerPage = lo + PerPage
      BY <2>3, PageSizes DEF TypeOK
    <3>2. lo \in Nat
      BY <1>1
    <3> HIDE DEF lo
    <3>3. Lost' \subseteq Lost \cup T
      <4> SUFFICES ASSUME NEW r \in Lost', r \notin Lost PROVE r \in T
        OBVIOUS
      <4>1. PICK k \in 1..Len(table) : table[k] = r /\ k <= lo + PerPage
        BY <2>1, <3>1 DEF Lost
      <4>2. ~(k <= lo)
        BY <2>1, <4>1 DEF Lost, lo
      <4>3. k \in (lo + 1)..(lo + PerPage)
        BY <3>2, <4>1, <4>2, Numbers
      <4> QED
        BY <4>1, <4>3
    <3>4. IsFiniteSet(T) /\ Cardinality(T) \in Nat /\ Cardinality(T) <= PerPage
      BY <3>2, OnePageOfRows
    <3> HIDE DEF T
    <3>5. /\ Cardinality(Lost') \in Nat
          /\ Cardinality(Lost') <= Cardinality(Lost) + Cardinality(T)
      BY <3>3, <3>4, LostGrows
    <3>6. skipped' = skipped + 1
      BY <1>6, <2>3 DEF Skip
    <3> QED
      BY <1>1, <2>1, <3>4, <3>5, <3>6 DEF FewLost
  <2>4. CASE page' = page + 1 /\ ~(page' <= numPages)
    <3>1. numPages <= page /\ numPages \in Nat /\ page \in Nat
      BY <2>4 DEF TypeOK
    <3>2. numPages * PerPage <= page * PerPage /\ numPages * PerPage \in Nat
      BY <3>1, PageSizes
    <3>3. ASSUME NEW r \in Lost' PROVE r \in Lost
      <4>1. PICK k \in 1..Len(table) : table[k] = r
        BY <2>1, <3>3 DEF Lost
      <4>2. r \in stayed \ RowsOf(invItems)
        BY <2>1, <3>3 DEF Lost
      <4>3. k <= numPages * PerPage
        BY <4>1, <4>2 DEF WithinPages
      <4>4. k <= page * PerPage
        BY <1>1, <3>2, <4>3
      <4> QED
        BY <4>1, <4>2, <4>4 DEF Lost
    <3>4. UNCHANGED skipped
      BY <1>6, <2>4 DEF Skip
    <3> QED
      BY <1>2, <1>3, <2>1, <3>3, <3>4
  <2> QED
    BY <1>6, <2>2, <2>3, <2>4, NextPage
<1>7. ASSUME Insert PROVE FewLost'
  <2>1. ASSUME NEW r \in Lost' PROVE r \in Lost
    <3>1. r \in stayed \ RowsOf(invItems)
      BY <1>7, <2>1 DEF Insert, Lost, call
    <3>2. PICK k \in 1..Len(table') : table'[k] = r /\ k <= page * PerPage
      BY <1>7, <2>1 DEF Insert, Lost, call
    <3>3. r <= lastId /\ r \in Nat /\ lastId \in Nat
      BY <3>1, RowsAreNumbers DEF InOrder, TypeOK, RowsOf
    <3>4. k \in 1..Len(table) /\ table[k] = r
      BY <1>7, <3>2, <3>3, AfterInsert
    <3> QED
      BY <3>1, <3>2, <3>4 DEF Lost
  <2> QED
    BY <1>2, <1>3, <1>7, <2>1 DEF Insert, call
<1>8. ASSUME NEW place \in 1..Len(table), Remove(place) PROVE FewLost'
  <2> DEFINE T == {table[page * PerPage + 1]}
  <2>1. Lost' \subseteq Lost \cup T
    <3> SUFFICES ASSUME NEW r \in Lost', r \notin T PROVE r \in Lost
      OBVIOUS
    <3>1. r \in stayed \ RowsOf(invItems)
      BY <1>8 DEF Remove, Lost, call
    <3>2. PICK k \in 1..Len(table') : table'[k] = r /\ k <= page * PerPage
      BY <1>8 DEF Remove, Lost, call
    <3>3. /\ k \in 1..Len(table) /\ k + 1 \in 1..Len(table)
          /\ r = table[k] \/ r = table[k + 1]
      BY <1>8, <3>2, AfterRemove
    <3>4. r = table[k + 1] => k + 1 <= page * PerPage
      BY <1>1, <3>2, <3>3
    <3> QED
      BY <3>1, <3>2, <3>3, <3>4 DEF Lost
  <2>2. IsFiniteSet(T) /\ Cardinality(T) = 1
    BY FS_Singleton
  <2> HIDE DEF T
  <2>3. Cardinality(Lost') \in Nat /\ Cardinality(Lost') <= Cardinality(Lost) + 1
    BY <2>1, <2>2, LostGrows
  <2>4. removes' = removes + 1 /\ UNCHANGED skipped
    BY <1>8 DEF Remove, call
  <2> QED
    BY <1>1, <2>3, <2>4 DEF FewLost
<1>9. ASSUME UNCHANGED <<table, page, stayed, invItems, removes, skipped>> PROVE FewLost'
  BY <1>9 DEF FewLost, Lost
<1> QED
  BY <1>4, <1>5, <1>6, <1>7, <1>8, <1>9 DEF Next, Call, RequestFails, PagesDiffer, Return,
     Over, vars

-----------------------------------------------------------------------------
(* The theorems. *)

LEMMA InitInvariant == Init => IInv
<1> SUFFICES ASSUME Init PROVE IInv
  OBVIOUS
<1> USE DEF Init
<1>1. PICK n \in 0..MaxRows : table = [k \in 1..n |-> k] /\ lastId = n
  OBVIOUS
<1>2. /\ n \in Nat /\ n <= MaxRows + MaxInserts /\ table \in Seq(1..(MaxRows + MaxInserts))
      /\ Len(table) = n /\ \A k \in 1..n : table[k] = k
  BY <1>1, Numbers
<1>3. TypeOK
  <2>1. lastId \in 0..(MaxRows + MaxInserts)
    BY <1>1, <1>2, Numbers
  <2>2. page \in 1..MaxPage /\ currPage \in 0..MaxPage
    BY SeveralPages
  <2> QED
    BY <1>2, <2>1, <2>2 DEF TypeOK
<1>4. InOrder
  BY <1>1, <1>2 DEF InOrder
<1>5. CollectedInOrder /\ Given /\ Ahead /\ NotBegun /\ WithinPages /\ EndAfterLast
  BY DEF CollectedInOrder, Given, Ahead, NotBegun, WithinPages, EndAfterLast
<1>6. FewLost
  <2>1. Lost = {} /\ skipped * PerPage \in Nat
    BY PageSizes DEF Lost
  <2> QED
    BY <2>1, FS_EmptySet DEF FewLost
<1> QED
  BY <1>3, <1>4, <1>5, <1>6 DEF IInv

LEMMA NextInvariant == IInv /\ [Next]_vars => IInv'
<1> SUFFICES ASSUME IInv, [Next]_vars PROVE IInv'
  OBVIOUS
<1>1. TypeOK' /\ InOrder'
  BY TypeKept, InOrderKept DEF IInv
<1>2. CollectedInOrder' /\ Given' /\ Ahead'
  BY CollectedKept, GivenKept, AheadKept
<1>3. NotBegun' /\ WithinPages' /\ EndAfterLast' /\ FewLost'
  BY <1>1, NotBegunKept, WithinPagesKept, EndAfterLastKept, FewLostKept DEF IInv
<1> QED
  BY <1>1, <1>2, <1>3 DEF IInv

\* Every step of _execute_paged_query and every change of the table under it keeps
\* the order and the count of what was missed.
THEOREM InvariantHolds == Spec => []IInv
BY InitInvariant, NextInvariant, PTL DEF Spec

\* The variables of the call and of Sonar's table keep their types.
THEOREM TypesHold == Spec => []TypeOK
<1>1. IInv => TypeOK
  BY DEF IInv
<1> QED
  BY <1>1, InvariantHolds, PTL

\* What _execute_paged_query has collected is in the order of the rows' ids, so that
\* no row is in it twice, however the table changed between two pages.
THEOREM NoRowIsTwice == Spec => []NoRowTwice
<1>1. IInv => NoRowTwice
  <2> SUFFICES ASSUME IInv, NEW k \in 1..(Len(invItems) - 1)
               PROVE  invItems[k] < invItems[k + 1]
    BY DEF NoRowTwice
  <2>1. k \in 1..Len(invItems) /\ k + 1 \in 1..Len(invItems) /\ k < k + 1
    BY RowsAreNumbers DEF IInv
  <2> QED
    BY <2>1 DEF IInv, CollectedInOrder
<1> QED
  BY <1>1, InvariantHolds, PTL

\* A row that was there all the time is missing from what _execute_paged_query returns
\* only at the expense of a removal, which hides at most one, or of a skipped page.
THEOREM FewAreMissing == Spec => []FewMissing
<1>1. IInv => FewMissing
  <2> SUFFICES ASSUME IInv, pc = "returned"
               PROVE  Cardinality(stayed \ RowsOf(invItems)) <= removes + skipped * PerPage
    BY DEF FewMissing
  <2>1. numPages <= page /\ numPages \in Nat /\ page \in Nat
    BY DEF IInv, EndAfterLast, TypeOK
  <2>2. /\ numPages * PerPage <= page * PerPage
        /\ numPages * PerPage \in Nat /\ page * PerPage \in Nat
    BY <2>1, PageSizes
  <2>3. ASSUME NEW r \in stayed \ RowsOf(invItems) PROVE r \in Lost
    <3>1. PICK k \in 1..Len(table) : table[k] = r
      BY <2>3 DEF IInv, TypeOK, RowsOf
    <3>2. k <= numPages * PerPage
      BY <2>3, <3>1 DEF IInv, WithinPages
    <3>3. k <= page * PerPage
      BY <2>2, <3>2
    <3> QED
      BY <2>3, <3>1, <3>3 DEF Lost
  <2>4. Lost = stayed \ RowsOf(invItems)
    BY <2>3 DEF Lost
  <2> QED
    BY <2>4 DEF IInv, FewLost
<1> QED
  BY <1>1, InvariantHolds, PTL
=============================================================================
