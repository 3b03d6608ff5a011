---------------------------- MODULE MergeSetProofs ----------------------------
(***************************************************************************)
(* Proofs about MergeSet, for any items, any number of calls of add and    *)
(* any number of items changed inside the set.                             *)
(*                                                                         *)
(* While add runs, the element found (mine) is not like the others: it may *)
(* have come to share identifiers with some of them.  Whatever it shares   *)
(* with an element of the set it shares because of add's argument          *)
(* (SharedByElement), so each element that is absorbed brings back one of  *)
(* the argument's identifiers.  An item changed inside the set is filed    *)
(* under fewer identifiers than it has, and never under another's (Filed,  *)
(* FiledApart), so that removing an element removes it or nothing.         *)
(***************************************************************************)
EXTENDS MergeSet, TLAPS

-----------------------------------------------------------------------------
(* The inductive invariant. *)

Merging == pc \in {"merge", "search", "raised"}

\* The elements that add does not work on.
Settled == {n \in stored : Merging => n.obj # mine}

InMemory ==
    /\ pc # "idle" => element \in 1..Len(heap)
    /\ Merging => mine \in 1..Len(heap)
    /\ pc = "merge" => current \in 1..Len(heap)

OneEntryEach == \A m, n \in stored : m.obj = n.obj => m = n

Apart == \A m, n \in Settled : m # n => ~Same(m.obj, n.obj)

Filed == \A n \in Settled : n.hash \subseteq KeysOf(n.obj)

FiledApart == \A m \in stored, n \in Settled : m # n => m.hash \cap KeysOf(n.obj) = {}

\* What was added can be found by what mine has, and what mine shares with others
\* comes from it.
FoundByMine ==
    /\ pc = "merge" => Same(current, element)
    /\ pc = "search" => Same(mine, element)

SharedByElement == \A n \in Settled :
    /\ pc \in {"merge", "search"} => KeysOf(n.obj) \cap KeysOf(mine) \subseteq KeysOf(element)
    /\ pc = "merge" => KeysOf(n.obj) \cap KeysOf(current) \subseteq KeysOf(element)

\* As long as nobody changes an element.
NotRekeyed == rekeys = 0 => /\ \A n \in stored : n.hash = KeysOf(n.obj)
                            /\ Settled = stored

Shape == /\ TypeOK /\ InMemory /\ OneEntryEach /\ Apart /\ Filed /\ FiledApart
         /\ FoundByMine /\ SharedByElement /\ NotRekeyed /\ LastFound

-----------------------------------------------------------------------------
(* The same for the partition of the identifiers. *)

AllSound == rekeys = 0 /\ \A i \in given : Sound(i)

\* Where an item's identifiers are while add works.
Holders == {n.obj : n \in stored}
           \cup (IF pc = "find" THEN {element} ELSE {})
           \cup (IF pc \in {"merge", "search"} THEN {mine} ELSE {})
           \cup (IF pc = "merge" THEN {current} ELSE {})

\* No part of K that the items in G do not join to the rest of it.
Connected(K, G) == \A S \in SUBSET K : S \notin {{}, K} =>
    \E i \in G : Keys(i) \cap S # {} /\ (Keys(i) \cap K) \ S # {}

OnlySound == \A o \in 1..Len(heap) : Sound(heap[o])

AllHeld == \A i \in given : Keys(i) # {} => \E o \in Holders : Keys(i) \subseteq KeysOf(o)

AllConnected == \A o \in Holders : Connected(KeysOf(o), given)

MergesEqual == pc = "merge" => Same(mine, current)

Parted == AllSound /\ pc # "raised" => OnlySound /\ AllHeld /\ AllConnected /\ MergesEqual

IInv == Shape /\ Parted

-----------------------------------------------------------------------------
(* Items. *)

LEMMA KeysAreValues == ASSUME NEW i PROVE Keys(i) \subseteq Values
BY DEF Keys

LEMMA OverwriteIsItem ==
    ASSUME NEW m \in Item, NEW i \in Item
    PROVE  Overwrite(m, i) \in Item
BY DEF Overwrite, Item

\* Merging keeps all of the argument's keys and makes none up.
LEMMA OverwriteKeys ==
    ASSUME NEW m \in Item, NEW i \in Item
    PROVE  /\ Keys(i) \subseteq Keys(Overwrite(m, i))
           /\ Keys(Overwrite(m, i)) \subseteq Keys(m) \cup Keys(i)
<1> DEFINE r == Overwrite(m, i)
<1>1. ASSUME NEW v \in Keys(i) PROVE v \in Keys(r)
  <2>1. PICK f \in Fields : v = i[f]
    BY DEF Keys
  <2>2. r[f] = v /\ v \in Values
    BY <2>1, ValuesAssumption DEF Overwrite, Keys
  <2> QED
    BY <2>2 DEF Keys
<1>2. ASSUME NEW v \in Keys(r) PROVE v \in Keys(m) \cup Keys(i)
  <2>1. PICK f \in Fields : v = r[f]
    BY DEF Keys
  <2>2. v \in Values /\ (v = m[f] \/ v = i[f])
    BY <2>1 DEF Overwrite, Keys
  <2> QED
    BY <2>2 DEF Keys
<1> QED
  BY <1>1, <1>2

\* Of parts of one device nothing is overwritten.
LEMMA SoundOverwrite ==
    ASSUME NEW m \in Item, NEW i \in Item, Sound(m), Sound(i), Keys(m) \cap Keys(i) # {}
    PROVE  Sound(Overwrite(m, i)) /\ Keys(Overwrite(m, i)) = Keys(m) \cup Keys(i)
<1>1. PICK d \in Devices : \A f \in Fields : m[f] \in {Absent, d[f]}
  BY DEF Sound
<1>2. PICK e \in Devices : \A f \in Fields : i[f] \in {Absent, e[f]}
  BY DEF Sound
<1>3. d = e
  <2>1. PICK f \in Fields, g \in Fields : m[f] = i[g] /\ m[f] \in Values
    BY DEF Keys
  <2>2. d[f] = e[g]
    BY <1>1, <1>2, <2>1, ValuesAssumption
  <2> QED
    BY <2>2, DevicesAssumption
<1>4. \A f \in Fields : Overwrite(m, i)[f] \in {Absent, d[f]}
  BY <1>1, <1>2, <1>3 DEF Overwrite
<1>5. ASSUME NEW v \in Keys(m) PROVE v \in Keys(Overwrite(m, i))
  <2>1. PICK f \in Fields : v = m[f]
    BY DEF Keys
  <2>2. v = d[f] /\ v \in Values
    BY <1>1, <2>1, ValuesAssumption DEF Keys
  <2>3. Overwrite(m, i)[f] = v
    BY <1>2, <1>3, <2>1, <2>2 DEF Overwrite
  <2> QED
    BY <2>2, <2>3 DEF Keys
<1> QED
  BY <1>4, <1>5, OverwriteKeys DEF Sound

LEMMA StoredTypes ==
    ASSUME TypeOK, NEW n \in stored
    PROVE  n.obj \in 1..Len(heap) /\ n.hash \subseteq Values /\ n.hash # {}
<1> DEFINE H == (SUBSET Values) \ {{}}
<1>1. n \in [obj : 1..Len(heap), hash : H]
  BY DEF TypeOK
<1> HIDE DEF H
<1>2. n.obj \in 1..Len(heap) /\ n.hash \in H
  BY <1>1
<1> QED
  BY <1>2 DEF H

LEMMA HeapTypes ==
    ASSUME TypeOK
    PROVE  heap \in Seq(Item) /\ Len(heap) \in Nat /\ \A o \in 1..Len(heap) : heap[o] \in Item
<1>1. heap \in Seq(Item)
  BY DEF TypeOK
<1> QED
  BY <1>1

\* What is in memory is not changed by a new item.
LEMMA AddKeepsHeap ==
    ASSUME TypeOK, NEW i \in Inputs, Add(i)
    PROVE  /\ heap' \in Seq(Item) /\ Len(heap') = Len(heap) + 1
           /\ heap'[Len(heap) + 1] = i
           /\ \A o \in 1..Len(heap) : heap'[o] = heap[o] /\ KeysOf(o)' = KeysOf(o)
<1>1. heap \in Seq(Item) /\ i \in Item /\ heap' = Append(heap, i)
  BY InputsAssumption, HeapTypes DEF Add
<1>2. /\ heap' \in Seq(Item) /\ Len(heap') = Len(heap) + 1
      /\ heap'[Len(heap) + 1] = i
      /\ \A o \in 1..Len(heap) : heap'[o] = heap[o]
  BY <1>1
<1> QED
  BY <1>2 DEF KeysOf

-----------------------------------------------------------------------------
(* The actions, one by one. *)

LEMMA AddKeepsShape ==
    ASSUME Shape, NEW i \in Inputs, Add(i)
    PROVE  Shape'
<1> USE DEF Shape
<1>1. /\ pc = "idle" /\ pc' = "find" /\ element' = Len(heap) + 1
      /\ UNCHANGED <<stored, mine, current, rekeys>> /\ given' = given \cup {i}
  BY DEF Add
<1>2. /\ Len(heap) \in Nat /\ heap' \in Seq(Item) /\ Len(heap') = Len(heap) + 1
      /\ \A o \in 1..Len(heap) : KeysOf(o)' = KeysOf(o)
  BY HeapTypes, AddKeepsHeap
<1>3. TypeOK'
  <2>1. 1..Len(heap) \subseteq 1..Len(heap') /\ 0..Len(heap) \subseteq 0..Len(heap')
        /\ element' \in 0..Len(heap')
    BY <1>1, <1>2
  <2>2. stored \subseteq [obj : 1..Len(heap'), hash : (SUBSET Values) \ {{}}]
    BY <2>1 DEF TypeOK
  <2> QED
    BY <1>1, <1>2, <2>1, <2>2 DEF TypeOK
<1>4. InMemory'
  BY <1>1, <1>2 DEF InMemory, Merging
<1>5. Settled' = stored /\ Settled = stored
  BY <1>1 DEF Settled, Merging
<1>6. \A n \in stored : KeysOf(n.obj)' = KeysOf(n.obj)
  BY <1>2, StoredTypes
<1>7. OneEntryEach' /\ Apart' /\ Filed' /\ FiledApart' /\ NotRekeyed'
  BY <1>1, <1>5, <1>6 DEF OneEntryEach, Apart, Filed, FiledApart, NotRekeyed, Same
<1>8. FoundByMine' /\ SharedByElement' /\ LastFound'
  BY <1>1 DEF FoundByMine, SharedByElement, LastFound
<1> QED
  BY <1>3, <1>4, <1>7, <1>8

LEMMA AddStoredKeepsShape ==
    ASSUME Shape, NEW n \in stored, AddStored(n)
    PROVE  Shape'
<1> USE DEF Shape
<1>1. /\ pc = "idle" /\ pc' = "find" /\ element' \in 1..Len(heap)
      /\ UNCHANGED <<heap, stored, mine, current, given, rekeys>>
  BY StoredTypes DEF AddStored
<1>2. TypeOK' /\ InMemory'
  BY <1>1, HeapTypes DEF TypeOK, InMemory, Merging
<1>3. Settled' = stored /\ Settled = stored
  BY <1>1 DEF Settled, Merging
<1>4. OneEntryEach' /\ Apart' /\ Filed' /\ FiledApart' /\ NotRekeyed'
  BY <1>1, <1>3 DEF OneEntryEach, Apart, Filed, FiledApart, NotRekeyed, Same, KeysOf
<1>5. FoundByMine' /\ SharedByElement' /\ LastFound'
  BY <1>1 DEF FoundByMine, SharedByElement, LastFound
<1> QED
  BY <1>2, <1>4, <1>5

LEMMA AddNothingKeepsShape ==
    ASSUME Shape, AddNothing
    PROVE  Shape'
<1> USE DEF Shape
<1>1. /\ pc = "find" /\ pc' = "idle" /\ KeysOf(element) = {}
      /\ UNCHANGED <<heap, stored, element, mine, current, given, rekeys>>
  BY DEF AddNothing
<1>2. TypeOK' /\ InMemory'
  BY <1>1 DEF TypeOK, InMemory, Merging
<1>3. Settled' = stored /\ Settled = stored
  BY <1>1 DEF Settled, Merging
<1>4. OneEntryEach' /\ Apart' /\ Filed' /\ FiledApart' /\ NotRekeyed'
  BY <1>1, <1>3 DEF OneEntryEach, Apart, Filed, FiledApart, NotRekeyed, Same, KeysOf
<1>5. FoundByMine' /\ SharedByElement' /\ LastFound'
  BY <1>1 DEF FoundByMine, SharedByElement, LastFound, KeysOf
<1> QED
  BY <1>2, <1>4, <1>5

\* Removing an element removes it or nothing, also when it was changed in the set.
LEMMA SlotsAreTheElement ==
    ASSUME Shape, NEW n \in Settled
    PROVE  /\ Slots(n.obj) \subseteq {n}
           /\ rekeys = 0 => Slots(n.obj) = {n}
<1>1. n \in stored /\ Settled \subseteq stored
  BY DEF Settled
<1>2. ASSUME NEW s \in Slots(n.obj) PROVE s = n
  <2>1. s \in stored /\ s.hash = KeysOf(n.obj)
    BY DEF Slots
  <2>2. s.hash \cap KeysOf(n.obj) # {}
    BY <2>1, StoredTypes DEF Shape
  <2> QED
    BY <2>1, <2>2 DEF Shape, FiledApart
<1>3. rekeys = 0 => n \in Slots(n.obj)
  BY <1>1 DEF Shape, NotRekeyed, Slots
<1> QED
  BY <1>2, <1>3

LEMMA FindOldKeepsShape ==
    ASSUME Shape, NEW n \in stored, FindOld(n)
    PROVE  Shape'
<1> USE DEF Shape
<1>1. /\ pc = "find" /\ pc' = "merge" /\ mine' = n.obj /\ current' = element
      /\ UNCHANGED <<heap, element, given, rekeys>> /\ Same(n.obj, element)
  BY DEF FindOld, Matches
<1>2. Settled = stored
  BY <1>1 DEF Settled, Merging
<1>3. /\ stored' = stored \/ stored' = stored \ {n}
      /\ rekeys = 0 => stored' = stored \ {n}
  BY <1>2, SlotsAreTheElement DEF FindOld
<1>4. Settled' = stored \ {n}
  <2>1. Settled' = {m \in stored' : m.obj # n.obj}
    BY <1>1 DEF Settled, Merging
  <2> QED
    BY <1>3, <2>1 DEF OneEntryEach
<1>5. n.obj \in 1..Len(heap) /\ element \in 1..Len(heap)
  BY <1>1, StoredTypes DEF InMemory
<1>6. TypeOK' /\ InMemory'
  BY <1>1, <1>3, <1>5, HeapTypes DEF TypeOK, InMemory, Merging
<1>7. \A m \in stored : KeysOf(m.obj)' = KeysOf(m.obj)
  BY <1>1 DEF KeysOf
<1>8. OneEntryEach' /\ Apart' /\ Filed' /\ FiledApart'
  BY <1>2, <1>3, <1>4, <1>7 DEF OneEntryEach, Apart, Filed, FiledApart, Same
<1>9. FoundByMine'
  BY <1>1 DEF FoundByMine, Same, KeysOf
<1>10. SharedByElement'
  <2>1. ASSUME NEW m \in stored \ {n} PROVE KeysOf(m.obj) \cap KeysOf(n.obj) = {}
    BY <1>2 DEF Apart, Same
  <2>2. KeysOf(mine)' = KeysOf(n.obj) /\ KeysOf(current)' = KeysOf(element)
        /\ KeysOf(element)' = KeysOf(element)
    BY <1>1 DEF KeysOf
  <2> QED
    BY <1>1, <1>4, <1>7, <2>1, <2>2 DEF SharedByElement
<1>11. NotRekeyed' /\ LastFound'
  BY <1>1, <1>3, <1>4, <1>7 DEF NotRekeyed, LastFound
<1> QED
  BY <1>6, <1>8, <1>9, <1>10, <1>11

\* What Merge changes in memory.
LEMMA MergedKeys ==
    ASSUME Shape, Merge
    PROVE  /\ heap' \in Seq(Item) /\ Len(heap') = Len(heap)
           /\ heap'[mine] = Overwrite(heap[mine], heap[current])
           /\ KeysOf(current) \subseteq KeysOf(mine)'
           /\ KeysOf(mine)' \subseteq KeysOf(mine) \cup KeysOf(current)
           /\ \A o \in 1..Len(heap) \ {mine} : heap'[o] = heap[o] /\ KeysOf(o)' = KeysOf(o)
<1> DEFINE r == Overwrite(heap[mine], heap[current])
<1>1. /\ mine \in 1..Len(heap) /\ current \in 1..Len(heap) /\ mine' = mine
      /\ heap' = [heap EXCEPT ![mine] = r]
  BY DEF Merge, Shape, InMemory, Merging
<1>2. heap \in Seq(Item) /\ heap[mine] \in Item /\ heap[current] \in Item
  BY <1>1, HeapTypes DEF Shape
<1>3. r \in Item
  BY <1>2, OverwriteIsItem
<1>4. Keys(heap[current]) \subseteq Keys(r)
      /\ Keys(r) \subseteq Keys(heap[mine]) \cup Keys(heap[current])
  BY <1>2, OverwriteKeys
<1> HIDE DEF r
<1>5. /\ heap' \in Seq(Item) /\ Len(heap') = Len(heap) /\ heap'[mine] = r
      /\ \A o \in 1..Len(heap) \ {mine} : heap'[o] = heap[o]
  BY <1>1, <1>2, <1>3
<1> QED
  BY <1>1, <1>4, <1>5 DEF KeysOf, r

LEMMA MergeKeepsShape ==
    ASSUME Shape, Merge
    PROVE  Shape'
<1> USE DEF Shape
<1>1. /\ pc = "merge" /\ pc' = "search"
      /\ UNCHANGED <<stored, element, mine, current, given, rekeys>>
      /\ mine \in 1..Len(heap) /\ current \in 1..Len(heap) /\ element \in 1..Len(heap)
  BY DEF Merge, InMemory, Merging
<1>2. /\ heap' \in Seq(Item) /\ Len(heap') = Len(heap)
      /\ KeysOf(current) \subseteq KeysOf(mine)'
      /\ KeysOf(mine)' \subseteq KeysOf(mine) \cup KeysOf(current)
      /\ \A o \in 1..Len(heap) \ {mine} : KeysOf(o)' = KeysOf(o)
  BY MergedKeys
<1>3. Settled' = Settled /\ Settled \subseteq stored
  BY <1>1 DEF Settled, Merging
<1>4. \A n \in Settled : n.obj \in 1..Len(heap) \ {mine} /\ KeysOf(n.obj)' = KeysOf(n.obj)
  BY <1>1, <1>2, StoredTypes DEF Settled, Merging
<1>5. TypeOK' /\ InMemory'
  BY <1>1, <1>2 DEF TypeOK, InMemory, Merging
<1>6. OneEntryEach' /\ Apart' /\ Filed' /\ FiledApart' /\ NotRekeyed'
  <2>1. OneEntryEach' /\ Apart'
    BY <1>1, <1>3, <1>4 DEF OneEntryEach, Apart, Same
  <2>2. Filed' /\ FiledApart'
    BY <1>1, <1>3, <1>4 DEF Filed, FiledApart
  <2>3. NotRekeyed'
    BY <1>1, <1>3, <1>4 DEF NotRekeyed
  <2> QED
    BY <2>1, <2>2, <2>3
<1>7. FoundByMine'
  <2>1. KeysOf(current) \cap KeysOf(element) # {}
    BY <1>1 DEF FoundByMine, Same
  <2>2. CASE element = mine
    BY <1>1, <1>2, <2>1, <2>2 DEF FoundByMine, Same
  <2>3. CASE element # mine
    <3>1. KeysOf(element)' = KeysOf(element)
      BY <1>1, <1>2, <2>3
    <3> QED
      BY <1>1, <1>2, <2>1, <3>1 DEF FoundByMine, Same
  <2> QED
    BY <2>2, <2>3
<1>8. SharedByElement'
  <2>1. CASE element = mine
    BY <1>1, <2>1 DEF SharedByElement
  <2>2. CASE element # mine
    <3>1. KeysOf(element)' = KeysOf(element)
      BY <1>1, <1>2, <2>2
    <3>2. \A n \in Settled : /\ KeysOf(n.obj) \cap KeysOf(mine) \subseteq KeysOf(element)
                             /\ KeysOf(n.obj) \cap KeysOf(current) \subseteq KeysOf(element)
      BY <1>1 DEF SharedByElement
    <3>3. \A n \in Settled : KeysOf(n.obj)' \cap KeysOf(mine)' \subseteq KeysOf(element)'
      BY <1>2, <1>4, <3>1, <3>2
    <3> QED
      BY <1>1, <1>3, <3>3 DEF SharedByElement
  <2> QED
    BY <2>1, <2>2
<1>9. LastFound'
  BY <1>1 DEF LastFound
<1> QED
  BY <1>5, <1>6, <1>7, <1>8, <1>9

LEMMA AbsorbKeepsShape ==
    ASSUME Shape, NEW n \in stored, Absorb(n)
    PROVE  Shape'
<1> USE DEF Shape
<1>1. /\ pc = "search" /\ current' = n.obj /\ Same(n.obj, mine)
      /\ UNCHANGED <<heap, element, mine, given, rekeys>>
  BY DEF Absorb, Matches
<1>2. Merging /\ Settled = {m \in stored : m.obj # mine} /\ n.obj \in 1..Len(heap)
  BY <1>1, StoredTypes DEF Settled, Merging
<1>3. \A o : KeysOf(o)' = KeysOf(o)
  BY <1>1 DEF KeysOf
<1>4. CASE pc' = "raised" /\ stored' = stored
  <2>1. Settled' = Settled
    BY <1>1, <1>2, <1>4 DEF Settled, Merging
  <2>2. TypeOK' /\ InMemory'
    BY <1>1, <1>2, <1>4, HeapTypes DEF TypeOK, InMemory, Merging
  <2>3. OneEntryEach' /\ Apart' /\ Filed' /\ FiledApart' /\ NotRekeyed'
    BY <1>1, <1>3, <1>4, <2>1 DEF OneEntryEach, Apart, Filed, FiledApart, NotRekeyed, Same
  <2>4. FoundByMine' /\ SharedByElement' /\ LastFound'
    BY <1>4 DEF FoundByMine, SharedByElement, LastFound
  <2> QED
    BY <2>2, <2>3, <2>4
<1>5. ASSUME pc' = "merge", NEW s \in Slots(n.obj), stored' = stored \ {s}
      PROVE  Shape'
  <2>1. Settled' = Settled \ {s} /\ stored' \subseteq stored
    BY <1>1, <1>2, <1>5 DEF Settled, Merging
  <2>2. TypeOK' /\ InMemory'
    BY <1>1, <1>2, <1>5, <2>1, HeapTypes DEF TypeOK, InMemory, Merging
  <2>3. OneEntryEach' /\ Apart' /\ Filed' /\ FiledApart'
    BY <1>1, <1>3, <2>1 DEF OneEntryEach, Apart, Filed, FiledApart, Same
  <2>4. NotRekeyed'
    BY <1>1, <1>3, <1>5, <2>1 DEF NotRekeyed
  <2>5. /\ Same(mine, element)
        /\ \A m \in Settled : KeysOf(m.obj) \cap KeysOf(mine) \subseteq KeysOf(element)
    BY <1>1 DEF FoundByMine, SharedByElement
  <2>6. Same(n.obj, element)
        /\ \A m \in Settled \ {s} : KeysOf(m.obj) \cap KeysOf(n.obj) \subseteq KeysOf(element)
    <3>1. CASE n.obj = mine
      BY <2>5, <3>1
    <3>2. CASE n.obj # mine
      <4>1. n \in Settled /\ s = n
        BY <1>2, <3>2, SlotsAreTheElement
      <4>2. \A m \in Settled \ {s} : KeysOf(m.obj) \cap KeysOf(n.obj) = {}
        BY <4>1 DEF Apart, Same
      <4>3. KeysOf(n.obj) \cap KeysOf(mine) \subseteq KeysOf(element)
        BY <2>5, <4>1
      <4> QED
        BY <1>1, <4>2, <4>3 DEF Same
    <3> QED
      BY <3>1, <3>2
  <2>7. FoundByMine' /\ LastFound'
    BY <1>1, <1>3, <1>5, <2>6 DEF FoundByMine, LastFound, Same
  <2>8. SharedByElement'
    BY <1>1, <1>3, <1>5, <2>1, <2>5, <2>6 DEF SharedByElement
  <2> QED
    BY <2>2, <2>3, <2>4, <2>7, <2>8
<1> QED
  BY <1>4, <1>5 DEF Absorb

\* The item o goes into the set at the end of a call, nothing in it being equal.
LEMMA PutInKeepsShape ==
    ASSUME Shape, NEW o \in 1..Len(heap), KeysOf(o) # {}, Same(o, element), Matches(o) = {},
           pc \in {"find", "search"}, Merging => o = mine,
           stored' = stored \cup {Entry(o)}, pc' = "idle",
           UNCHANGED <<heap, element, mine, current, given, rekeys>>
    PROVE  Shape'
<1> USE DEF Shape
<1>1. \A n \in stored : KeysOf(n.obj) \cap KeysOf(o) = {} /\ n.obj # o
  BY DEF Matches, Same
<1>2. Settled = stored /\ Settled' = stored'
  BY <1>1 DEF Settled, Merging
<1>3. Entry(o).obj = o /\ Entry(o).hash = KeysOf(o)
  BY DEF Entry
<1>4. \A p : KeysOf(p)' = KeysOf(p)
  BY DEF KeysOf
<1>5. TypeOK' /\ InMemory'
  <2>1. KeysOf(o) \in (SUBSET Values) \ {{}}
    BY KeysAreValues DEF KeysOf
  <2>2. Entry(o) \in [obj : 1..Len(heap), hash : (SUBSET Values) \ {{}}]
    BY <2>1 DEF Entry
  <2>3. stored' \subseteq [obj : 1..Len(heap'), hash : (SUBSET Values) \ {{}}]
    BY <2>2 DEF TypeOK
  <2> QED
    BY <2>3 DEF TypeOK, InMemory, Merging
<1>6. OneEntryEach' /\ Apart'
  BY <1>1, <1>2, <1>3, <1>4 DEF OneEntryEach, Apart, Same
<1>7. Filed' /\ FiledApart'
  <2>1. \A n \in stored : n.hash \subseteq KeysOf(n.obj) /\ n.hash \cap KeysOf(o) = {}
    BY <1>1, <1>2 DEF Filed
  <2>2. Filed'
    BY <1>2, <1>3, <1>4, <2>1 DEF Filed
  <2>3. ASSUME NEW m \in stored \cup {Entry(o)}, NEW n \in stored \cup {Entry(o)}, m # n
        PROVE  m.hash \cap KeysOf(n.obj) = {}
    <3>1. CASE m \in stored /\ n \in stored
      BY <1>2, <2>3, <3>1 DEF FiledApart
    <3>2. CASE m \in stored /\ n = Entry(o)
      BY <1>3, <2>1, <3>2
    <3>3. CASE m = Entry(o) /\ n \in stored
      BY <1>1, <1>3, <3>3
    <3> QED
      BY <2>3, <3>1, <3>2, <3>3
  <2> QED
    BY <1>2, <1>4, <2>2, <2>3 DEF FiledApart
<1>8. NotRekeyed'
  BY <1>2, <1>3, <1>4 DEF NotRekeyed
<1>9. FoundByMine' /\ SharedByElement'
  BY DEF FoundByMine, SharedByElement
<1>10. LastFound'
  BY <1>3, <1>4 DEF LastFound, Matches, Same
<1> QED
  BY <1>5, <1>6, <1>7, <1>8, <1>9, <1>10

LEMMA AddNewKeepsShape ==
    ASSUME Shape, AddNew
    PROVE  Shape'
<1>1. element \in 1..Len(heap) /\ Same(element, element) /\ ~Merging
  BY DEF AddNew, Shape, InMemory, Merging, Same
<1> QED
  BY <1>1, PutInKeepsShape DEF AddNew

LEMMA PutBackKeepsShape ==
    ASSUME Shape, PutBack
    PROVE  Shape'
<1>1. mine \in 1..Len(heap) /\ Same(mine, element) /\ KeysOf(mine) # {}
  BY DEF PutBack, Shape, InMemory, FoundByMine, Merging, Same
<1> QED
  BY <1>1, PutInKeepsShape DEF PutBack

LEMMA CreateItemKeepsShape ==
    ASSUME Shape, NEW n \in stored, NEW v \in SonarIds, CreateItem(n, v)
    PROVE  Shape'
<1> USE DEF Shape
<1> DEFINE p == n.obj
           i == [heap[p] EXCEPT ![SonarId] = v]
<1>1. /\ pc = "idle" /\ rekeys < MaxRekeys /\ rekeys' = rekeys + 1
      /\ UNCHANGED <<stored, pc, element, mine, current, given>>
      /\ heap' = [heap EXCEPT ![p] = i] /\ heap[p][SonarId] \notin Values
      /\ \A o \in 1..Len(heap) : v \notin KeysOf(o)
  BY DEF CreateItem
<1>2. p \in 1..Len(heap) /\ heap \in Seq(Item) /\ heap[p] \in Item /\ v \in Values
  BY StoredTypes, HeapTypes, ValuesAssumption
<1>3. i \in Item
  BY <1>2 DEF Item
<1>4. Keys(i) = Keys(heap[p]) \cup {v}
  <2>1. \A f \in Fields : i[f] = IF f = SonarId THEN v ELSE heap[p][f]
    BY <1>2 DEF Item
  <2>2. ASSUME NEW w \in Keys(i) PROVE w \in Keys(heap[p]) \cup {v}
    BY <2>1 DEF Keys
  <2>3. ASSUME NEW w \in Keys(heap[p]) PROVE w \in Keys(i)
    <3>1. PICK f \in Fields : w = heap[p][f]
      BY DEF Keys
    <3>2. w \in Values /\ f # SonarId
      BY <1>1, <3>1 DEF Keys
    <3>3. i[f] = w
      BY <2>1, <3>1, <3>2
    <3> QED
      BY <3>2, <3>3 DEF Keys
  <2>4. v \in Keys(i)
    BY <1>2, <2>1, FieldsAssumption DEF Keys
  <2> QED
    BY <2>2, <2>3, <2>4
<1> HIDE DEF i
<1>5. /\ heap' \in Seq(Item) /\ Len(heap') = Len(heap) /\ heap'[p] = i
      /\ \A o \in 1..Len(heap) \ {p} : heap'[o] = heap[o]
  BY <1>1, <1>2, <1>3
<1>6. /\ KeysOf(p)' = KeysOf(p) \cup {v}
      /\ \A o \in 1..Len(heap) \ {p} : KeysOf(o)' = KeysOf(o)
  BY <1>4, <1>5 DEF KeysOf
<1>7. Settled = stored /\ Settled' = stored /\ ~Merging /\ ~Merging'
  BY <1>1 DEF Settled, Merging
<1>8. \A m \in stored : /\ m.obj \in 1..Len(heap) /\ v \notin KeysOf(m.obj)
                        /\ KeysOf(m.obj) \subseteq KeysOf(m.obj)'
                        /\ KeysOf(m.obj)' \subseteq KeysOf(m.obj) \cup {v}
                        /\ m # n => KeysOf(m.obj)' = KeysOf(m.obj)
  BY <1>1, <1>6, StoredTypes DEF OneEntryEach
<1>9. TypeOK' /\ InMemory'
  <2>1. rekeys' \in 0..MaxRekeys
    BY <1>1, BoundsAssumption DEF TypeOK
  <2> QED
    BY <1>1, <1>5, <1>7, <2>1 DEF TypeOK, InMemory
<1>10. OneEntryEach' /\ Apart'
  <2>1. ASSUME NEW l \in stored, NEW m \in stored, l # m
        PROVE  KeysOf(l.obj)' \cap KeysOf(m.obj)' = {}
    <3>1. KeysOf(l.obj) \cap KeysOf(m.obj) = {}
      BY <1>7, <2>1 DEF Apart, Same
    <3> QED
      BY <1>8, <2>1, <3>1
  <2> QED
    BY <1>1, <1>7, <2>1 DEF OneEntryEach, Apart, Same
<1>11. Filed' /\ FiledApart'
  <2>1. \A m \in stored : m.hash \subseteq KeysOf(m.obj)
    BY <1>7 DEF Filed
  <2>2. ASSUME NEW l \in stored, NEW m \in stored, l # m
        PROVE  l.hash \cap KeysOf(m.obj)' = {}
    <3>1. l.hash \cap KeysOf(m.obj) = {}
      BY <1>7, <2>2 DEF FiledApart
    <3> QED
      BY <1>8, <2>1, <2>2, <3>1
  <2> QED
    BY <1>1, <1>7, <1>8, <2>1, <2>2 DEF Filed, FiledApart
<1>12. NotRekeyed' /\ FoundByMine' /\ SharedByElement'
  <2>1. rekeys' # 0
    BY <1>1 DEF TypeOK
  <2> QED
    BY <1>1, <2>1 DEF NotRekeyed, FoundByMine, SharedByElement
<1>13. LastFound'
  <2>1. CASE element = p
    BY <1>1, <2>1 DEF LastFound, Matches, Same
  <2>2. CASE element \in 1..Len(heap) \ {p} /\ KeysOf(element) # {}
    <3>1. PICK m \in stored : KeysOf(m.obj) \cap KeysOf(element) # {}
      BY <1>1, <2>2 DEF LastFound, Matches, Same
    <3>2. KeysOf(m.obj)' \cap KeysOf(element)' # {}
      BY <1>1, <1>6, <1>8, <2>2, <3>1
    <3> QED
      BY <1>1, <3>2 DEF LastFound, Matches, Same
  <2>3. CASE element = 0
    BY <1>1, <2>3 DEF LastFound
  <2>4. CASE element \in 1..Len(heap) \ {p} /\ KeysOf(element) = {}
    BY <1>1, <1>6, <2>4 DEF LastFound
  <2>5. element \in 0..Len(heap) /\ Len(heap) \in Nat
    BY HeapTypes DEF TypeOK
  <2> QED
    BY <2>1, <2>2, <2>3, <2>4, <2>5
<1> QED
  BY <1>9, <1>10, <1>11, <1>12, <1>13

LEMMA StutterKeepsShape ==
    ASSUME Shape, UNCHANGED vars
    PROVE  Shape'
<1>1. \A o : KeysOf(o)' = KeysOf(o)
  BY DEF vars, KeysOf
<1>2. Settled' = Settled /\ Merging' = Merging
  BY DEF vars, Settled, Merging
<1>3. TypeOK' /\ InMemory' /\ OneEntryEach'
  BY <1>2 DEF Shape, vars, TypeOK, InMemory, OneEntryEach
<1>4. Apart' /\ Filed' /\ FiledApart' /\ NotRekeyed'
  BY <1>1, <1>2 DEF Shape, vars, Apart, Filed, FiledApart, NotRekeyed, Same
<1>5. FoundByMine' /\ SharedByElement' /\ LastFound'
  BY <1>1, <1>2 DEF Shape, vars, FoundByMine, SharedByElement, LastFound, Matches, Same
<1> QED
  BY <1>3, <1>4, <1>5 DEF Shape

-----------------------------------------------------------------------------
(* The partition of the identifiers. *)

LEMMA ConnectedByMore ==
    ASSUME NEW K, NEW G, NEW H, G \subseteq H, Connected(K, G)
    PROVE  Connected(K, H)
BY DEF Connected

LEMMA ItemIsConnected ==
    ASSUME NEW G, NEW i \in G
    PROVE  Connected(Keys(i), G)
BY DEF Connected

LEMMA UnionIsConnected ==
    ASSUME NEW A, NEW B, NEW G, Connected(A, G), Connected(B, G), A \cap B # {}
    PROVE  Connected(A \cup B, G)
<1> SUFFICES ASSUME NEW S \in SUBSET (A \cup B), S # {}, S # A \cup B
             PROVE  \E i \in G : Keys(i) \cap S # {} /\ (Keys(i) \cap (A \cup B)) \ S # {}
  BY DEF Connected
<1>1. ASSUME NEW K, K \subseteq A \cup B, Connected(K, G), S \cap K # {}, S \cap K # K
      PROVE  \E i \in G : Keys(i) \cap S # {} /\ (Keys(i) \cap (A \cup B)) \ S # {}
  <2>1. S \cap K \in SUBSET K
    OBVIOUS
  <2>2. PICK i \in G : /\ Keys(i) \cap (S \cap K) # {}
                       /\ (Keys(i) \cap K) \ (S \cap K) # {}
    BY <1>1, <2>1 DEF Connected
  <2> QED
    BY <1>1, <2>2
<1>2. \/ S \cap A # {} /\ S \cap A # A
      \/ S \cap B # {} /\ S \cap B # B
  OBVIOUS
<1>3. A \subseteq A \cup B /\ B \subseteq A \cup B
  OBVIOUS
<1> QED
  BY <1>1, <1>2, <1>3

LEMMA SameHoldersKeepParted ==
    ASSUME Parted, AllSound, pc # "raised", UNCHANGED <<heap, given>>,
           Holders' \subseteq Holders, \A o \in Holders \ Holders' : KeysOf(o) = {},
           MergesEqual'
    PROVE  Parted'
<1> USE DEF Parted
<1>1. \A o : KeysOf(o)' = KeysOf(o)
  BY DEF KeysOf
<1>2. OnlySound'
  BY DEF OnlySound
<1>3. AllHeld'
  <2> SUFFICES ASSUME NEW i \in given, Keys(i) # {}
               PROVE  \E o \in Holders' : Keys(i) \subseteq KeysOf(o)'
    BY DEF AllHeld
  <2>1. PICK o \in Holders : Keys(i) \subseteq KeysOf(o)
    BY DEF AllHeld
  <2> QED
    BY <1>1, <2>1
<1>4. AllConnected'
  BY <1>1 DEF AllConnected
<1> QED
  BY <1>2, <1>3, <1>4

LEMMA AddKeepsParted ==
    ASSUME IInv, NEW i \in Inputs, Add(i)
    PROVE  Parted'
<1> USE DEF IInv, Shape
<1>1. /\ pc = "idle" /\ pc' = "find" /\ element' = Len(heap) + 1
      /\ UNCHANGED <<stored, mine, current, rekeys>> /\ given' = given \cup {i}
  BY DEF Add
<1>2. /\ Len(heap) \in Nat /\ Len(heap') = Len(heap) + 1
      /\ heap'[Len(heap) + 1] = i
      /\ \A o \in 1..Len(heap) : heap'[o] = heap[o] /\ KeysOf(o)' = KeysOf(o)
  BY HeapTypes, AddKeepsHeap
<1> SUFFICES ASSUME AllSound' PROVE OnlySound' /\ AllHeld' /\ AllConnected' /\ MergesEqual'
  BY DEF Parted
<1>3. AllSound /\ Sound(i) /\ OnlySound /\ AllHeld /\ AllConnected
  BY <1>1 DEF AllSound, Parted
<1>4. Holders = {n.obj : n \in stored} /\ Holders' = Holders \cup {element'}
  BY <1>1 DEF Holders
<1>5. \A o \in Holders : o \in 1..Len(heap) /\ KeysOf(o)' = KeysOf(o)
  BY <1>2, <1>4, StoredTypes
<1>6. KeysOf(element)' = Keys(i)
  BY <1>1, <1>2 DEF KeysOf
<1>7. OnlySound'
  BY <1>2, <1>3 DEF OnlySound
<1>8. AllHeld'
  <2>1. ASSUME NEW g \in given \cup {i}, Keys(g) # {}
        PROVE  \E o \in Holders' : Keys(g) \subseteq KeysOf(o)'
    <3>1. CASE g = i
      BY <1>4, <1>6, <3>1
    <3>2. CASE g \in given
      <4>1. PICK o \in Holders : Keys(g) \subseteq KeysOf(o)
        BY <1>3, <2>1, <3>2 DEF AllHeld
      <4> QED
        BY <1>4, <1>5, <4>1
    <3> QED
      BY <3>1, <3>2
  <2> QED
    BY <1>1, <2>1 DEF AllHeld
<1>9. AllConnected'
  <2>1. \A o \in Holders : Connected(KeysOf(o), given')
    BY <1>1, <1>3, ConnectedByMore DEF AllConnected
  <2>2. Connected(Keys(i), given')
    BY <1>1, ItemIsConnected
  <2>3. \A o \in Holders' : Connected(KeysOf(o)', given')
    BY <1>4, <1>5, <1>6, <2>1, <2>2
  <2> QED
    BY <2>3 DEF AllConnected
<1>10. MergesEqual'
  BY <1>1 DEF MergesEqual
<1> QED
  BY <1>7, <1>8, <1>9, <1>10

LEMMA MergeKeepsParted ==
    ASSUME IInv, Merge
    PROVE  Parted'
<1> USE DEF IInv, Shape
<1>1. /\ pc = "merge" /\ pc' = "search"
      /\ UNCHANGED <<stored, element, mine, current, given, rekeys>>
      /\ mine \in 1..Len(heap) /\ current \in 1..Len(heap)
  BY DEF Merge, InMemory, Merging
<1> SUFFICES ASSUME AllSound' PROVE OnlySound' /\ AllHeld' /\ AllConnected' /\ MergesEqual'
  BY DEF Parted
<1>2. AllSound /\ OnlySound /\ AllHeld /\ AllConnected /\ Same(mine, current)
  BY <1>1 DEF AllSound, Parted, MergesEqual
<1>3. /\ Len(heap') = Len(heap)
      /\ heap'[mine] = Overwrite(heap[mine], heap[current])
      /\ \A o \in 1..Len(heap) \ {mine} : heap'[o] = heap[o] /\ KeysOf(o)' = KeysOf(o)
  BY MergedKeys
<1>4. Sound(heap'[mine]) /\ KeysOf(mine)' = KeysOf(mine) \cup KeysOf(current)
  <2>1. heap[mine] \in Item /\ heap[current] \in Item
    BY <1>1, HeapTypes
  <2>2. Sound(heap[mine]) /\ Sound(heap[current]) /\ Keys(heap[mine]) \cap Keys(heap[current]) # {}
    BY <1>1, <1>2 DEF OnlySound, Same, KeysOf
  <2> QED
    BY <1>1, <1>3, <2>1, <2>2, SoundOverwrite DEF KeysOf
<1>5. /\ Holders = {n.obj : n \in stored} \cup {mine, current}
      /\ Holders' = {n.obj : n \in stored} \cup {mine}
  BY <1>1 DEF Holders
<1>6. \A n \in stored : n.obj \in 1..Len(heap) \ {mine} /\ KeysOf(n.obj)' = KeysOf(n.obj)
  <2>1. \A n \in stored : n.obj # mine /\ n.obj \in 1..Len(heap)
    BY <1>1, <1>2, StoredTypes DEF AllSound, NotRekeyed, Settled, Merging
  <2> QED
    BY <1>3, <2>1
<1>7. OnlySound'
  BY <1>2, <1>3, <1>4 DEF OnlySound
<1>8. AllHeld'
  <2>1. ASSUME NEW g \in given, Keys(g) # {}
        PROVE  \E o \in Holders' : Keys(g) \subseteq KeysOf(o)'
    <3>1. PICK o \in Holders : Keys(g) \subseteq KeysOf(o)
      BY <1>2, <2>1 DEF AllHeld
    <3>2. CASE o \in {mine, current}
      BY <1>1, <1>4, <1>5, <3>1, <3>2
    <3>3. CASE o \in {n.obj : n \in stored}
      BY <1>5, <1>6, <3>1, <3>3
    <3> QED
      BY <1>5, <3>2, <3>3
  <2> QED
    BY <1>1, <2>1 DEF AllHeld
<1>9. AllConnected'
  <2>1. Connected(KeysOf(mine) \cup KeysOf(current), given)
    BY <1>2, <1>5, UnionIsConnected DEF AllConnected, Same
  <2>2. \A n \in stored : Connected(KeysOf(n.obj)', given)
    BY <1>2, <1>5, <1>6 DEF AllConnected
  <2>3. Connected(KeysOf(mine)', given)
    BY <1>4, <2>1
  <2>4. \A o \in Holders' : Connected(KeysOf(o)', given)
    BY <1>1, <1>5, <2>2, <2>3
  <2> QED
    BY <1>1, <2>4 DEF AllConnected
<1>10. MergesEqual'
  BY <1>1 DEF MergesEqual
<1> QED
  BY <1>7, <1>8, <1>9, <1>10

LEMMA FindOldKeepsParted ==
    ASSUME IInv, NEW n \in stored, FindOld(n)
    PROVE  Parted'
<1> USE DEF IInv, Shape
<1>1. /\ pc = "find" /\ pc' = "merge" /\ mine' = n.obj /\ current' = element
      /\ UNCHANGED <<heap, element, given, rekeys>> /\ Same(n.obj, element)
  BY DEF FindOld, Matches
<1>2. CASE AllSound
  <2>1. stored' = stored \ {n}
    <3>1. n \in Settled
      BY <1>1 DEF Settled, Merging
    <3>2. Slots(n.obj) = {n}
      BY <1>2, <3>1, SlotsAreTheElement DEF AllSound
    <3> QED
      BY <3>2 DEF FindOld
  <2>2. Holders' = Holders
    <3>1. Holders = {m.obj : m \in stored} \cup {element}
      BY <1>1 DEF Holders
    <3>2. Holders' = {m.obj : m \in stored \ {n}} \cup {n.obj} \cup {element}
      BY <1>1, <2>1 DEF Holders
    <3> QED
      BY <3>1, <3>2
  <2>3. MergesEqual'
    BY <1>1 DEF MergesEqual, Same, KeysOf
  <2> QED
    BY <1>1, <1>2, <2>2, <2>3, SameHoldersKeepParted
<1>3. CASE ~AllSound
  BY <1>1, <1>3 DEF AllSound, Parted
<1> QED
  BY <1>2, <1>3

LEMMA AbsorbKeepsParted ==
    ASSUME IInv, NEW n \in stored, Absorb(n)
    PROVE  Parted'
<1> USE DEF IInv, Shape
<1>1. /\ pc = "search" /\ current' = n.obj /\ Same(n.obj, mine)
      /\ UNCHANGED <<heap, element, mine, given, rekeys>>
  BY DEF Absorb, Matches
<1>2. CASE AllSound /\ pc' # "raised"
  <2>1. pc' = "merge" /\ stored' = stored \ {n}
    <3>1. n \in Settled
      BY <1>2 DEF AllSound, NotRekeyed
    <3>2. Slots(n.obj) = {n}
      BY <1>2, <3>1, SlotsAreTheElement DEF AllSound
    <3> QED
      BY <1>2, <3>2 DEF Absorb
  <2>2. Holders' = Holders
    <3>1. Holders = {m.obj : m \in stored} \cup {mine}
      BY <1>1 DEF Holders
    <3>2. Holders' = {m.obj : m \in stored \ {n}} \cup {mine} \cup {n.obj}
      BY <1>1, <2>1 DEF Holders
    <3> QED
      BY <3>1, <3>2
  <2>3. MergesEqual'
    BY <1>1 DEF MergesEqual, Same, KeysOf
  <2> QED
    BY <1>1, <1>2, <2>2, <2>3, SameHoldersKeepParted
<1>3. CASE ~(AllSound /\ pc' # "raised")
  BY <1>1, <1>3 DEF AllSound, Parted
<1> QED
  BY <1>2, <1>3

\* The other steps move nothing from one item to another.
LEMMA OthersKeepParted ==
    ASSUME IInv,
           \/ AddNothing \/ AddNew \/ PutBack
           \/ \E n \in stored : AddStored(n)
           \/ \E n \in stored, v \in SonarIds : CreateItem(n, v)
           \/ UNCHANGED vars
    PROVE  Parted'
<1> USE DEF IInv, Shape
<1>1. CASE ~AllSound'
  BY <1>1 DEF Parted
<1>2. CASE AddNothing
  <2>1. /\ Holders = {m.obj : m \in stored} \cup {element}
        /\ Holders' = {m.obj : m \in stored} /\ KeysOf(element) = {}
    BY <1>2 DEF AddNothing, Holders
  <2>2. MergesEqual' /\ pc # "raised" /\ UNCHANGED <<heap, given, rekeys>>
    BY <1>2 DEF AddNothing, MergesEqual
  <2>3. AllSound' => AllSound
    BY <2>2 DEF AllSound
  <2> QED
    BY <1>1, <2>1, <2>2, <2>3, SameHoldersKeepParted
<1>3. ASSUME NEW o, pc \in {"find", "search"}, Holders = {m.obj : m \in stored} \cup {o},
             stored' = stored \cup {Entry(o)}, pc' = "idle",
             UNCHANGED <<heap, element, mine, current, given, rekeys>>
      PROVE  Parted'
  <2>1. Holders' = {m.obj : m \in stored'}
    BY <1>3 DEF Holders
  <2>2. Holders' = Holders
    <3>1. Entry(o).obj = o
      BY DEF Entry
    <3> QED
      BY <1>3, <2>1, <3>1
  <2>3. MergesEqual' /\ (AllSound' => AllSound)
    BY <1>3 DEF MergesEqual, AllSound
  <2> QED
    BY <1>1, <1>3, <2>2, <2>3, SameHoldersKeepParted
<1>4. CASE AddNew
  <2>1. Holders = {m.obj : m \in stored} \cup {element}
    BY <1>4 DEF AddNew, Holders
  <2> QED
    BY <1>3, <1>4, <2>1 DEF AddNew
<1>5. CASE PutBack
  <2>1. Holders = {m.obj : m \in stored} \cup {mine}
    BY <1>5 DEF PutBack, Holders
  <2> QED
    BY <1>3, <1>5, <2>1 DEF PutBack
<1>6. CASE \E n \in stored : AddStored(n)
  <2>1. PICK n \in stored : AddStored(n)
    BY <1>6
  <2>2. /\ Holders = {m.obj : m \in stored}
        /\ Holders' = {m.obj : m \in stored} \cup {n.obj}
    BY <2>1 DEF AddStored, Holders
  <2>3. Holders' = Holders
    BY <2>2
  <2>4. MergesEqual' /\ pc # "raised" /\ UNCHANGED <<heap, given, rekeys>>
    BY <2>1 DEF AddStored, MergesEqual
  <2>5. AllSound' => AllSound
    BY <2>4 DEF AllSound
  <2> QED
    BY <1>1, <2>3, <2>4, <2>5, SameHoldersKeepParted
<1>7. CASE \E n \in stored, v \in SonarIds : CreateItem(n, v)
  <2>1. rekeys' = rekeys + 1 /\ rekeys \in Nat
    BY <1>7, BoundsAssumption DEF CreateItem, TypeOK
  <2> QED
    BY <2>1 DEF AllSound, Parted
<1>8. CASE UNCHANGED vars
  <2>1. Holders' = Holders /\ MergesEqual' = MergesEqual /\ (AllSound' => AllSound)
    BY <1>8 DEF vars, Holders, MergesEqual, Same, KeysOf, AllSound
  <2>2. UNCHANGED <<heap, given, pc>>
    BY <1>8 DEF vars
  <2>3. CASE pc = "raised"
    BY <2>2, <2>3 DEF Parted
  <2>4. CASE AllSound /\ pc # "raised"
    BY <2>1, <2>2, <2>4, SameHoldersKeepParted DEF Parted
  <2> QED
    BY <1>1, <2>1, <2>3, <2>4
<1> QED
  BY <1>2, <1>4, <1>5, <1>6, <1>7, <1>8

-----------------------------------------------------------------------------
(* The theorems. *)

LEMMA InitInvariant == Init => IInv
<1> SUFFICES ASSUME Init PROVE IInv
  OBVIOUS
<1> USE DEF Init
<1>1. TypeOK
  <2>1. heap \in Seq(Item) /\ Len(heap) = 0
    OBVIOUS
  <2> QED
    BY <2>1, BoundsAssumption DEF TypeOK
<1>2. Settled = {} /\ Holders = {}
  BY DEF Settled, Holders
<1>3. /\ InMemory /\ OneEntryEach /\ Apart /\ Filed /\ FiledApart
      /\ FoundByMine /\ SharedByElement /\ NotRekeyed /\ LastFound
  BY <1>2 DEF InMemory, Merging, OneEntryEach, Apart, Filed, FiledApart,
              FoundByMine, SharedByElement, NotRekeyed, LastFound
<1>4. Parted
  BY <1>2 DEF Parted, OnlySound, AllHeld, AllConnected, MergesEqual
<1> QED
  BY <1>1, <1>3, <1>4 DEF IInv, Shape

LEMMA NextInvariant == IInv /\ [Next]_vars => IInv'
<1> SUFFICES ASSUME IInv, [Next]_vars PROVE IInv'
  OBVIOUS
<1>1. Shape
  BY DEF IInv
<1>2. ASSUME NEW i \in Inputs, Add(i) PROVE IInv'
  BY <1>1, <1>2, AddKeepsShape, AddKeepsParted DEF IInv
<1>3. CASE AddNothing
  BY <1>1, <1>3, AddNothingKeepsShape, OthersKeepParted DEF IInv
<1>4. CASE AddNew
  BY <1>1, <1>4, AddNewKeepsShape, OthersKeepParted DEF IInv
<1>5. CASE Merge
  BY <1>1, <1>5, MergeKeepsShape, MergeKeepsParted DEF IInv
<1>6. CASE PutBack
  BY <1>1, <1>6, PutBackKeepsShape, OthersKeepParted DEF IInv
<1>7. ASSUME NEW n \in stored, FindOld(n) PROVE IInv'
  BY <1>1, <1>7, FindOldKeepsShape, FindOldKeepsParted DEF IInv
<1>8. ASSUME NEW n \in stored, Absorb(n) PROVE IInv'
  BY <1>1, <1>8, AbsorbKeepsShape, AbsorbKeepsParted DEF IInv
<1>9. ASSUME NEW n \in stored, AddStored(n) PROVE IInv'
  BY <1>1, <1>9, AddStoredKeepsShape, OthersKeepParted DEF IInv
<1>10. ASSUME NEW n \in stored, NEW v \in SonarIds, CreateItem(n, v) PROVE IInv'
  BY <1>1, <1>10, CreateItemKeepsShape, OthersKeepParted DEF IInv
<1>11. CASE UNCHANGED vars
  BY <1>1, <1>11, StutterKeepsShape, OthersKeepParted DEF IInv
<1> QED
  BY <1>2, <1>3, <1>4, <1>5, <1>6, <1>7, <1>8, <1>9, <1>10, <1>11 DEF Next, Step, Over

\* Every step of MergeSet.add and every sonar_id given to an element by create_item
\* keeps the invariant.
THEOREM InvariantHolds == Spec => []IInv
BY InitInvariant, NextInvariant, PTL DEF Spec

\* Items and elements keep their types, and MergeSet.add stores nothing without a key.
THEOREM TypesHold == Spec => []TypeOK
<1>1. IInv => TypeOK
  BY DEF IInv, Shape
<1> QED
  BY <1>1, InvariantHolds, PTL

\* As long as nobody changes a key of an element, add leaves no identifier in two,
\* not even while add has taken elements out and merges them.
THEOREM DisjointHolds == Spec => []Disjoint
<1>1. IInv => Disjoint
  BY DEF IInv, Shape, NotRekeyed, Apart, Disjoint
<1> QED
  BY <1>1, InvariantHolds, PTL

\* What MergeSet.add was given last can be found in the set, also when elements were
\* changed inside it.
THEOREM LastIsFound == Spec => []LastFound
<1>1. IInv => LastFound
  BY DEF IInv, Shape
<1> QED
  BY <1>1, InvariantHolds, PTL

\* Between calls of MergeSet.add the elements are the components of the items given: nothing is lost,
\* and nothing is together that no item joins.
THEOREM ElementsAreComponents == Spec => []Components
<1>1. IInv => Components
  <2> SUFFICES ASSUME IInv, rekeys = 0, pc = "idle", \A i \in given : Sound(i)
               PROVE  NothingLost /\ Joined
    BY DEF Components
  <2>1. AllHeld /\ AllConnected /\ Holders = {n.obj : n \in stored}
    BY DEF IInv, Parted, AllSound, Holders
  <2>2. NothingLost
    BY <2>1 DEF AllHeld, NothingLost
  <2>3. Joined
    BY <2>1 DEF AllConnected, Connected, Joined
  <2> QED
    BY <2>2, <2>3
<1> QED
  BY <1>1, InvariantHolds, PTL
=============================================================================
