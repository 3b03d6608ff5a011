------------------------------- MODULE MergeSet -------------------------------
(***************************************************************************)
(* The inventory: MergeSet.add of src/model/structures.py over the items   *)
(* of src/model/atoms.py.  Two items are equal when they share a key: an   *)
(* identifier either of them carries in any of its key fields.  add merges *)
(* the element with the first one equal to it, and the result with         *)
(* everything that has become equal to it, until nothing is.               *)
(*                                                                         *)
(* Underneath is Python's set, which files an object under the hash it had *)
(* when it was inserted.  Items are mutable and known to others: code that *)
(* changes a key of an item inside the set leaves it filed under the old   *)
(* hash.  Two sets of keys have the same hash here when they are the same. *)
(***************************************************************************)
EXTENDS Naturals, Sequences, FiniteSets

CONSTANTS
    Fields,     \* the key fields: account, sonar_id, mac_address, imei, imsi
    SonarId,    \* the one among them that Sonar gives
    Hardware,   \* those create_missing asks for: mac_address, imei, imsi
    Mac,        \* the one of these that create_item wants not to be empty either
    Values,     \* identifiers
    SonarIds,   \* those that are sonar_ids
    Absent,     \* the attribute is not in the item's __dict__
    None,       \* the attribute is there, and nothing
    Blank,      \* it is there and the empty string: an IMEI or IMSI that did not parse
    Inputs,     \* the items add is called with
    Devices,    \* the true devices: what all their key fields say
    MaxAdds,    \* bound: calls of add
    MaxRekeys   \* bound: items that get their sonar_id while in the set

ASSUME FieldsAssumption == /\ SonarId \in Fields
                           /\ Hardware \subseteq Fields \ {SonarId}
                           /\ Mac \in Hardware
ASSUME ValuesAssumption == /\ SonarIds \subseteq Values
                           /\ {Absent, None, Blank} \cap Values = {}
                           /\ Absent \notin {None, Blank} /\ None # Blank
Item == [Fields -> Values \cup {Absent, None, Blank}]
ASSUME InputsAssumption == Inputs \subseteq Item
\* No identifier belongs to two devices.
ASSUME DevicesAssumption ==
    /\ Devices \subseteq [Fields -> Values]
    /\ \A d, e \in Devices, f, g \in Fields : d[f] = e[g] => d = e
ASSUME BoundsAssumption == MaxAdds \in Nat /\ MaxRekeys \in Nat

VARIABLES
    heap,     \* the items in memory, as they are now; their place is their identity
    stored,   \* the underlying set: objects with the keys they had when inserted
    pc,       \* "idle" between calls, "find", "merge", "search"; "raised": KeyError
    element,  \* add: the argument
    mine,     \* add: the element found
    current,  \* add: the item whose attributes are copied to mine
    given,    \* history: what add was called with
    rekeys    \* counter for the bound

vars == <<heap, stored, pc, element, mine, current, given, rekeys>>

-----------------------------------------------------------------------------
(* Item. *)

\* Item.key: the values that are neither missing nor empty.
Keys(i) == {i[f] : f \in Fields} \cap Values

KeysOf(o) == Keys(heap[o])

\* Item.__eq__ between items with keys.
Same(o, p) == KeysOf(o) \cap KeysOf(p) # {}

\* All that is in i's __dict__ is set on top of what mine has, the empty included.
Overwrite(m, i) == [f \in Fields |-> IF i[f] = Absent THEN m[f] ELSE i[f]]

-----------------------------------------------------------------------------
(* Python's set. *)

Entry(o) == [obj |-> o, hash |-> KeysOf(o)]

\* Where set.remove finds o: filed under o's present hash, and o itself or equal.
Slots(o) == {n \in stored : n.hash = KeysOf(o) /\ (n.obj = o \/ Same(n.obj, o))}

Matches(o) == {n \in stored : Same(n.obj, o)}

-----------------------------------------------------------------------------
Init ==
    /\ heap = <<>>
    /\ stored = {}
    /\ pc = "idle"
    /\ element = 0
    /\ mine = 0
    /\ current = 0
    /\ given = {}
    /\ rekeys = 0

\* A new item is handed to add.
Add(i) ==
    /\ pc = "idle"
    /\ Len(heap) < MaxAdds
    /\ heap' = Append(heap, i)
    /\ element' = Len(heap) + 1
    /\ given' = given \cup {i}
    /\ pc' = "find"
    /\ UNCHANGED <<stored, mine, current, rekeys>>

\* An item of the set itself: Baicells.get_item returns the one it was asked about
\* when the device cannot be reached.
AddStored(n) ==
    /\ pc = "idle"
    /\ n \in stored
    /\ element' = n.obj
    /\ pc' = "find"
    /\ UNCHANGED <<heap, stored, mine, current, given, rekeys>>

\* if __element == _Item()
AddNothing ==
    /\ pc = "find"
    /\ KeysOf(element) = {}
    /\ pc' = "idle"
    /\ UNCHANGED <<heap, stored, element, mine, current, given, rekeys>>

\* Mutant: items without keys are elements like any other.
AddNewAny ==
    /\ pc = "find"
    /\ Matches(element) = {}
    /\ stored' = stored \cup {Entry(element)}
    /\ pc' = "idle"
    /\ UNCHANGED <<heap, element, mine, current, given, rekeys>>

AddNew ==
    /\ pc = "find"
    /\ KeysOf(element) # {}
    /\ Matches(element) = {}
    /\ stored' = stored \cup {Entry(element)}
    /\ pc' = "idle"
    /\ UNCHANGED <<heap, element, mine, current, given, rekeys>>

\* The first equal element in the set's order, which is any.  When it is no
\* longer filed under its hash the KeyError is logged and it stays.
FindOld(n) ==
    /\ pc = "find"
    /\ n \in Matches(element)
    /\ mine' = n.obj
    /\ current' = element
    /\ IF Slots(n.obj) = {} THEN UNCHANGED stored
                            ELSE \E s \in Slots(n.obj) : stored' = stored \ {s}
    /\ pc' = "merge"
    /\ UNCHANGED <<heap, element, given, rekeys>>

\* Mutant: the attributes are set on the wrong one of the two.
MergeSwapped ==
    /\ pc = "merge"
    /\ heap' = [heap EXCEPT ![current] = Overwrite(heap[current], heap[mine])]
    /\ pc' = "search"
    /\ UNCHANGED <<stored, element, mine, current, given, rekeys>>

\* for k, v in current.__dict__.items(): setattr(mine, k, v)
Merge ==
    /\ pc = "merge"
    /\ heap' = [heap EXCEPT ![mine] = Overwrite(heap[mine], heap[current])]
    /\ pc' = "search"
    /\ UNCHANGED <<stored, element, mine, current, given, rekeys>>

\* Mutant: the element absorbed stays in the set.
AbsorbKeepsIt(n) ==
    /\ pc = "search"
    /\ n \in Matches(mine)
    /\ current' = n.obj
    /\ pc' = "merge"
    /\ UNCHANGED <<heap, stored, element, mine, given, rekeys>>

\* Another element has become equal to mine: it is taken out and merged as well.
\* Here a KeyError leaves add; mine, when it was taken out, stays out.
Absorb(n) ==
    /\ pc = "search"
    /\ n \in Matches(mine)
    /\ current' = n.obj
    /\ \/ /\ Slots(n.obj) = {}
          /\ pc' = "raised"
          /\ UNCHANGED stored
       \/ /\ \E s \in Slots(n.obj) : stored' = stored \ {s}
          /\ pc' = "merge"
    /\ UNCHANGED <<heap, element, mine, given, rekeys>>

\* Mutants: what else has become equal is not looked for; mine is not put back.
PutBackAtOnce ==
    /\ pc = "search"
    /\ stored' = stored \cup {Entry(mine)}
    /\ pc' = "idle"
    /\ UNCHANGED <<heap, element, mine, current, given, rekeys>>
PutBackForgets ==
    /\ pc = "search"
    /\ Matches(mine) = {}
    /\ pc' = "idle"
    /\ UNCHANGED <<heap, stored, element, mine, current, given, rekeys>>

PutBack ==
    /\ pc = "search"
    /\ Matches(mine) = {}
    /\ stored' = stored \cup {Entry(mine)}
    /\ pc' = "idle"
    /\ UNCHANGED <<heap, element, mine, current, given, rekeys>>

\* Between two calls Sonar.create_item gives an item of the set, which has all of
\* its hardware identifiers and no sonar_id, the number Sonar has made for it.  An
\* identifier that did not parse is one it has; only the address must be a good one.
CreateItem(n, v) ==
    /\ pc = "idle"
    /\ rekeys < MaxRekeys
    /\ n \in stored
    /\ heap[n.obj][SonarId] \notin Values
    /\ heap[n.obj][Mac] \in Values
    /\ \A f \in Hardware : heap[n.obj][f] \notin {Absent, None}
    /\ v \notin UNION {KeysOf(o) : o \in 1..Len(heap)}
    /\ heap' = [heap EXCEPT ![n.obj][SonarId] = v]
    /\ rekeys' = rekeys + 1
    /\ UNCHANGED <<stored, pc, element, mine, current, given>>

-----------------------------------------------------------------------------
Step ==
    \/ AddNothing \/ AddNew \/ Merge \/ PutBack
    \/ \E n \in stored : FindOld(n) \/ Absorb(n)

\* Nobody adds anything more, or the exception has ended the caller of add.
Over == /\ pc = "raised" \/ (pc = "idle" /\ Len(heap) = MaxAdds)
        /\ UNCHANGED vars

Next ==
    \/ \E i \in Inputs : Add(i)
    \/ Step
    \/ \E n \in stored : AddStored(n)
    \/ \E n \in stored, v \in SonarIds : CreateItem(n, v)
    \/ Over

Spec == Init /\ [][Next]_vars

\* A call of add runs to its end; nobody has to make one.
FairSpec == Spec /\ WF_vars(Step)

-----------------------------------------------------------------------------
(* Properties. *)

\* Every variable has the type its comment gives, and what is filed in the set has a key:
\* add ignores an item without one, though test_empty (test_structures.py:109-112) expects
\* the set to have it.
TypeOK ==
    /\ heap \in Seq(Item)
    /\ stored \subseteq [obj : 1..Len(heap), hash : (SUBSET Values) \ {{}}]
    /\ pc \in {"idle", "find", "merge", "search", "raised"}
    /\ {element, mine, current} \subseteq 0..Len(heap)
    /\ given \subseteq Inputs
    /\ rekeys \in 0..MaxRekeys

\* However items that share identifiers, contradict each other or blank out
\* identifiers are merged by add, no identifier is in two elements: the first item
\* with an IMSI, which the allocator takes, is the only one.  This is so as long as
\* nobody changes a key of an element.
Disjoint == rekeys = 0 => \A m, n \in stored : Same(m.obj, n.obj) => m = n

\* What add was given can be found afterwards, also when the elements it pulled
\* together have overwritten some of its identifiers.
LastFound == pc = "idle" /\ element # 0 /\ KeysOf(element) # {} => Matches(element) # {}

\* What is known of one of the true devices, or of none.
Sound(i) == \E d \in Devices : \A f \in Fields : i[f] \in {Absent, d[f]}

\* Nothing of any item given is lost.
NothingLost == \A i \in given : Keys(i) # {} => \E n \in stored : Keys(i) \subseteq KeysOf(n.obj)

\* No element consists of two parts that no item given joins.
Joined ==
    \A n \in stored : \A S \in SUBSET KeysOf(n.obj) : S \notin {{}, KeysOf(n.obj)} =>
        \E i \in given : Keys(i) \cap S # {} /\ (Keys(i) \cap KeysOf(n.obj)) \ S # {}

\* Between calls the inventory is the finest partition of the identifiers seen in
\* which each item given is in one part, whatever the order in which add got
\* them: pieces of one device meet as soon as something joins them, others never.
Components == rekeys = 0 /\ pc = "idle" /\ (\A i \in given : Sound(i)) => NothingLost /\ Joined

\* The loop of add ends.
AddEnds == pc = "find" ~> pc \in {"idle", "raised"}
=============================================================================
