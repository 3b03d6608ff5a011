-------------------------- MODULE InventorySyncProofs --------------------------
(***************************************************************************)
(* Proofs about InventorySync, for any devices, customers, accounts and    *)
(* inventories of Sonar, any number of faults and of records.              *)
(*                                                                         *)
(* All that an item knows is of one customer, those of Torn counting as    *)
(* one: its identifiers, its record, and the name of its account unless    *)
(* that is one of Sonar's (ItemOwn).                                       *)
(* Two items that share such a key are of one customer, and so is what add *)
(* makes of them (SameOwners, MergeOwn).                                   *)
(*                                                                         *)
(* An account of Sonar's does not tell the customer: somebody may have put *)
(* one customer's device at another's address, and match_names_and_link    *)
(* then gives a second item, in the set, the account the first has.  Two   *)
(* facts keep these apart.  An item changed in the set cannot be removed   *)
(* any more (Stale), so the loop of add never takes it up.  And when add   *)
(* begins with it, or with a result that is the item itself, the script    *)
(* ends with a KeyError before the mixture is put back (Doomed): the       *)
(* invariant says of what is being merged that it is of one customer or    *)
(* that this is bound to happen.                                           *)
(*                                                                         *)
(* Three further invariants rest on this one: what the scans have told is  *)
(* still held by the set, and suffices for the next scan to recognise the  *)
(* device (FoundInv), a device without a record in the set has paid for    *)
(* each it has in Sonar (DupInv), and the name from Raemis is with the     *)
(* record when the names are matched (NameInv): beside the item that has   *)
(* both there are only such as have no more than the MAC, from SNMP.       *)
(***************************************************************************)
EXTENDS InventorySync, FiniteSetTheorems, WellFoundedInduction, NaturalsInduction, TLAPS

-----------------------------------------------------------------------------
(* The inductive invariant. *)

KeyFields == {"id", "acct"} \cup Identifiers
Fields == KeyFields \cup {"linked", "model", "ip"}

\* Its keys but the account.
IdKeys(x) == {k \in Keys(x) : k[1] # "acct"}

\* It has an account of Sonar's.
InSonar(x) == Has(x, "acct") /\ x.acct.id # None

\* An account of Sonar's is that of a customer: it has the name, or it was so at the start.
Justified(owners, a, table) ==
    \/ \E o \in owners : Accounts[a] \in o
    \/ \E o \in DOMAIN table : Owners(table[o]) = owners /\ table[o].was = a

\* What an item knows is of one customer, to whom its record and its account belong, and
\* what is empty in it does not hide all.
ItemOwn(x, table) ==
    /\ OneCustomer(x)
    /\ \A f \in Identifiers : x[f] \in {None, Empty} => IdentifiersIn(x) # {}
    /\ \A f \in Identifiers : x[f] = Empty => \E g \in Garbled : Whose(g[1]) \in Owners(x)
    /\ x.id \notin {None, Empty}
    /\ Has(x, "id") => Owners(x) = Owners(table[x.id])
    /\ Has(x, "acct") => IF x.acct.id = None THEN Owners(x) = {Group(x.acct.name)}
                                         ELSE Has(x, "id")
    /\ InSonar(x) => Justified(Owners(x), x.acct.id, table)
    /\ IdKeys(x) # {}

\* An entry changed since it was filed.
Stale(n) ==
    /\ Has(n.item, "id")
    /\ n.filed # {}
    /\ \A k \in n.filed : k[1] # "acct" => k \in Keys(n.item)
    /\ \/ \A k \in n.filed : k[1] # "id"
       \/ InSonar(n.item) /\ \A k \in n.filed : k[1] = "acct" => k[2].id = None

RecordsOwn == \A id \in DOMAIN sonar :
    /\ OneCustomer(sonar[id])
    /\ sonar[id].acct # None => Justified(Owners(sonar[id]), sonar[id].acct, sonar)
EntriesOwn == \A n \in inv : /\ n = [item |-> n.item, filed |-> n.filed]
                             /\ ItemOwn(n.item, sonar)
                             /\ Removable(n) \/ Stale(n)
Apart == \A n, o \in inv : n # o => IdKeys(n.item) \cap IdKeys(o.item) = {}
LiveApart == \A n, o \in inv : n # o /\ Removable(n) /\ Removable(o) => ~Same(n.item, o.item)
StuckApart == pc = "absorb" => \A n \in inv : IdKeys(n.item) \cap mine.stuck = {}
InvInv == RecordsOwn /\ EntriesOwn /\ Apart /\ LiveApart /\ StuckApart

\* add is bound to raise.
Doomed ==
    /\ pc = "absorb"
    /\ \/ mine.stuck # {} /\ Keys(mine.item) # mine.stuck
       \/ /\ mine.stuck = {}
          /\ \E n \in inv : Same(n.item, mine.item)
          /\ \A n \in inv : Same(n.item, mine.item) => ~Removable(n)

Dead(r, entries) == r.own /\ \E n \in entries : ~Removable(n) /\ n.item = r.item

Live == {n.item : n \in {o \in inv : Removable(o)}}
        \cup {r.item : r \in {q \in todo : ~Dead(q, inv)}}
        \cup {x \in {mine.item} : pc = "absorb"}

MineOwn == pc = "absorb" => /\ ItemOwn(mine.item, sonar)
                            /\ mine.stuck # {} => ~InSonar(mine.item)
Together(items) == \A x, y \in items : InSonar(x) /\ x.acct = y.acct => Owners(x) = Owners(y)
TodoOwn == \A r \in todo : Keys(r.item) = {} \/ ItemOwn(r.item, sonar)
Merging == MineOwn /\ Together(Live) /\ TodoOwn

PlaceInv ==
    /\ pc \in {"down", "accounts"} => inv = {}
    /\ pc \notin {"add", "absorb"} => todo = {}
    /\ pc # "absorb" => mine = Nobody
    /\ pc \notin {"create", "match", "link", "update"} => tasks = {}
    /\ next \in {"down", "inventory", "telrad", "baicells", "ready"}
    /\ pc \in {"add", "absorb"} => next # "down"
TaskInv == \A n \in tasks :
    /\ pc = "create" => Creatable(n.item)
    /\ pc \in {"match", "link"} => Has(n.item, "id") /\ InSonar(n.item)
    /\ pc = "match" => \E o \in Owners(n.item) : Accounts[n.item.acct.id] \in o
    /\ pc = "update" => Has(n.item, "id")

IInv == TypeOK /\ PlaceInv /\ TaskInv /\ InvInv /\ (Doomed \/ Merging)

-----------------------------------------------------------------------------
(* Items, their keys and their identifiers. *)

\* The keys of an item are its fields that are there and not empty.
LEMMA KeyOf ==
    ASSUME NEW x
    PROVE  \A f, v : <<f, v>> \in Keys(x) <=> f \in KeyFields /\ v = x[f] /\ v \notin Missing
BY DEF Keys, KeyFields, Identifiers

LEMMA KeyIsPair ==
    ASSUME NEW x, NEW k \in Keys(x)
    PROVE  /\ k = <<k[1], k[2]>> /\ k[1] \in KeyFields
           /\ k[2] = x[k[1]] /\ x[k[1]] \notin Missing
BY DEF Keys, KeyFields, Identifiers

LEMMA SameIs ==
    ASSUME NEW x, NEW y
    PROVE  Same(x, y) <=> \E f \in KeyFields : x[f] \notin Missing /\ x[f] = y[f]
<1>1. ASSUME Same(x, y)
      PROVE  \E f \in KeyFields : x[f] \notin Missing /\ x[f] = y[f]
  <2>1. PICK k \in Keys(x) : k \in Keys(y)
    BY <1>1 DEF Same
  <2> QED
    BY <2>1, KeyIsPair
<1>2. ASSUME NEW f \in KeyFields, x[f] \notin Missing, x[f] = y[f]
      PROVE  Same(x, y)
  <2>1. <<f, x[f]>> \in Keys(x) /\ <<f, x[f]>> \in Keys(y)
    BY <1>2, KeyOf
  <2> QED
    BY <2>1 DEF Same
<1> QED
  BY <1>1, <1>2

LEMMA IdKeyOf ==
    ASSUME NEW x
    PROVE  \A f, v : <<f, v>> \in IdKeys(x) <=>
               f \in {"id"} \cup Identifiers /\ v = x[f] /\ v \notin Missing
<1>1. \A f, v : <<f, v>>[1] = f
  OBVIOUS
<1> QED
  BY <1>1, KeyOf DEF IdKeys, KeyFields, Identifiers

LEMMA IdKeysMeet ==
    ASSUME NEW x, NEW y
    PROVE  IdKeys(x) \cap IdKeys(y) # {} <=>
               \E f \in {"id"} \cup Identifiers : x[f] \notin Missing /\ x[f] = y[f]
<1>1. ASSUME NEW k \in IdKeys(x), k \in IdKeys(y)
      PROVE  \E f \in {"id"} \cup Identifiers : x[f] \notin Missing /\ x[f] = y[f]
  <2>1. k = <<k[1], k[2]>>
    BY KeyIsPair DEF IdKeys
  <2> QED
    BY <1>1, <2>1, IdKeyOf
<1>2. ASSUME NEW f \in {"id"} \cup Identifiers, x[f] \notin Missing, x[f] = y[f]
      PROVE  IdKeys(x) \cap IdKeys(y) # {}
  <2>1. <<f, x[f]>> \in IdKeys(x) /\ <<f, x[f]>> \in IdKeys(y)
    BY <1>2, IdKeyOf
  <2> QED
    BY <2>1
<1> QED
  BY <1>1, <1>2

LEMMA HasIdKey ==
    ASSUME NEW x
    PROVE  IdKeys(x) # {} <=> Has(x, "id") \/ IdentifiersIn(x) # {}
<1>1. IdKeys(x) # {} <=> \E f \in {"id"} \cup Identifiers : x[f] \notin Missing
  <2>1. IdKeys(x) \cap IdKeys(x) = IdKeys(x)
    OBVIOUS
  <2> QED
    BY <2>1, IdKeysMeet
<1>2. IdentifiersIn(x) # {} <=> \E f \in Identifiers : x[f] \notin Missing
  BY DEF IdentifiersIn, Identifiers
<1> QED
  BY <1>1, <1>2 DEF Has

\* What add makes of two items.
LEMMA MergedFields ==
    ASSUME NEW x \in ItemType, NEW y \in ItemType
    PROVE  /\ Overwrite(x, y) \in ItemType
           /\ \A f \in Fields :
                \/ y[f] = Absent /\ Overwrite(x, y)[f] = x[f]
                \/ y[f] # Absent /\ Overwrite(x, y)[f] = y[f]
<1>1. DOMAIN x = Fields
  BY DEF Fields, ItemType, KeyFields, Identifiers
<1>2. \A f \in Fields :
                \/ y[f] = Absent /\ Overwrite(x, y)[f] = x[f]
                \/ y[f] # Absent /\ Overwrite(x, y)[f] = y[f]
  BY <1>1 DEF Overwrite
<1>3. Overwrite(x, y) \in ItemType
  BY DEF Overwrite, ItemType, KeyFields, Identifiers
<1> QED
  BY <1>2, <1>3

-----------------------------------------------------------------------------
(* Whose an item is. *)

LEMMA OwnersIs ==
    ASSUME NEW x
    PROVE  /\ \A c : c \in Owners(x) <=>
                  \E f \in Identifiers : x[f] \notin Missing /\ c = Whose(x[f])
           /\ \A f \in Identifiers : x[f] \notin Missing => Whose(x[f]) \in Owners(x)
           /\ Owners(x) = {} <=> IdentifiersIn(x) = {}
           /\ OneCustomer(x) <=> \A c, d \in Owners(x) : c = d
BY DEF Owners, IdentifiersIn, OneCustomer, Identifiers

\* Items with a key in common are of one customer, unless this is an account of Sonar's.
LEMMA SameOwners ==
    ASSUME NEW x \in ItemType, NEW y \in ItemType,
           ItemOwn(x, sonar), ItemOwn(y, sonar), Same(x, y),
           InSonar(x) /\ x.acct = y.acct => Owners(x) = Owners(y)
    PROVE  Owners(x) = Owners(y)
<1>1. PICK f \in KeyFields : x[f] \notin Missing /\ x[f] = y[f]
  BY SameIs
<1>2. CASE f = "id"
  BY <1>1, <1>2 DEF ItemOwn, Has
<1>3. CASE f = "acct"
  <2>1. Has(x, "acct") /\ Has(y, "acct") /\ x.acct = y.acct
    BY <1>1, <1>3 DEF Has
  <2>2. CASE InSonar(x)
    BY <2>1, <2>2
  <2>3. CASE ~InSonar(x)
    <3>1. x.acct.id = None /\ y.acct.id = None
      BY <2>1, <2>3 DEF InSonar
    <3> QED
      BY <2>1, <3>1 DEF ItemOwn
  <2> QED
    BY <2>2, <2>3
<1>4. CASE f \in Identifiers
  <2>1. Whose(x[f]) \in Owners(x) /\ Whose(x[f]) \in Owners(y)
    BY <1>1, <1>4, OwnersIs
  <2>2. \A c \in Owners(x) : c = Whose(x[f])
    BY <2>1, OwnersIs DEF ItemOwn
  <2>3. \A c \in Owners(y) : c = Whose(x[f])
    BY <2>1, OwnersIs DEF ItemOwn
  <2> QED
    BY <2>1, <2>2, <2>3
<1> QED
  BY <1>1, <1>2, <1>3, <1>4 DEF KeyFields

\* Merged, two items of one customer are an item of that customer.
LEMMA MergeOwn ==
    ASSUME NEW x \in ItemType, NEW y \in ItemType,
           ItemOwn(x, sonar), ItemOwn(y, sonar), Owners(x) = Owners(y)
    PROVE  ItemOwn(Overwrite(x, y), sonar) /\ Owners(Overwrite(x, y)) = Owners(x)
<1> DEFINE m == Overwrite(x, y)
<1>0. /\ m \in ItemType
      /\ \A f \in Fields :
                \/ y[f] = Absent /\ m[f] = x[f]
                \/ y[f] # Absent /\ m[f] = y[f]
  BY MergedFields
<1> HIDE DEF m
<1>1. /\ \A f \in Identifiers : (y[f] = Absent /\ m[f] = x[f]) \/ (y[f] # Absent /\ m[f] = y[f])
      /\ (y.id = Absent /\ m.id = x.id) \/ (y.id # Absent /\ m.id = y.id)
      /\ (y.acct = Absent /\ m.acct = x.acct) \/ (y.acct # Absent /\ m.acct = y.acct)
  <2>1. \A f \in Identifiers \cup {"id", "acct"} : f \in Fields
    BY DEF Fields, KeyFields
  <2>2. \A f \in Identifiers \cup {"id", "acct"} :
            (y[f] = Absent /\ m[f] = x[f]) \/ (y[f] # Absent /\ m[f] = y[f])
    BY <1>0, <2>1
  <2>3. \A f \in Identifiers : (y[f] = Absent /\ m[f] = x[f]) \/ (y[f] # Absent /\ m[f] = y[f])
    BY <2>2
  <2>4. (y["id"] = Absent /\ m["id"] = x["id"]) \/ (y["id"] # Absent /\ m["id"] = y["id"])
    BY <2>2
  <2>5. \/ y["acct"] = Absent /\ m["acct"] = x["acct"]
        \/ y["acct"] # Absent /\ m["acct"] = y["acct"]
    BY <2>2
  <2> QED
    BY <2>3, <2>4, <2>5
<1>2. \A c \in Owners(m) : c \in Owners(x)
  BY <1>1, OwnersIs
<1>3. ASSUME Owners(x) # {}
      PROVE  Owners(m) # {}
  <2>1. CASE \E f \in Identifiers : y[f] \in {None, Empty}
    <3>0. IdentifiersIn(y) # {}
      BY <2>1 DEF ItemOwn
    <3>1. PICK f \in Identifiers : y[f] \notin Missing
      BY <3>0, OwnersIs, <1>3
    <3>2. m[f] \notin Missing
      BY <3>1, <1>1 DEF Missing
    <3> QED
      BY <3>2, OwnersIs
  <2>2. CASE ~\E f \in Identifiers : y[f] \in {None, Empty}
    <3>1. PICK f \in Identifiers : x[f] \notin Missing
      BY <1>3, OwnersIs
    <3>2. m[f] \notin Missing
      BY <3>1, <2>2, <1>1 DEF Missing
    <3> QED
      BY <3>2, OwnersIs
  <2> QED
    BY <2>1, <2>2
<1>4. Owners(m) = Owners(x)
  <2>1. CASE Owners(x) = {}
    BY <2>1, <1>2
  <2>2. CASE Owners(x) # {}
    <3>1. \A c, d \in Owners(x) : c = d
      BY OwnersIs DEF ItemOwn
    <3> QED
      BY <2>2, <3>1, <1>2, <1>3
  <2> QED
    BY <2>1, <2>2
<1>5. OneCustomer(m)
  BY <1>4, OwnersIs DEF ItemOwn
<1>6. \A f \in Identifiers : m[f] \in {None, Empty} => IdentifiersIn(m) # {}
  <2> SUFFICES ASSUME NEW f \in Identifiers, m[f] \in {None, Empty}
               PROVE  IdentifiersIn(m) # {}
    OBVIOUS
  <2>1. x[f] \in {None, Empty} \/ y[f] \in {None, Empty}
    BY <1>1
  <2>2. IdentifiersIn(x) # {} \/ IdentifiersIn(y) # {}
    BY <2>1 DEF ItemOwn
  <2>3. Owners(x) # {}
    BY <2>2, OwnersIs
  <2> QED
    BY <2>3, <1>3, OwnersIs
<1>12. \A f \in Identifiers : m[f] = Empty => \E g \in Garbled : Whose(g[1]) \in Owners(m)
  BY <1>1, <1>4 DEF ItemOwn
<1>7. m.id \notin {None, Empty}
  BY <1>1 DEF ItemOwn
<1>8. Has(m, "id") => Owners(m) = Owners(sonar[m.id])
  BY <1>1, <1>4 DEF ItemOwn, Has
<1>9. Has(m, "acct") => IF m.acct.id = None THEN Owners(m) = {Group(m.acct.name)} ELSE Has(m, "id")
  <2> SUFFICES ASSUME Has(m, "acct")
               PROVE  IF m.acct.id = None THEN Owners(m) = {Group(m.acct.name)} ELSE Has(m, "id")
    OBVIOUS
  <2>1. \/ m.acct = x.acct /\ Has(x, "acct")
        \/ m.acct = y.acct /\ Has(y, "acct")
    BY <1>1 DEF Has
  <2>2. Has(x, "id") \/ Has(y, "id") => Has(m, "id")
    BY <1>1 DEF Has, Missing, ItemOwn
  <2> QED
    BY <2>1, <2>2, <1>4 DEF ItemOwn
<1>11. InSonar(m) => Justified(Owners(m), m.acct.id, sonar)
  <2>1. InSonar(m) => (InSonar(x) /\ m.acct = x.acct) \/ (InSonar(y) /\ m.acct = y.acct)
    BY <1>1 DEF InSonar, Has
  <2> QED
    BY <2>1, <1>4 DEF ItemOwn
<1>10. IdKeys(m) # {}
  <2>1. Has(x, "id") \/ Owners(x) # {}
    BY HasIdKey, OwnersIs DEF ItemOwn
  <2>2. Has(x, "id") => Has(m, "id")
    BY <1>1 DEF Has, Missing, ItemOwn
  <2> QED
    BY <2>1, <2>2, <1>3, HasIdKey, OwnersIs
<1> QED
  BY <1>4, <1>5, <1>6, <1>7, <1>8, <1>9, <1>10, <1>11, <1>12 DEF ItemOwn, m

-----------------------------------------------------------------------------
(* Steps that leave the items as they are, or end the process. *)

LEMMA Resting ==
    ASSUME IInv, UNCHANGED <<sonar, inv, todo, mine>>, pc # "absorb", pc' # "absorb"
    PROVE  InvInv' /\ Merging'
<1>1. InvInv /\ Merging
  BY DEF IInv, Doomed
<1>2. InvInv'
  BY <1>1 DEF InvInv, RecordsOwn, EntriesOwn, Apart, LiveApart, StuckApart
<1>3. Live' = Live
  BY DEF Live
<1>4. Together(Live)'
  BY <1>1, <1>3 DEF Merging, Together
<1>5. TodoOwn' /\ MineOwn'
  BY <1>1 DEF Merging, TodoOwn, MineOwn
<1> QED
  BY <1>2, <1>4, <1>5 DEF Merging

LEMMA Ending ==
    ASSUME IInv, Down
    PROVE  InvInv' /\ Merging'
<1>1. RecordsOwn
  BY DEF IInv, InvInv
<1>2. inv' = {} /\ todo' = {} /\ pc' = "down" /\ sonar' = sonar
  BY DEF Down
<1>3. InvInv'
  BY <1>1, <1>2 DEF InvInv, RecordsOwn, EntriesOwn, Apart, LiveApart, StuckApart
<1>4. Live' = {}
  BY <1>2 DEF Live
<1>5. Merging'
  BY <1>2, <1>4 DEF Merging, Together, TodoOwn, MineOwn
<1> QED
  BY <1>3, <1>5

-----------------------------------------------------------------------------
(* The steps of add. *)

\* What Goes does.
LEMMA GoesIs ==
    ASSUME NEW m, NEW rest, NEW stuck, Goes(m, rest, stuck)
    PROVE  \/ /\ pc' = "add" /\ inv' = rest \cup {File(m)} /\ mine' = Nobody
              /\ stuck = {} /\ \A n \in rest : ~Same(n.item, m)
           \/ /\ pc' = "absorb" /\ inv' = rest /\ mine'.item = m /\ mine'.stuck = stuck
              /\ stuck # {} \/ \E n \in rest : Same(n.item, m)
<1>1. CASE stuck = NotFiled /\ \A n \in rest : ~Same(n.item, m)
  BY <1>1 DEF Goes, NotFiled
<1>2. CASE ~(stuck = NotFiled /\ \A n \in rest : ~Same(n.item, m))
  BY <1>2 DEF Goes, NotFiled
<1> QED
  BY <1>1, <1>2

LEMMA FileIs ==
    ASSUME NEW m
    PROVE  /\ File(m) = [item |-> m, filed |-> File(m).filed]
           /\ File(m).item = m /\ Removable(File(m))
BY DEF File, Removable

LEMMA SameCommutes ==
    ASSUME NEW x, NEW y
    PROVE  /\ Same(x, y) <=> Same(y, x)
           /\ ~Same(x, y) => IdKeys(x) \cap IdKeys(y) = {}
BY DEF Same, IdKeys

\* An item that nothing in the set equals is filed.
LEMMA FiledInv ==
    ASSUME InvInv, UNCHANGED sonar,
           NEW rest \in SUBSET inv, NEW m, ItemOwn(m, sonar),
           inv' = rest \cup {File(m)}, pc' # "absorb",
           \A n \in rest : ~Same(n.item, m)
    PROVE  InvInv'
<1>1. /\ File(m) = [item |-> File(m).item, filed |-> File(m).filed]
      /\ File(m).item = m /\ Removable(File(m))
  BY FileIs
<1>2. \A n \in rest : ~Same(n.item, m) /\ ~Same(m, n.item)
  BY SameCommutes
<1>3. \A n \in rest : IdKeys(n.item) \cap IdKeys(m) = {} /\ IdKeys(m) \cap IdKeys(n.item) = {}
  BY <1>2, SameCommutes
<1>4. RecordsOwn'
  BY DEF InvInv, RecordsOwn
<1>5. EntriesOwn'
  BY <1>1 DEF InvInv, EntriesOwn
<1>6. Apart'
  BY <1>1, <1>3 DEF InvInv, Apart
<1>7. LiveApart'
  BY <1>1, <1>2 DEF InvInv, LiveApart
<1> QED
  BY <1>4, <1>5, <1>6, <1>7 DEF InvInv, StuckApart

LEMMA GoesInv ==
    ASSUME InvInv, UNCHANGED sonar,
           NEW rest \in SUBSET inv, NEW m, NEW stuck, Goes(m, rest, stuck),
           \A n \in rest : IdKeys(n.item) \cap stuck = {},
           pc' = "add" => ItemOwn(m, sonar)
    PROVE  InvInv'
<1>1. CASE pc' = "add"
  BY <1>1, GoesIs, FiledInv
<1>2. CASE pc' = "absorb"
  <2>1. inv' = rest /\ mine'.stuck = stuck
    BY <1>2, GoesIs
  <2> QED
    BY <2>1 DEF InvInv, RecordsOwn, EntriesOwn, Apart, LiveApart, StuckApart
<1> QED
  BY <1>1, <1>2, GoesIs

\* What merging makes of two items of one customer goes with the others.
LEMMA MergedTogether ==
    ASSUME NEW items, Together(items), NEW x \in items, NEW y \in items, NEW m,
           m.acct \in {x.acct, y.acct}, Owners(m) = Owners(x), Owners(m) = Owners(y)
    PROVE  Together(items \cup {m})
BY DEF Together, InSonar, Has

LEMMA UnlinkedTogether ==
    ASSUME NEW items, Together(items), NEW m, ~InSonar(m)
    PROVE  Together(items \cup {m})
BY DEF Together, InSonar, Has

\* What is merged and belongs to one customer keeps the results and the set as they should be.
LEMMA GoesMerging ==
    ASSUME TypeOK, Merging, UNCHANGED sonar,
           NEW rest \in SUBSET inv, NEW m, NEW stuck, NEW old, NEW results \in SUBSET todo,
           Goes(m, rest, stuck), todo' = Became(old, m, results),
           ItemOwn(m, sonar), stuck # {} => ~InSonar(m), Together(Live \cup {m}),
           \A n \in inv \ rest : Removable(n) \/ n.item = old
    PROVE  Merging'
<1>1. \A r \in todo' : r.item = m \/ (r \in todo /\ ~(r.own /\ r.item = old))
  <2> SUFFICES ASSUME NEW r \in todo'
               PROVE  r.item = m \/ (r \in todo /\ ~(r.own /\ r.item = old))
    OBVIOUS
  <2>1. PICK q \in results : r = IF q.own /\ q.item = old THEN [q EXCEPT !.item = m] ELSE q
    BY DEF Became
  <2>2. q \in todo /\ q \in [item : ItemType, own : BOOLEAN]
    BY DEF TypeOK
  <2>3. CASE q.own /\ q.item = old
    BY <2>1, <2>2, <2>3
  <2>4. CASE ~(q.own /\ q.item = old)
    BY <2>1, <2>2, <2>4
  <2> QED
    BY <2>3, <2>4
<1>2. /\ \A n \in inv' : n \in rest \/ n = File(m)
      /\ rest \subseteq inv'
      /\ pc' = "absorb" => mine'.item = m /\ mine'.stuck = stuck
  BY GoesIs
<1>3. ASSUME NEW r \in todo', ~Dead(r, inv')
      PROVE  r.item = m \/ (r \in todo /\ ~Dead(r, inv))
  <2> SUFFICES ASSUME r.item # m
               PROVE  r \in todo /\ ~Dead(r, inv)
    OBVIOUS
  <2>1. r \in todo /\ ~(r.own /\ r.item = old)
    BY <1>1
  <2>2. SUFFICES ASSUME r.own, NEW n \in inv, ~Removable(n), n.item = r.item
                 PROVE  FALSE
    BY <2>1 DEF Dead
  <2>3. n \in rest
    BY <2>1, <2>2
  <2> QED
    BY <2>2, <2>3, <1>2, <1>3 DEF Dead
<1>4. Live' \subseteq Live \cup {m}
  <2>1. ASSUME NEW n \in inv', Removable(n)
        PROVE  n.item \in Live \cup {m}
    <3>1. CASE n \in rest
      BY <2>1, <3>1 DEF Live
    <3>2. CASE n = File(m)
      BY <3>2, FileIs
    <3> QED
      BY <2>1, <3>1, <3>2, <1>2
  <2>2. ASSUME NEW r \in todo', ~Dead(r, inv')
        PROVE  r.item \in Live \cup {m}
    BY <2>2, <1>3 DEF Live
  <2>3. pc' = "absorb" => mine'.item \in Live \cup {m}
    BY <1>2
  <2> QED
    BY <2>1, <2>2, <2>3 DEF Live
<1>5. Together(Live)'
  BY <1>4 DEF Together
<1>6. TodoOwn'
  BY <1>1 DEF TodoOwn, Merging
<1>7. MineOwn'
  BY <1>2 DEF MineOwn
<1> QED
  BY <1>5, <1>6, <1>7 DEF Merging

\* An entry changed since it was filed, and then merged, only has the keys it was filed
\* under when it is back without the account it was linked to.
LEMMA StaleUnlinked ==
    ASSUME NEW n, Stale(n), NEW m, Keys(m) = n.filed, Has(m, "id")
    PROVE  ~InSonar(m)
<1>1. <<"id", m.id>> \in n.filed
  BY KeyOf DEF Has, KeyFields
<1>2. \A k \in n.filed : k[1] = "acct" => k[2].id = None
  BY <1>1 DEF Stale
<1>3. Has(m, "acct") => <<"acct", m.acct>> \in n.filed
  BY KeyOf DEF Has, KeyFields
<1>4. Has(m, "acct") => m.acct.id = None
  BY <1>2, <1>3
<1> QED
  BY <1>4 DEF InSonar

LEMMA StaleApart ==
    ASSUME EntriesOwn, Apart, NEW n \in inv, Stale(n), NEW o \in inv, n # o
    PROVE  IdKeys(o.item) \cap n.filed = {}
<1> SUFFICES ASSUME NEW k \in IdKeys(o.item), k \in n.filed
             PROVE  FALSE
  OBVIOUS
<1>1. k \in IdKeys(n.item)
  BY DEF Stale, IdKeys
<1> QED
  BY <1>1 DEF Apart

LEMMA EntryFacts ==
    ASSUME TypeOK, EntriesOwn, NEW n \in inv
    PROVE  /\ n.item \in ItemType /\ ItemOwn(n.item, sonar)
           /\ ~Removable(n) => Stale(n)
           /\ Removable(n) => n.item \in Live
BY DEF TypeOK, EntriesOwn, Live

LEMMA ResultFacts ==
    ASSUME TypeOK, TodoOwn, NEW r \in todo, NEW x, Same(x, r.item)
    PROVE  /\ r.item \in ItemType /\ ItemOwn(r.item, sonar)
           /\ ~Dead(r, inv) => r.item \in Live
<1>1. Keys(r.item) # {}
  BY DEF Same
<1> QED
  BY <1>1 DEF TypeOK, TodoOwn, Live

LEMMA OverwriteAcct ==
    ASSUME NEW x \in ItemType, NEW y \in ItemType
    PROVE  /\ Overwrite(x, y).acct \in {x.acct, y.acct}
           /\ y.id \notin {None, Empty} /\ Has(x, "id") => Has(Overwrite(x, y), "id")
<1> DEFINE m == Overwrite(x, y)
<1>1. \A f \in Fields : (y[f] = Absent /\ m[f] = x[f]) \/ (y[f] # Absent /\ m[f] = y[f])
  BY MergedFields
<1> HIDE DEF m
<1>2. "id" \in Fields /\ "acct" \in Fields
  BY DEF Fields, KeyFields
<1>3. (y.id = Absent /\ m.id = x.id) \/ (y.id # Absent /\ m.id = y.id)
  BY <1>1, <1>2
<1>4. m.acct = x.acct \/ m.acct = y.acct
  BY <1>1, <1>2
<1>5. y.id \notin {None, Empty} /\ Has(x, "id") => Has(m, "id")
  BY <1>3 DEF Has, Missing
<1> QED
  BY <1>4, <1>5 DEF m

LEMMA AddToLive ==
    ASSUME TypeOK, InvInv, Merging, UNCHANGED sonar,
           NEW r \in todo, ~Dead(r, inv), NEW n \in inv, AddTo(r, n)
    PROVE  InvInv' /\ (Doomed' \/ (Merging' /\ Owners(n.item) = Owners(r.item)))
<1> DEFINE m == Overwrite(n.item, r.item)
           stuck == IF Removable(n) THEN NotFiled ELSE n.filed
<1>1. /\ Same(n.item, r.item)
      /\ Goes(m, inv \ {n}, stuck)
      /\ todo' = Became(n.item, m, todo \ {r})
  BY DEF AddTo
<1>2. EntriesOwn /\ Apart /\ TodoOwn /\ Together(Live)
  BY DEF InvInv, Merging
<1>3. /\ n.item \in ItemType /\ ItemOwn(n.item, sonar)
      /\ ~Removable(n) => Stale(n)
      /\ Removable(n) => n.item \in Live
  BY <1>2, EntryFacts
<1>4. r.item \in ItemType /\ ItemOwn(r.item, sonar) /\ r.item \in Live
  BY <1>1, <1>2, ResultFacts
<1>5. /\ m.acct \in {n.item.acct, r.item.acct}
      /\ Has(n.item, "id") => Has(m, "id")
  BY <1>3, <1>4, OverwriteAcct DEF ItemOwn
<1>6. Owners(n.item) = Owners(r.item) => ItemOwn(m, sonar) /\ Owners(m) = Owners(n.item)
  BY <1>3, <1>4, MergeOwn
<1>7. inv \ {n} \in SUBSET inv /\ todo \ {r} \in SUBSET todo
  OBVIOUS
<1> HIDE DEF m
<1>8. CASE Removable(n)
  <2>1. stuck = {}
    BY <1>8 DEF NotFiled
  <2>2. InSonar(n.item) /\ n.item.acct = r.item.acct => Owners(n.item) = Owners(r.item)
    BY <1>2, <1>3, <1>4, <1>8 DEF Together
  <2>3. Owners(n.item) = Owners(r.item)
    BY <1>1, <1>3, <1>4, <2>2, SameOwners
  <2>4. Together(Live \cup {m})
    BY <1>2, <1>3, <1>4, <1>5, <1>6, <1>8, <2>3, MergedTogether
  <2>5. Merging'
    BY <1>1, <1>6, <1>7, <1>8, <2>1, <2>3, <2>4, GoesMerging
  <2>6. InvInv'
    BY <1>1, <1>6, <1>7, <2>1, <2>3, GoesInv
  <2> QED
    BY <2>3, <2>5, <2>6
<1>9. CASE ~Removable(n)
  <2>1. stuck = n.filed /\ Stale(n) /\ stuck # {} /\ Has(m, "id")
    BY <1>3, <1>5, <1>9 DEF Stale
  <2>2. pc' = "absorb" /\ mine'.item = m /\ mine'.stuck = stuck
    BY <1>1, <2>1, GoesIs
  <2>3. \A o \in inv \ {n} : IdKeys(o.item) \cap stuck = {}
    BY <1>2, <2>1, StaleApart
  <2>4. InvInv'
    BY <1>1, <1>7, <2>2, <2>3, GoesInv
  <2>5. CASE Keys(m) # stuck
    BY <2>1, <2>2, <2>4, <2>5 DEF Doomed
  <2>6. CASE Keys(m) = stuck
    <3>1. ~InSonar(m)
      BY <2>1, <2>6, StaleUnlinked
    <3>2. InSonar(n.item) /\ n.item.acct = r.item.acct => Owners(n.item) = Owners(r.item)
      BY <1>5, <3>1 DEF InSonar, Has
    <3>3. Owners(n.item) = Owners(r.item)
      BY <1>1, <1>3, <1>4, <3>2, SameOwners
    <3>4. Together(Live \cup {m})
      BY <1>2, <3>1, UnlinkedTogether
    <3>5. Merging'
      BY <1>1, <1>6, <1>7, <3>1, <3>3, <3>4, GoesMerging
    <3> QED
      BY <2>4, <3>3, <3>5
  <2> QED
    BY <2>5, <2>6
<1> QED
  BY <1>8, <1>9

\* The own item of an entry that cannot be removed, added to another entry: add finds
\* the entry next, and raises.
LEMMA AddToDead ==
    ASSUME TypeOK, InvInv, Merging, UNCHANGED sonar,
           NEW r \in todo, Dead(r, inv), NEW n \in inv, AddTo(r, n)
    PROVE  InvInv' /\ Doomed'
<1> DEFINE m == Overwrite(n.item, r.item)
           stuck == IF Removable(n) THEN NotFiled ELSE n.filed
<1>1. /\ Same(n.item, r.item)
      /\ Goes(m, inv \ {n}, stuck)
  BY DEF AddTo
<1>2. EntriesOwn /\ Apart /\ LiveApart /\ TodoOwn
  BY DEF InvInv, Merging
<1>3. /\ n.item \in ItemType /\ ItemOwn(n.item, sonar)
      /\ ~Removable(n) => Stale(n)
  BY <1>2, EntryFacts
<1>4. r.item \in ItemType /\ ItemOwn(r.item, sonar)
  BY <1>1, <1>2, ResultFacts
<1>5. PICK c \in inv : ~Removable(c) /\ c.item = r.item
  BY DEF Dead
<1>6. \A f \in KeyFields : (r.item[f] = Absent /\ m[f] = n.item[f])
                             \/ (r.item[f] # Absent /\ m[f] = r.item[f])
  BY <1>3, <1>4, MergedFields DEF Fields
<1> HIDE DEF m
<1>7. \A f \in KeyFields : r.item[f] \notin Missing => m[f] = r.item[f]
  BY <1>6 DEF Missing
<1>8. PICK f \in {"id"} \cup Identifiers : r.item[f] \notin Missing
  <2>1. IdKeys(r.item) \cap IdKeys(r.item) # {}
    BY <1>4 DEF ItemOwn
  <2> QED
    BY <2>1, IdKeysMeet
<1>9. f \in KeyFields /\ m[f] = r.item[f]
  BY <1>7, <1>8 DEF KeyFields
<1>10. CASE Removable(n)
  <2>1. stuck = {}
    BY <1>10 DEF NotFiled
  <2>2. c \in inv \ {n}
    BY <1>5, <1>10
  <2>3. Same(c.item, m)
    BY <1>5, <1>8, <1>9, SameIs
  <2>4. pc' = "absorb" /\ inv' = inv \ {n} /\ mine'.item = m /\ mine'.stuck = {}
    BY <1>1, <2>1, <2>2, <2>3, GoesIs
  <2>5. InvInv'
    BY <1>1, <2>1, <2>4, GoesInv
  <2>6. ASSUME NEW e \in inv \ {n}, Same(e.item, m), Removable(e)
        PROVE  FALSE
    <3>1. PICK g \in KeyFields : e.item[g] \notin Missing /\ e.item[g] = m[g]
      BY <2>6, SameIs
    <3>2. CASE m[g] = n.item[g]
      <4>1. Same(e.item, n.item)
        BY <3>1, <3>2, SameIs
      <4> QED
        BY <4>1, <1>2, <1>10, <2>6 DEF LiveApart
    <3>3. CASE m[g] = c.item[g] /\ g # "acct"
      <4>1. g \in {"id"} \cup Identifiers
        BY <3>3 DEF KeyFields
      <4>2. IdKeys(e.item) \cap IdKeys(c.item) # {}
        BY <3>1, <3>3, <4>1, IdKeysMeet
      <4> QED
        BY <4>2, <1>2, <1>5, <2>6 DEF Apart
    <3>4. CASE m[g] = c.item[g] /\ g = "acct"
      <4>1. PICK h \in KeyFields : n.item[h] \notin Missing /\ n.item[h] = c.item[h]
        BY <1>1, <1>5, SameIs
      <4>2. h = "acct"
        <5> SUFFICES ASSUME h # "acct"
                     PROVE  FALSE
          OBVIOUS
        <5>1. h \in {"id"} \cup Identifiers
          BY DEF KeyFields
        <5>2. IdKeys(n.item) \cap IdKeys(c.item) # {}
          BY <4>1, <5>1, IdKeysMeet
        <5> QED
          BY <5>2, <1>2, <2>2 DEF Apart
      <4>3. e.item["acct"] \notin Missing /\ e.item["acct"] = n.item["acct"]
        BY <3>1, <3>4, <4>1, <4>2
      <4>4. Same(e.item, n.item)
        BY <4>3, SameIs DEF KeyFields
      <4> QED
        BY <4>4, <1>2, <1>10, <2>6 DEF LiveApart
    <3> QED
      BY <3>1, <3>2, <3>3, <3>4, <1>5, <1>6
  <2> QED
    BY <2>2, <2>3, <2>4, <2>5, <2>6 DEF Doomed
<1>11. CASE ~Removable(n)
  <2>1. stuck = n.filed /\ Stale(n) /\ stuck # {}
    BY <1>3, <1>11 DEF Stale
  <2>2. pc' = "absorb" /\ mine'.item = m /\ mine'.stuck = stuck
    BY <1>1, <2>1, GoesIs
  <2>3. \A o \in inv \ {n} : IdKeys(o.item) \cap stuck = {}
    BY <1>2, <2>1, StaleApart
  <2>4. InvInv'
    BY <1>1, <2>2, <2>3, GoesInv
  <2>5. CASE c = n
    <3>1. \A g \in KeyFields : m[g] = n.item[g]
      BY <1>5, <1>6, <2>5
    <3>2. Keys(m) = Keys(n.item)
      BY <3>1 DEF Keys, KeyFields, Identifiers
    <3> QED
      BY <3>2, <1>11, <2>1, <2>2, <2>4 DEF Doomed, Removable
  <2>6. CASE c # n
    <3>1. <<f, m[f]>> \in Keys(m) /\ <<f, m[f]>> \in IdKeys(c.item)
      BY <1>5, <1>8, <1>9, KeyOf, IdKeyOf
    <3>2. <<f, m[f]>> \notin stuck
      BY <2>3, <2>6, <3>1
    <3> QED
      BY <3>1, <3>2, <2>1, <2>2, <2>4 DEF Doomed
  <2> QED
    BY <2>5, <2>6
<1> QED
  BY <1>10, <1>11

LEMMA AddNothingStep ==
    ASSUME InvInv, Merging, pc = "add", pc' # "absorb", UNCHANGED <<sonar, inv>>,
           todo' \subseteq todo
    PROVE  InvInv' /\ Merging'
<1>1. InvInv'
  BY DEF InvInv, RecordsOwn, EntriesOwn, Apart, LiveApart, StuckApart
<1>2. Live' \subseteq Live
  BY DEF Live
<1>3. Together(Live)'
  BY <1>2 DEF Merging, Together
<1>4. TodoOwn' /\ MineOwn'
  BY DEF Merging, TodoOwn, MineOwn
<1> QED
  BY <1>1, <1>3, <1>4 DEF Merging

LEMMA AddNewStep ==
    ASSUME TypeOK, InvInv, Merging, pc = "add", UNCHANGED sonar,
           NEW r \in todo, AddNew(r)
    PROVE  InvInv' /\ Merging'
<1>1. /\ Keys(r.item) # {}
      /\ \A n \in inv : ~Same(n.item, r.item)
      /\ inv' = inv \cup {File(r.item)}
      /\ todo' = todo \ {r}
      /\ pc' = "add"
  BY DEF AddNew
<1>2. Same(r.item, r.item)
  BY <1>1 DEF Same
<1>3. ~Dead(r, inv)
  BY <1>1, <1>2 DEF Dead
<1>4. ItemOwn(r.item, sonar) /\ r.item \in Live
  BY <1>2, <1>3, ResultFacts DEF Merging
<1>5. InvInv'
  <2>1. inv \in SUBSET inv
    OBVIOUS
  <2>2. pc' # "absorb"
    BY <1>1
  <2> QED
    BY <1>1, <1>4, <2>1, <2>2, FiledInv
<1>6. Live' \subseteq Live
  <2>1. ASSUME NEW n \in inv', Removable(n)
        PROVE  n.item \in Live
    <3>1. CASE n \in inv
      BY <2>1, <3>1 DEF Live
    <3>2. CASE n = File(r.item)
      BY <3>2, <1>4, FileIs
    <3> QED
      BY <1>1, <3>1, <3>2
  <2>2. ASSUME NEW q \in todo', ~Dead(q, inv')
        PROVE  q.item \in Live
    <3>1. q \in todo /\ ~Dead(q, inv)
      BY <1>1, <2>2 DEF Dead
    <3> QED
      BY <3>1 DEF Live
  <2> QED
    BY <1>1, <2>1, <2>2 DEF Live
<1>7. Together(Live)'
  BY <1>6 DEF Merging, Together
<1>8. TodoOwn' /\ MineOwn'
  BY <1>1 DEF Merging, TodoOwn, MineOwn
<1> QED
  BY <1>5, <1>7, <1>8 DEF Merging

LEMMA AddStep ==
    ASSUME IInv, Add
    PROVE  InvInv' /\ (Doomed \/ Merging)'
<1>1. TypeOK /\ InvInv /\ Merging /\ pc = "add" /\ UNCHANGED sonar
  BY DEF IInv, Add, Doomed
<1>2. PICK r \in todo : AddNothing(r) \/ AddNew(r) \/ \E n \in inv : AddTo(r, n)
  BY DEF Add
<1>3. CASE AddNothing(r)
  <2>1. pc' # "absorb" /\ UNCHANGED <<sonar, inv>> /\ todo' \subseteq todo
    BY <1>1, <1>3 DEF AddNothing
  <2> QED
    BY <1>1, <2>1, AddNothingStep
<1>4. CASE AddNew(r)
  BY <1>1, <1>4, AddNewStep
<1>5. ASSUME NEW n \in inv, AddTo(r, n)
      PROVE  InvInv' /\ (Doomed \/ Merging)'
  <2>1. CASE Dead(r, inv)
    BY <1>1, <1>5, <2>1, AddToDead
  <2>2. CASE ~Dead(r, inv)
    BY <1>1, <1>5, <2>2, AddToLive
  <2> QED
    BY <2>1, <2>2
<1> QED
  BY <1>2, <1>3, <1>4, <1>5

\* What Absorb does with the element it finds.
AbsorbFound(n) ==
    /\ Same(n.item, mine.item)
    /\ Removable(n)
    /\ Goes(Overwrite(mine.item, n.item), inv \ {n}, mine.stuck)
    /\ todo' = Became(mine.item, Overwrite(mine.item, n.item), todo)

LEMMA AbsorbFoundStep ==
    ASSUME IInv, pc = "absorb", UNCHANGED sonar, NEW n \in inv, AbsorbFound(n)
    PROVE  /\ InvInv' /\ (mine.stuck # {} => Doomed')
           /\ Doomed' \/ (Merging /\ Merging' /\ Owners(mine.item) = Owners(n.item))
<1>1. /\ Same(n.item, mine.item)
      /\ Removable(n)
      /\ Goes(Overwrite(mine.item, n.item), inv \ {n}, mine.stuck)
      /\ todo' = Became(mine.item, Overwrite(mine.item, n.item), todo)
  BY DEF AbsorbFound
<1>2. /\ TypeOK /\ InvInv /\ EntriesOwn /\ Apart /\ (Doomed \/ Merging)
      /\ pc = "absorb" /\ UNCHANGED sonar
      /\ mine.item \in ItemType
  BY DEF IInv, InvInv, TypeOK
<1>3. n.item \in ItemType /\ ItemOwn(n.item, sonar) /\ n.item \in Live
  BY <1>1, <1>2, EntryFacts
<1>4. \A o \in inv : IdKeys(o.item) \cap mine.stuck = {}
  BY <1>2 DEF InvInv, StuckApart
<1> DEFINE m == Overwrite(mine.item, n.item)
<1>5. \A f \in KeyFields : (n.item[f] = Absent /\ m[f] = mine.item[f])
                             \/ (n.item[f] # Absent /\ m[f] = n.item[f])
  BY <1>2, <1>3, MergedFields DEF Fields
<1>6. m.acct \in {mine.item.acct, n.item.acct}
  BY <1>2, <1>3, OverwriteAcct
<1>7. inv \ {n} \in SUBSET inv /\ todo \in SUBSET todo
  OBVIOUS
<1>8. CASE mine.stuck # {}
  <2> HIDE DEF m
  <2>1. pc' = "absorb" /\ inv' = inv \ {n} /\ mine'.item = m /\ mine'.stuck = mine.stuck
    BY <1>1, <1>8, GoesIs DEF m
  <2>2. InvInv'
    BY <1>1, <1>2, <1>4, <1>7, <2>1, GoesInv
  <2>3. PICK f \in {"id"} \cup Identifiers : n.item[f] \notin Missing
    <3>1. IdKeys(n.item) \cap IdKeys(n.item) # {}
      BY <1>3 DEF ItemOwn
    <3> QED
      BY <3>1, IdKeysMeet
  <2>4. f \in KeyFields /\ m[f] = n.item[f]
    BY <1>5, <2>3 DEF KeyFields, Missing
  <2>5. <<f, m[f]>> \in Keys(m) /\ <<f, m[f]>> \in IdKeys(n.item)
    BY <2>3, <2>4, KeyOf, IdKeyOf
  <2>6. <<f, m[f]>> \notin mine.stuck
    BY <1>4, <2>5
  <2> QED
    BY <1>8, <2>1, <2>2, <2>5, <2>6 DEF Doomed
<1>9. CASE mine.stuck = {}
  <2>1. Merging
    BY <1>1, <1>2, <1>9 DEF Doomed
  <2>2. ItemOwn(mine.item, sonar) /\ mine.item \in Live /\ Together(Live)
    BY <1>2, <2>1 DEF Merging, MineOwn, Live
  <2>3. InSonar(mine.item) /\ mine.item.acct = n.item.acct => Owners(mine.item) = Owners(n.item)
    BY <1>3, <2>2 DEF Together
  <2>4. Same(mine.item, n.item)
    BY <1>1, SameCommutes
  <2>5. Owners(mine.item) = Owners(n.item)
    BY <1>2, <1>3, <2>2, <2>3, <2>4, SameOwners
  <2>6. ItemOwn(m, sonar) /\ Owners(m) = Owners(mine.item)
    BY <1>2, <1>3, <2>2, <2>5, MergeOwn
  <2> HIDE DEF m
  <2>7. Together(Live \cup {m})
    BY <1>3, <1>6, <2>2, <2>5, <2>6, MergedTogether
  <2>8. Goes(m, inv \ {n}, mine.stuck) /\ todo' = Became(mine.item, m, todo)
    BY <1>1 DEF m
  <2>9. \A o \in inv \ (inv \ {n}) : Removable(o) \/ o.item = mine.item
    BY <1>1
  <2>10. Merging'
    BY <1>2, <1>7, <1>9, <2>1, <2>6, <2>7, <2>8, <2>9, GoesMerging
  <2>11. InvInv'
    BY <1>2, <1>7, <1>9, <2>6, <2>8, GoesInv
  <2> QED
    BY <1>9, <2>1, <2>5, <2>10, <2>11
<1> QED
  BY <1>8, <1>9

LEMMA AbsorbStep ==
    ASSUME IInv, Absorb
    PROVE  InvInv' /\ (Doomed \/ Merging)'
<1>1. /\ pc = "absorb" /\ UNCHANGED sonar
      /\ \E n \in inv : AbsorbFound(n)
  BY DEF Absorb, AbsorbFound
<1> QED
  BY <1>1, AbsorbFoundStep

LEMMA AbsorbItselfStep ==
    ASSUME IInv, AbsorbItself
    PROVE  InvInv' /\ Merging'
<1>1. /\ mine.stuck # {} /\ mine.stuck = Keys(mine.item)
      /\ Goes(mine.item, inv, {}) /\ UNCHANGED <<sonar, todo>> /\ pc = "absorb"
  BY DEF AbsorbItself, NotFiled
<1>2. TypeOK /\ InvInv /\ Merging
  BY <1>1 DEF IInv, Doomed
<1>3. ItemOwn(mine.item, sonar) /\ mine.item \in Live /\ Together(Live)
  BY <1>1, <1>2 DEF Merging, MineOwn, Live
<1>4. Became(mine.item, mine.item, todo) = todo
  <2>1. \A r \in todo : [r EXCEPT !.item = r.item] = r
    BY <1>2 DEF TypeOK
  <2>2. \A r \in todo : (IF r.own /\ r.item = mine.item
                          THEN [r EXCEPT !.item = mine.item] ELSE r) = r
    BY <2>1
  <2> QED
    BY <2>2 DEF Became
<1>5. Live \cup {mine.item} = Live
  BY <1>3
<1>6. inv \in SUBSET inv /\ todo \in SUBSET todo
  OBVIOUS
<1>7. Merging'
  BY <1>1, <1>2, <1>3, <1>4, <1>5, <1>6, GoesMerging
<1>8. InvInv'
  BY <1>1, <1>2, <1>3, <1>6, GoesInv
<1> QED
  BY <1>7, <1>8

-----------------------------------------------------------------------------
(* What the methods that read get. *)

LEMMA RecordFacts ==
    ASSUME TypeOK, NEW id \in DOMAIN sonar
    PROVE  /\ sonar[id] \in Record /\ id \in Nat /\ id \notin Missing
           /\ \A f \in Identifiers : sonar[id][f] \in Devices \cup {None}
<1>1. sonar[id] \in Record /\ id \in Nat
  BY DEF TypeOK
<1>2. id \notin Missing
  BY <1>1, MissingAssumption
<1>3. \A f \in Identifiers : sonar[id][f] \in Devices \cup {None}
  BY <1>1 DEF Record, Identifiers
<1> QED
  BY <1>1, <1>2, <1>3

LEMMA DeviceIs ==
    ASSUME NEW d \in Devices
    PROVE  d \notin Missing /\ d # None /\ d # Absent /\ d # Empty
BY MissingAssumption DEF Missing

LEMMA AccountIs ==
    ASSUME NEW a \in AcctIds
    PROVE  a # None
<1>1. a \in Nat
  BY AccountsAssumption DEF AcctIds
<1> QED
  BY <1>1, MissingAssumption DEF Missing

LEMMA FromRecordIs ==
    ASSUME TypeOK, RecordsOwn, NEW id \in DOMAIN sonar, NEW x \in ItemType,
           x.id = id,
           \A f \in Identifiers : x[f] = IF sonar[id][f] = None THEN Absent ELSE sonar[id][f],
           (InSonar(x) /\ x.acct.id = sonar[id].acct) \/ ~Has(x, "acct")
    PROVE  ItemOwn(x, sonar)
<1>1. \A f \in Identifiers : /\ x[f] \notin Missing <=> sonar[id][f] \notin Missing
                             /\ x[f] \notin Missing => x[f] = sonar[id][f]
                             /\ x[f] \notin {None, Empty}
  <2> SUFFICES ASSUME NEW f \in Identifiers
               PROVE  /\ x[f] \notin Missing <=> sonar[id][f] \notin Missing
                      /\ x[f] \notin Missing => x[f] = sonar[id][f]
                      /\ x[f] \notin {None, Empty}
    OBVIOUS
  <2>1. CASE sonar[id][f] = None
    BY <2>1, MissingAssumption DEF Missing
  <2>2. CASE sonar[id][f] # None
    BY <2>2, RecordFacts, DeviceIs
  <2> QED
    BY <2>1, <2>2
<1>2. Owners(x) = Owners(sonar[id])
  <2>1. \A c : c \in Owners(x) <=> \E f \in Identifiers : x[f] \notin Missing /\ c = Whose(x[f])
    BY OwnersIs
  <2>2. \A c : c \in Owners(sonar[id]) <=>
            \E f \in Identifiers : sonar[id][f] \notin Missing /\ c = Whose(sonar[id][f])
    BY OwnersIs
  <2>3. \A c : c \in Owners(x) <=> c \in Owners(sonar[id])
    BY <1>1, <2>1, <2>2
  <2> QED
    BY <2>3
<1>3. OneCustomer(x)
  BY <1>2, OwnersIs DEF RecordsOwn
<1>4. Has(x, "id")
  BY RecordFacts DEF Has
<1>5. IdKeys(x) # {}
  BY <1>4, HasIdKey
<1>6. x.id \notin {None, Empty}
  BY <1>4 DEF Has, Missing
<1>7. InSonar(x) => Justified(Owners(x), x.acct.id, sonar)
  BY <1>2 DEF RecordsOwn, InSonar
<1> QED
  BY <1>1, <1>2, <1>3, <1>4, <1>5, <1>6, <1>7 DEF ItemOwn, InSonar

LEMMA FromRecordOwn ==
    ASSUME TypeOK, RecordsOwn, NEW id \in DOMAIN sonar
    PROVE  /\ FromRecord(id) \in ItemType /\ ItemOwn(FromRecord(id), sonar)
           /\ ~InSonar(FromRecord(id))
<1> DEFINE x == FromRecord(id)
<1>1. /\ x.id = id /\ x.acct = Absent
      /\ \A f \in Identifiers : x[f] = IF sonar[id][f] = None THEN Absent ELSE sonar[id][f]
  BY DEF FromRecord, Bare, Identifiers
<1>2. \A f \in Identifiers : sonar[id][f] \in Devices \cup {None}
  BY RecordFacts
<1>6. sonar[id].model \in Readers \cup {None}
  BY RecordFacts DEF Record
<1>3. x \in ItemType
  BY <1>2, <1>6 DEF FromRecord, Bare, ItemType, Optional, Missing, Identifiers
<1>4. ~Has(x, "acct") /\ ~InSonar(x)
  BY <1>1 DEF Has, InSonar, Missing
<1> HIDE DEF x
<1>5. ItemOwn(x, sonar)
  BY <1>1, <1>3, <1>4, FromRecordIs
<1> QED
  BY <1>3, <1>4, <1>5 DEF x

\* The item of an account, as ReadAccounts makes it.
AccountItem(a, id) == [FromRecord(id) EXCEPT !.linked = TRUE,
                           !.acct = [id |-> a, name |-> Accounts[a]]]

LEMMA AccountItemOwn ==
    ASSUME TypeOK, RecordsOwn, NEW id \in DOMAIN sonar, NEW a \in AcctIds, sonar[id].acct = a
    PROVE  /\ AccountItem(a, id) \in ItemType /\ ItemOwn(AccountItem(a, id), sonar)
           /\ AccountItem(a, id).acct = [id |-> a, name |-> Accounts[a]]
<1> DEFINE x == AccountItem(a, id)
           acct == [id |-> a, name |-> Accounts[a]]
<1>1. acct \in Acct
  BY AccountsAssumption DEF AcctIds, Acct
<1>2. /\ x.id = id /\ x.acct = acct /\ x.acct.id = a
      /\ \A f \in Identifiers : x[f] = IF sonar[id][f] = None THEN Absent ELSE sonar[id][f]
  BY DEF AccountItem, FromRecord, Bare, Identifiers
<1>4. x \in ItemType
  <2> DEFINE y == FromRecord(id)
  <2>1. y \in ItemType
    BY FromRecordOwn
  <2>2. x = [y EXCEPT !.linked = TRUE, !.acct = acct]
    BY DEF AccountItem
  <2> HIDE DEF y, acct, x
  <2> QED
    BY <1>1, <2>1, <2>2 DEF ItemType
<1>5. InSonar(x)
  <2>1. acct \notin Missing
    BY <1>1, MissingAssumption
  <2>2. a # None
    BY AccountIs
  <2> QED
    BY <1>2, <2>1, <2>2 DEF InSonar, Has
<1>7. InSonar(x) /\ x.acct.id = sonar[id].acct
  BY <1>2, <1>5
<1> HIDE DEF x, acct
<1>6. ItemOwn(x, sonar)
  BY <1>2, <1>4, <1>7, FromRecordIs
<1> QED
  BY <1>2, <1>4, <1>6 DEF x, acct

\* An item that knows devices of one customer and no record.
LEMMA ReadOwn ==
    ASSUME NEW x \in ItemType, NEW o,
           \A f \in Identifiers : x[f] \in Devices => Whose(x[f]) = o,
           \A f \in Identifiers : x[f] = Empty => \E g \in Garbled : Whose(g[1]) = o,
           \E f \in Identifiers : x[f] \in Devices,
           x.id = Absent, ~Has(x, "acct") \/ (x.acct.id = None /\ Group(x.acct.name) = o)
    PROVE  ItemOwn(x, sonar) /\ ~InSonar(x) /\ Owners(x) = {o}
<1>1. \A f \in Identifiers : x[f] \notin Missing <=> x[f] \in Devices
  <2>1. \A f \in Identifiers : x[f] \in Devices \cup Missing
    BY DEF ItemType, Optional, Identifiers
  <2> QED
    BY <2>1, DeviceIs
<1>2. \A c : c \in Owners(x) <=> c = o
  BY <1>1, OwnersIs
<1>3. Owners(x) = {o} /\ Owners(x) # {}
  BY <1>2
<1>4. OneCustomer(x) /\ IdentifiersIn(x) # {} /\ IdKeys(x) # {}
  BY <1>2, <1>3, OwnersIs, HasIdKey
<1>5. x.id \notin {None, Empty} /\ ~Has(x, "id")
  BY MissingAssumption DEF Has, Missing
<1> QED
  BY <1>3, <1>4, <1>5 DEF ItemOwn, InSonar

LEMMA SubscriberOwn ==
    ASSUME NEW d \in Devices
    PROVE  LET x == [Bare EXCEPT !.imei = d, !.imsi = d,
                         !.acct = [id |-> None, name |-> Raemis[d]]]
           IN x \in ItemType /\ ItemOwn(x, sonar) /\ ~InSonar(x)
<1> DEFINE acct == [id |-> None, name |-> Raemis[d]]
           x == [Bare EXCEPT !.imei = d, !.imsi = d, !.acct = acct]
<1>1. acct \in Acct
  BY DevicesAssumption DEF Acct
<1>2. /\ x.id = Absent /\ x.acct = acct /\ x.imei = d
      /\ \A f \in Identifiers : x[f] \in {d, Absent}
  BY DEF Bare, Identifiers
<1>3. x.acct.id = None /\ x.acct.name = Raemis[d]
  BY <1>2
<1>4. x \in ItemType
  <2> HIDE DEF acct
  <2> QED
    BY <1>1 DEF Bare, ItemType, Optional, Missing
<1> HIDE DEF x
<1>5. \E f \in Identifiers : x[f] \in Devices
  BY <1>2 DEF Identifiers
<1>6. ItemOwn(x, sonar) /\ ~InSonar(x)
  BY <1>2, <1>3, <1>4, <1>5, ReadOwn, MissingAssumption DEF Whose, Missing
<1> QED
  BY <1>4, <1>6 DEF x

LEMMA SessionOwn ==
    ASSUME NEW d \in Devices
    PROVE  LET x == [Bare EXCEPT !.imsi = d, !.ip = d]
           IN x \in ItemType /\ ItemOwn(x, sonar) /\ ~InSonar(x)
<1> DEFINE x == [Bare EXCEPT !.imsi = d, !.ip = d]
<1>1. /\ x.id = Absent /\ x.acct = Absent /\ x.imsi = d
      /\ \A f \in Identifiers : x[f] \in {d, Absent}
  BY DEF Bare, Identifiers
<1>2. x \in ItemType
  BY DEF Bare, ItemType, Optional, Missing
<1> HIDE DEF x
<1>3. (\E f \in Identifiers : x[f] \in Devices) /\ ~Has(x, "acct")
  BY <1>1 DEF Identifiers, Has, Missing
<1>4. ItemOwn(x, sonar) /\ ~InSonar(x)
  BY <1>1, <1>2, <1>3, ReadOwn, MissingAssumption DEF Missing
<1> QED
  BY <1>2, <1>4 DEF x

LEMMA UnreadIs == \A reader : Unread(reader) \in {None, Absent}
BY DEF Unread

LEMMA SaidIs ==
    ASSUME NEW d \in Devices, NEW f \in Identifiers
    PROVE  Said(d, f) = d \/ (Said(d, f) = Empty /\ <<d, f>> \in Garbled)
BY DEF Said

\* An item made of a read: each identifier is what a device of one customer says, if any.
ReadOf(x, reader, o) ==
    /\ x \in ItemType
    /\ x.id = Absent /\ x.acct = Absent /\ x.ip = Absent /\ x.linked = FALSE
    /\ \A f \in Identifiers : \/ x[f] = Unread(reader)
                              \/ \E d \in Devices : /\ Whose(d) = o /\ x[f] = Said(d, f)
                                                   /\ f \in Says(reader, d)

LEMMA WholeIs ==
    ASSUME NEW reader \in Readers, NEW d \in Devices
    PROVE  /\ ReadOf(Whole(reader, d), reader, Whose(d))
           /\ \A f \in Identifiers : Whole(reader, d)[f] =
                  IF f \in Says(reader, d) THEN Said(d, f) ELSE Unread(reader)
           /\ Reader[d] = reader => Whole(reader, d).model = reader
<1> DEFINE Value(f) == IF f \in Says(reader, d) THEN Said(d, f) ELSE Unread(reader)
           model == IF reader # "snmp" THEN reader
                    ELSE IF Says(reader, d) = {} THEN Absent ELSE Reader[d]
           x == [id |-> Absent, mac |-> Value("mac"), imei |-> Value("imei"),
                 imsi |-> Value("imsi"), acct |-> Absent, linked |-> FALSE,
                 model |-> model, ip |-> Absent]
<1>1. \A f \in Identifiers : Value(f) \in Devices \cup Missing
  BY UnreadIs, SaidIs DEF Missing
<1>2. model \in Readers \cup {Absent} /\ (Reader[d] = reader => model = reader)
  BY DevicesAssumption DEF Says, Identifiers
<1>3. Whole(reader, d) = x
  <2>1. Whole(reader, d) = [Bare EXCEPT !.mac = Value("mac"), !.imei = Value("imei"),
                                        !.imsi = Value("imsi"), !.model = model]
    BY DEF Whole
  <2> HIDE DEF Value, model
  <2> QED
    BY <2>1 DEF Bare
<1>4. \A f \in Identifiers : x[f] = Value(f)
  <2> HIDE DEF Value, model
  <2> QED
    BY DEF Identifiers
<1>5. x \in ItemType
  <2>1. /\ Value("mac") \in Devices \cup Missing /\ Value("imei") \in Devices \cup Missing
        /\ Value("imsi") \in Devices \cup Missing /\ Absent \in Missing
    BY <1>1 DEF Identifiers, Missing
  <2> HIDE DEF Value, model
  <2> QED
    BY <1>2, <2>1 DEF ItemType, Optional
<1>6. \A f \in Identifiers :
        \/ x[f] = Unread(reader)
        \/ \E e \in Devices : Whose(e) = Whose(d) /\ x[f] = Said(e, f) /\ f \in Says(reader, e)
  BY <1>4
<1>7. /\ x.id = Absent /\ x.acct = Absent /\ x.ip = Absent /\ x.linked = FALSE
      /\ x.model = model
  OBVIOUS
<1> HIDE DEF x, model
<1>8. ReadOf(x, reader, Whose(d))
  BY <1>5, <1>6, <1>7 DEF ReadOf
<1> QED
  BY <1>2, <1>3, <1>4, <1>7, <1>8

LEMMA PartsAre ==
    ASSUME NEW reader \in Readers, NEW e \in Devices,
           NEW x \in Parts(reader, {d \in Devices : Whose(d) = Whose(e)})
    PROVE  ReadOf(x, reader, Whose(e))
<1> DEFINE devices == {d \in Devices : Whose(d) = Whose(e)}
           Values(f) == {Unread(reader)}
                            \cup {Said(d, f) : d \in {c \in devices : f \in Says(reader, c)}}
           models == IF reader # "snmp" THEN {reader} ELSE {"telrad", "snmp", Absent}
<1>1. /\ x.mac \in Values("mac") /\ x.imei \in Values("imei") /\ x.imsi \in Values("imsi")
      /\ x.model \in models
      /\ x.id = Absent /\ x.acct = Absent /\ x.ip = Absent /\ x.linked = FALSE
      /\ x = [id |-> x.id, mac |-> x.mac, imei |-> x.imei, imsi |-> x.imsi, acct |-> x.acct,
              linked |-> x.linked, model |-> x.model, ip |-> x.ip]
  <2>1. x \in [id : {Absent}, mac : Values("mac"), imei : Values("imei"), imsi : Values("imsi"),
               acct : {Absent}, linked : {FALSE}, model : models, ip : {Absent}]
    BY DEF Parts
  <2> HIDE DEF Values, models
  <2> QED
    BY <2>1
<1>2. models \subseteq Readers \cup {Absent}
  BY DEF Readers
<1>3. \A f \in Identifiers : \A v \in Values(f) :
        \/ v = Unread(reader)
        \/ \E d \in Devices : Whose(d) = Whose(e) /\ v = Said(d, f) /\ f \in Says(reader, d)
  OBVIOUS
<1> HIDE DEF models, Values
<1>4. \A f \in Identifiers : x[f] \in Values(f)
  BY <1>1 DEF Identifiers
<1>5. ASSUME NEW f \in Identifiers, NEW v \in Values(f)
      PROVE  v \in Devices \cup Missing
  <2>1. CASE v = Unread(reader)
    BY <2>1, UnreadIs DEF Missing
  <2>2. CASE \E d \in Devices : v = Said(d, f)
    BY <2>2, SaidIs DEF Missing
  <2> QED
    BY <1>3, <2>1, <2>2
<1>6. /\ x.mac \in Devices \cup Missing /\ x.imei \in Devices \cup Missing
      /\ x.imsi \in Devices \cup Missing /\ Absent \in Missing
  BY <1>1, <1>5 DEF Identifiers, Missing
<1>7. x \in ItemType
  BY <1>1, <1>2, <1>6 DEF ItemType, Optional
<1> QED
  BY <1>1, <1>3, <1>4, <1>7 DEF ReadOf

LEMMA ReadOfOwn ==
    ASSUME NEW x, NEW reader, NEW o, ReadOf(x, reader, o)
    PROVE  /\ x \in ItemType /\ ~InSonar(x)
           /\ \/ Keys(x) = {}
              \/ ItemOwn(x, sonar) /\ Owners(x) = {o} /\ \E f \in Identifiers : x[f] \in Devices
<1>1. /\ x \in ItemType /\ x.id = Absent /\ x.acct = Absent
      /\ \A f \in Identifiers : \/ x[f] = Unread(reader)
                                \/ \E d \in Devices : Whose(d) = o /\ x[f] = Said(d, f)
  BY DEF ReadOf
<1>2. ~Has(x, "acct") /\ ~InSonar(x) /\ ~Has(x, "id")
  BY <1>1 DEF InSonar, Has, Missing
<1>3. ASSUME NEW f \in Identifiers
      PROVE  /\ x[f] \in Devices => Whose(x[f]) = o
             /\ x[f] = Empty => \E g \in Garbled : Whose(g[1]) = o
             /\ x[f] \in Devices \cup Missing
  <2>1. CASE x[f] = Unread(reader)
    BY <2>1, UnreadIs, DeviceIs, MissingAssumption DEF Missing
  <2>2. ASSUME NEW d \in Devices, Whose(d) = o, x[f] = Said(d, f)
        PROVE  /\ x[f] \in Devices => Whose(x[f]) = o
               /\ x[f] = Empty => \E g \in Garbled : Whose(g[1]) = o
               /\ x[f] \in Devices \cup Missing
    <3>1. d # Empty
      BY DeviceIs
    <3>2. CASE x[f] = d
      BY <2>2, <3>1, <3>2
    <3>3. CASE x[f] = Empty /\ <<d, f>> \in Garbled
      <4>1. x[f] \notin Devices /\ <<d, f>>[1] = d
        BY <3>3, DeviceIs
      <4> QED
        BY <2>2, <3>3, <4>1 DEF Missing
    <3> QED
      BY <2>2, <3>2, <3>3, SaidIs
  <2> QED
    BY <1>1, <2>1, <2>2
<1>4. CASE \E f \in Identifiers : x[f] \in Devices
  BY <1>1, <1>2, <1>3, <1>4, ReadOwn
<1>5. CASE ~\E f \in Identifiers : x[f] \in Devices
  <2>1. \A f \in KeyFields : x[f] \in Missing
    BY <1>2, <1>3, <1>5 DEF KeyFields, Has
  <2>2. Keys(x) = {}
    BY <2>1 DEF Keys, KeyFields, Identifiers
  <2> QED
    BY <1>1, <1>2, <2>2
<1> QED
  BY <1>4, <1>5

LEMMA Received ==
    ASSUME IInv, pc # "absorb", pc' # "absorb", UNCHANGED <<sonar, inv, mine>>,
           \A r \in todo' : Keys(r.item) = {} \/ ItemOwn(r.item, sonar),
           \/ inv = {} /\ Together({r.item : r \in todo'})
           \/ \A r \in todo' : ~InSonar(r.item) \/ (r.own /\ r.item \in Items)
    PROVE  InvInv' /\ Merging'
<1>1. InvInv /\ Merging
  BY DEF IInv, Doomed
<1>2. InvInv'
  BY <1>1 DEF InvInv, RecordsOwn, EntriesOwn, Apart, LiveApart, StuckApart
<1>3. TodoOwn' /\ MineOwn'
  BY DEF TodoOwn, MineOwn
<1>4. CASE inv = {} /\ Together({r.item : r \in todo'})
  <2>1. Live' \subseteq {r.item : r \in todo'}
    BY <1>4 DEF Live
  <2> QED
    BY <1>2, <1>3, <1>4, <2>1 DEF Merging, Together
<1>5. CASE \A r \in todo' : ~InSonar(r.item) \/ (r.own /\ r.item \in Items)
  <2>1. ASSUME NEW x \in Live', InSonar(x)
        PROVE  x \in Live
    <3>1. CASE \E n \in inv : Removable(n) /\ x = n.item
      BY <3>1 DEF Live
    <3>2. CASE \E r \in todo' : ~Dead(r, inv) /\ x = r.item
      <4>1. PICK r \in todo' : ~Dead(r, inv) /\ x = r.item
        BY <3>2
      <4>2. r.own /\ r.item \in Items
        BY <1>5, <2>1, <4>1
      <4>3. PICK n \in inv : n.item = r.item
        BY <4>2 DEF Items
      <4>4. Removable(n)
        BY <4>1, <4>2, <4>3 DEF Dead
      <4> QED
        BY <4>1, <4>3, <4>4 DEF Live
    <3> QED
      BY <2>1, <3>1, <3>2 DEF Live
  <2>2. \A x, y : InSonar(x) /\ x.acct = y.acct => InSonar(y)
    BY DEF InSonar, Has
  <2>3. Together(Live)'
    BY <1>1, <2>1, <2>2 DEF Merging, Together
  <2> QED
    BY <1>2, <1>3, <2>3 DEF Merging
<1> QED
  BY <1>4, <1>5

LEMMA FaultsCounted ==
    ASSUME TypeOK, Fault
    PROVE  faults' \in 0..MaxFaults
BY BoundsAssumption DEF TypeOK, Fault

LEMMA ResultsAre ==
    ASSUME NEW items
    PROVE  Results(items) \subseteq [item : items, own : BOOLEAN]
<1>1. \A i \in items : [item |-> i, own |-> FALSE] \in [item : items, own : BOOLEAN]
  OBVIOUS
<1> QED
  BY <1>1 DEF Results

LEMMA ReceiveStep ==
    ASSUME IInv, pc \in {"accounts", "inventory", "ready"},
           NEW items, NEW scan \in SUBSET {"base", "subscribers", "network", "stats"},
           NEW then \in {"inventory", "telrad", "ready"},
           Receive(items, scan, then),
           \A i \in items : i \in ItemType /\ ItemOwn(i, sonar),
           \/ inv = {} /\ Together(items)
           \/ \A i \in items : ~InSonar(i)
    PROVE  IInv'
<1>1. todo' \subseteq Results(items) /\ pc' = "add" /\ next' = then
  BY DEF Receive
<1>2. UNCHANGED <<sonar, inv, mine, tasks>>
  BY DEF Receive
<1>3. done' \subseteq {"base", "subscribers", "network", "stats"}
  BY DEF Receive, IInv, TypeOK
<1>4. faults' \in 0..MaxFaults
  <2>1. Fault \/ Fine
    BY DEF Receive
  <2> QED
    BY <2>1, FaultsCounted DEF IInv, TypeOK, Fine
<1>5. \A r \in todo' : /\ r.item \in items
                       /\ r \in [item : ItemType, own : BOOLEAN]
  <2>1. \A r \in todo' : r \in [item : items, own : BOOLEAN]
    BY <1>1, ResultsAre
  <2>2. \A i \in items : i \in ItemType
    OBVIOUS
  <2> QED
    BY <2>1, <2>2
<1>6. ItemType' = ItemType
  BY <1>2 DEF ItemType
<1>7. tasks = {}
  BY DEF IInv, PlaceInv
<1>8. TypeOK'
  <2>1. TypeOK
    BY DEF IInv
  <2>2. mine'.item \in ItemType' /\ \A n \in inv' : n.item \in ItemType'
    BY <1>2, <1>6, <2>1 DEF TypeOK
  <2>3. sonar' \in Seq(Record) /\ tasks' \subseteq inv'
    BY <1>2, <2>1 DEF TypeOK
  <2>4. pc' \in Places /\ next' \in Places
    BY <1>1 DEF Places
  <2>5. todo' \subseteq [item : ItemType', own : BOOLEAN]
    BY <1>5, <1>6
  <2> QED
    BY <1>3, <1>4, <2>2, <2>3, <2>4, <2>5 DEF TypeOK
<1>9. PlaceInv'
  BY <1>1, <1>2, <1>7 DEF IInv, PlaceInv
<1>10. TaskInv'
  BY <1>2, <1>7 DEF TaskInv
<1>11. InvInv' /\ Merging'
  <2>1. \A r \in todo' : Keys(r.item) = {} \/ ItemOwn(r.item, sonar)
    BY <1>5
  <2>2. CASE inv = {} /\ Together(items)
    <3>1. Together({r.item : r \in todo'})
      BY <1>5, <2>2 DEF Together
    <3> QED
      BY <1>1, <1>2, <2>1, <2>2, <3>1, Received
  <2>3. CASE \A i \in items : ~InSonar(i)
    BY <1>1, <1>2, <1>5, <2>1, <2>3, Received
  <2> QED
    BY <2>2, <2>3
<1> QED
  BY <1>8, <1>9, <1>10, <1>11 DEF IInv

LEMMA ReadAccountsStep ==
    ASSUME IInv, ReadAccounts
    PROVE  IInv'
<1> DEFINE At(a) == {id \in DOMAIN sonar : sonar[id].acct = a}
           served == {a \in AcctIds : At(a) # {}}
<1>1. PICK first \in [served -> DOMAIN sonar] :
        /\ \A a \in served : first[a] \in At(a)
        /\ Receive({[FromRecord(first[a]) EXCEPT !.linked = TRUE,
                        !.acct = [id |-> a, name |-> Accounts[a]]] : a \in served},
                   {}, "inventory")
  BY DEF ReadAccounts
<1> DEFINE items == {AccountItem(a, first[a]) : a \in served}
<1>2. Receive(items, {}, "inventory")
  BY <1>1 DEF AccountItem
<1>3. TypeOK /\ RecordsOwn /\ inv = {} /\ pc = "accounts"
  BY DEF IInv, InvInv, PlaceInv, ReadAccounts
<1>4. \A a \in served : /\ a \in AcctIds /\ first[a] \in DOMAIN sonar
                        /\ sonar[first[a]].acct = a
  BY <1>1
<1> HIDE DEF served
<1>5. \A a \in served : /\ AccountItem(a, first[a]) \in ItemType
                        /\ ItemOwn(AccountItem(a, first[a]), sonar)
                        /\ AccountItem(a, first[a]).acct = [id |-> a, name |-> Accounts[a]]
  BY <1>3, <1>4, AccountItemOwn
<1>6. \A i \in items : i \in ItemType /\ ItemOwn(i, sonar)
  BY <1>5
<1>7. Together(items)
  <2> SUFFICES ASSUME NEW a \in served, NEW b \in served,
                      AccountItem(a, first[a]).acct = AccountItem(b, first[b]).acct
               PROVE  a = b
    BY DEF Together
  <2>1. [id |-> a, name |-> Accounts[a]] = [id |-> b, name |-> Accounts[b]]
    BY <1>5
  <2> QED
    BY <2>1
<1> HIDE DEF items
<1> QED
  BY <1>2, <1>3, <1>6, <1>7, ReceiveStep

LEMMA ReadInventoryStep ==
    ASSUME IInv, ReadInventory
    PROVE  IInv'
<1> DEFINE items == {FromRecord(id) : id \in DOMAIN sonar}
<1>1. Receive(items, {"base"}, "ready") /\ pc = "inventory"
  BY DEF ReadInventory
<1>2. \A i \in items : i \in ItemType /\ ItemOwn(i, sonar) /\ ~InSonar(i)
  BY FromRecordOwn DEF IInv, InvInv
<1> HIDE DEF items
<1> QED
  BY <1>1, <1>2, ReceiveStep

LEMMA ReadSubscribersStep ==
    ASSUME IInv, ReadSubscribers
    PROVE  IInv'
<1> DEFINE items == {[Bare EXCEPT !.imei = d, !.imsi = d,
                          !.acct = [id |-> None, name |-> Raemis[d]]] : d \in Devices}
<1>1. Receive(items, {"subscribers"}, "ready") /\ pc = "ready"
  BY DEF ReadSubscribers
<1>2. \A i \in items : i \in ItemType /\ ItemOwn(i, sonar) /\ ~InSonar(i)
  BY SubscriberOwn
<1> HIDE DEF items
<1> QED
  BY <1>1, <1>2, ReceiveStep

LEMMA ReadSessionsStep ==
    ASSUME IInv, ReadSessions
    PROVE  IInv'
<1> DEFINE items == {[Bare EXCEPT !.imsi = d, !.ip = d] : d \in Attached}
<1>1. Receive(items, {}, "telrad") /\ pc = "ready"
  BY DEF ReadSessions
<1>2. \A i \in items : i \in ItemType /\ ItemOwn(i, sonar) /\ ~InSonar(i)
  BY SessionOwn, DevicesAssumption
<1> HIDE DEF items
<1> QED
  BY <1>1, <1>2, ReceiveStep

\* What a scan may hand to add: what it read of one customer, or an item of the set.
Handed(r) == /\ r \in [item : ItemType, own : BOOLEAN]
             /\ Keys(r.item) = {} \/ ItemOwn(r.item, sonar)
             /\ ~InSonar(r.item) \/ (r.own /\ r.item \in Items)

LEMMA ReadHanded ==
    ASSUME NEW x, NEW reader, NEW o, ReadOf(x, reader, o), NEW r, r = [item |-> x, own |-> FALSE]
    PROVE  Handed(r)
<1>1. x \in ItemType /\ ~InSonar(x) /\ (Keys(x) = {} \/ ItemOwn(x, sonar))
  BY ReadOfOwn
<1>2. r.item = x
  OBVIOUS
<1>3. r \in [item : ItemType, own : BOOLEAN]
  BY <1>1
<1> QED
  BY <1>1, <1>2, <1>3 DEF Handed

LEMMA OwnHanded ==
    ASSUME IInv, NEW n \in inv, NEW r, r = [item |-> n.item, own |-> TRUE]
    PROVE  Handed(r)
<1>1. n.item \in ItemType /\ ItemOwn(n.item, sonar)
  BY EntryFacts DEF IInv, InvInv
<1>2. r.item = n.item /\ r.own = TRUE /\ n.item \in Items
  BY DEF Items
<1>3. r \in [item : ItemType, own : BOOLEAN]
  BY <1>1
<1> QED
  BY <1>1, <1>2, <1>3 DEF Handed

LEMMA AskedIs ==
    ASSUME TypeOK, NEW reader, NEW n \in Asked(reader)
    PROVE  n \in inv /\ n.item.ip \in Devices
<1>1. n \in inv /\ n.item.ip \notin Missing
  BY DEF Asked, Has
<1>2. n.item \in ItemType
  BY <1>1 DEF TypeOK
<1>3. n.item.ip \in Devices \cup Missing
  BY <1>2 DEF ItemType, Optional
<1> QED
  BY <1>1, <1>3

\* What a scan gets: of the entries asked, a set, whole; of one more, something else.
Got(reader, entries) == Results({Whole(reader, n.item.ip) : n \in entries})

LEMMA ScanIs ==
    ASSUME NEW reader, NEW scan, NEW after, NEW then, Scan(reader, scan, after, then)
    PROVE  /\ pc' = "add" /\ next' = then /\ UNCHANGED <<sonar, inv, mine, tasks>>
           /\ \/ /\ Fine /\ todo' = Got(reader, Asked(reader))
                 /\ done' = IF after \subseteq done THEN done \cup scan ELSE done
              \/ /\ Fault /\ done' = {}
                 /\ \E n \in Asked(reader) : \E r \in Misread(reader, n) :
                      todo' = Got(reader, Asked(reader) \ {n}) \cup {r}
BY DEF Scan, Got

LEMMA GotHanded ==
    ASSUME TypeOK, NEW reader \in Readers, NEW entries \in SUBSET Asked(reader),
           NEW r \in Got(reader, entries)
    PROVE  Handed(r)
<1>1. PICK n \in entries : r = [item |-> Whole(reader, n.item.ip), own |-> FALSE]
  BY DEF Got, Results
<1>2. n.item.ip \in Devices
  BY AskedIs
<1>3. ReadOf(Whole(reader, n.item.ip), reader, Whose(n.item.ip))
  BY <1>2, WholeIs
<1> QED
  BY <1>1, <1>3, ReadHanded

LEMMA MisreadHanded ==
    ASSUME IInv, NEW reader \in Readers, NEW n \in Asked(reader), NEW r \in Misread(reader, n)
    PROVE  Handed(r)
<1>1. CASE \E e \in Devices :
             r \in Results(Parts(reader, {d \in Devices : Whose(d) = Whose(e)}))
  <2>1. PICK e \in Devices :
          r \in Results(Parts(reader, {d \in Devices : Whose(d) = Whose(e)}))
    BY <1>1
  <2>2. PICK x \in Parts(reader, {d \in Devices : Whose(d) = Whose(e)}) :
          r = [item |-> x, own |-> FALSE]
    BY <2>1 DEF Results
  <2>3. ReadOf(x, reader, Whose(e))
    BY PartsAre
  <2> QED
    BY <2>2, <2>3, ReadHanded
<1>2. CASE r = [item |-> n.item, own |-> TRUE]
  BY <1>2, OwnHanded, AskedIs DEF IInv
<1> QED
  BY <1>1, <1>2 DEF Misread

LEMMA ScanHands ==
    ASSUME IInv, NEW reader \in Readers, NEW scan, NEW after, NEW then,
           Scan(reader, scan, after, then)
    PROVE  \A r \in todo' : Handed(r)
<1>1. TypeOK
  BY DEF IInv
<1>2. \/ todo' = Got(reader, Asked(reader))
      \/ \E n \in Asked(reader) : \E r \in Misread(reader, n) :
            todo' = Got(reader, Asked(reader) \ {n}) \cup {r}
  BY ScanIs
<1>3. CASE todo' = Got(reader, Asked(reader))
  BY <1>1, <1>3, GotHanded
<1>4. CASE \E n \in Asked(reader) : \E r \in Misread(reader, n) :
             todo' = Got(reader, Asked(reader) \ {n}) \cup {r}
  <2>1. PICK n \in Asked(reader) : \E r \in Misread(reader, n) :
          todo' = Got(reader, Asked(reader) \ {n}) \cup {r}
    BY <1>4
  <2>2. PICK r \in Misread(reader, n) : todo' = Got(reader, Asked(reader) \ {n}) \cup {r}
    BY <2>1
  <2>3. Handed(r)
    BY MisreadHanded
  <2>4. \A q \in Got(reader, Asked(reader) \ {n}) : Handed(q)
    BY <1>1, GotHanded
  <2> QED
    BY <2>2, <2>3, <2>4
<1> QED
  BY <1>2, <1>3, <1>4

LEMMA ScanStep ==
    ASSUME IInv, pc \in {"telrad", "noted", "ready"}, NEW reader \in Readers,
           NEW scan \in SUBSET {"base", "subscribers", "network", "stats"}, NEW after,
           NEW then \in {"baicells", "ready"}, Scan(reader, scan, after, then)
    PROVE  IInv'
<1>1. pc' = "add" /\ next' = then /\ UNCHANGED <<sonar, inv, mine, tasks>>
  BY ScanIs
<1>2. \A r \in todo' : Handed(r)
  BY ScanHands
<1>3. TypeOK /\ tasks = {}
  BY DEF IInv, PlaceInv
<1>4. done' \subseteq {"base", "subscribers", "network", "stats"}
  <2>1. done' = {} \/ done' = done \cup scan \/ done' = done
    BY ScanIs
  <2> QED
    BY <1>3, <2>1 DEF TypeOK
<1>5. faults' \in 0..MaxFaults
  <2>1. Fault \/ Fine
    BY ScanIs
  <2> QED
    BY <1>3, <2>1, FaultsCounted DEF TypeOK, Fine
<1>6. ItemType' = ItemType
  BY <1>1 DEF ItemType
<1>7. TypeOK'
  <2>1. mine'.item \in ItemType' /\ \A n \in inv' : n.item \in ItemType'
    BY <1>1, <1>3, <1>6 DEF TypeOK
  <2>2. sonar' \in Seq(Record) /\ tasks' \subseteq inv'
    BY <1>1, <1>3 DEF TypeOK
  <2>3. pc' \in Places /\ next' \in Places
    BY <1>1 DEF Places
  <2>4. todo' \subseteq [item : ItemType', own : BOOLEAN]
    BY <1>2, <1>6 DEF Handed
  <2> QED
    BY <1>4, <1>5, <2>1, <2>2, <2>3, <2>4 DEF TypeOK
<1>8. PlaceInv'
  BY <1>1, <1>3 DEF IInv, PlaceInv
<1>9. TaskInv'
  BY <1>1, <1>3 DEF TaskInv
<1>10. InvInv' /\ Merging'
  <2>1. pc # "absorb" /\ pc' # "absorb"
    BY <1>1
  <2>2. \A r \in todo' : Keys(r.item) = {} \/ ItemOwn(r.item, sonar)
    BY <1>2 DEF Handed
  <2>3. \A r \in todo' : ~InSonar(r.item) \/ (r.own /\ r.item \in Items)
    BY <1>2 DEF Handed
  <2> QED
    BY <1>1, <2>1, <2>2, <2>3, Received
<1> QED
  BY <1>7, <1>8, <1>9, <1>10 DEF IInv

LEMMA ScansStep ==
    ASSUME IInv, ScanTelrads \/ ScanBaicells \/ ScanSnmp
    PROVE  IInv'
<1>1. "telrad" \in Readers /\ "baicells" \in Readers /\ "snmp" \in Readers
  BY DEF Readers
<1>2. CASE ScanTelrads
  BY <1>1, <1>2, ScanStep DEF ScanTelrads
<1>3. CASE ScanBaicells
  BY <1>1, <1>3, ScanStep DEF ScanBaicells
<1>4. CASE ScanSnmp
  BY <1>1, <1>4, ScanStep DEF ScanSnmp
<1> QED
  BY <1>2, <1>3, <1>4

-----------------------------------------------------------------------------
(* What the methods that write make of the items and the records. *)

\* What is not a key of an item makes no difference to whose it is.
LEMMA SameKeys ==
    ASSUME NEW x, NEW y, \A f \in KeyFields : x[f] = y[f]
    PROVE  /\ Keys(x) = Keys(y) /\ IdKeys(x) = IdKeys(y) /\ InSonar(x) = InSonar(y)
           /\ IdentifiersIn(x) = IdentifiersIn(y) /\ Owners(x) = Owners(y)
           /\ \A table : ItemOwn(x, table) => ItemOwn(y, table)
<1>1. \A f \in {"id", "mac", "imei", "imsi", "acct"} : x[f] = y[f]
  BY DEF KeyFields, Identifiers
<1>2. x.id = y.id /\ x.acct = y.acct /\ \A f \in Identifiers : x[f] = y[f]
  BY DEF KeyFields
<1>3. Keys(x) = Keys(y)
  BY <1>1 DEF Keys
<1>4. IdKeys(x) = IdKeys(y)
  BY <1>3 DEF IdKeys
<1>5. InSonar(x) = InSonar(y) /\ (Has(x, "acct") <=> Has(y, "acct"))
      /\ (Has(x, "id") <=> Has(y, "id"))
  BY <1>2 DEF InSonar, Has
<1>6. IdentifiersIn(x) = IdentifiersIn(y)
  BY <1>2 DEF IdentifiersIn, Identifiers
<1>7. Owners(x) = Owners(y) /\ (OneCustomer(x) <=> OneCustomer(y))
  BY <1>6 DEF Owners, OneCustomer
<1>8. ASSUME NEW table, ItemOwn(x, table)
      PROVE  ItemOwn(y, table)
  BY <1>2, <1>4, <1>5, <1>6, <1>7, <1>8 DEF ItemOwn
<1> QED
  BY <1>3, <1>4, <1>5, <1>6, <1>7, <1>8

Noted(n) == IF n \in Asked("baicells") THEN [n EXCEPT !.item.model = "baicells"] ELSE n

LEMMA NotedIs ==
    ASSUME TypeOK, EntriesOwn, NEW n \in inv
    PROVE  /\ Noted(n) = [item |-> Noted(n).item, filed |-> Noted(n).filed]
           /\ Noted(n).filed = n.filed /\ Noted(n).item \in ItemType
           /\ \A f \in Fields : f # "model" => Noted(n).item[f] = n.item[f]
           /\ Noted(n).item.model \in {n.item.model, "baicells"}
<1>1. n = [item |-> n.item, filed |-> n.filed] /\ n.item \in ItemType
  BY DEF TypeOK, EntriesOwn
<1>2. CASE n \in Asked("baicells")
  <2> DEFINE i == [n.item EXCEPT !.model = "baicells"]
  <2>1. Noted(n) = [item |-> i, filed |-> n.filed]
    BY <1>1, <1>2 DEF Noted
  <2>2. i \in ItemType
    BY <1>1 DEF ItemType, Readers
  <2>3. i.model = "baicells" /\ \A f \in Fields : f # "model" => i[f] = n.item[f]
    BY <1>1 DEF ItemType, Fields, KeyFields, Identifiers
  <2> HIDE DEF i
  <2> QED
    BY <2>1, <2>2, <2>3
<1>3. CASE n \notin Asked("baicells")
  BY <1>1, <1>3 DEF Noted
<1> QED
  BY <1>2, <1>3

LEMMA NoteIs ==
    ASSUME NoteBaicells
    PROVE  inv' = {Noted(n) : n \in inv}
<1>1. Asked("baicells") \subseteq inv
  BY DEF Asked
<1>2. inv' = (inv \ Asked("baicells"))
                 \cup {[n EXCEPT !.item.model = "baicells"] : n \in Asked("baicells")}
  BY DEF NoteBaicells
<1>3. ASSUME NEW e \in inv'
      PROVE  \E n \in inv : e = Noted(n)
  BY <1>1, <1>2 DEF Noted
<1>4. ASSUME NEW n \in inv
      PROVE  Noted(n) \in inv'
  BY <1>2 DEF Noted
<1> QED
  BY <1>3, <1>4

\* An entry and what it becomes have the same keys, and are of the same customer.
LEMMA NotedSame ==
    ASSUME TypeOK, EntriesOwn, NEW n \in inv
    PROVE  LET e == Noted(n)
           IN /\ Keys(e.item) = Keys(n.item) /\ IdKeys(e.item) = IdKeys(n.item)
              /\ InSonar(e.item) = InSonar(n.item) /\ Owners(e.item) = Owners(n.item)
              /\ e.item.acct = n.item.acct /\ (Has(e.item, "id") <=> Has(n.item, "id"))
              /\ ItemOwn(e.item, sonar) /\ (Removable(e) <=> Removable(n))
              /\ Stale(n) => Stale(e)
<1> DEFINE e == Noted(n)
<1>1. e.filed = n.filed /\ \A f \in Fields : f # "model" => e.item[f] = n.item[f]
  BY NotedIs
<1> HIDE DEF e
<1>2. \A f \in KeyFields : f \in Fields /\ f # "model"
  BY DEF Fields, KeyFields, Identifiers
<1>3. \A f \in KeyFields : n.item[f] = e.item[f]
  BY <1>1, <1>2
<1>4. e.item.id = n.item.id /\ e.item.acct = n.item.acct
  BY <1>3 DEF KeyFields
<1>5. /\ Keys(n.item) = Keys(e.item) /\ IdKeys(n.item) = IdKeys(e.item)
      /\ InSonar(n.item) = InSonar(e.item) /\ Owners(n.item) = Owners(e.item)
      /\ ItemOwn(n.item, sonar) => ItemOwn(e.item, sonar)
  BY <1>3, SameKeys
<1>6. ItemOwn(n.item, sonar)
  BY DEF EntriesOwn
<1>7. Removable(e) <=> Removable(n)
  BY <1>1, <1>5 DEF Removable
<1>8. Has(e.item, "id") <=> Has(n.item, "id")
  BY <1>4 DEF Has
<1>9. Stale(n) => Stale(e)
  BY <1>1, <1>5, <1>8 DEF Stale
<1> QED
  BY <1>4, <1>5, <1>6, <1>7, <1>8, <1>9 DEF e

LEMMA NoteBaicellsStep ==
    ASSUME IInv, NoteBaicells
    PROVE  IInv'
<1>1. /\ pc = "baicells" /\ pc' = "noted"
      /\ UNCHANGED <<sonar, next, todo, mine, tasks, done, faults>>
  BY DEF NoteBaicells
<1>2. TypeOK /\ EntriesOwn /\ InvInv /\ Merging /\ tasks = {} /\ todo = {}
  BY <1>1 DEF IInv, InvInv, Doomed, PlaceInv
<1>3. inv' = {Noted(n) : n \in inv} /\ ItemType' = ItemType
  BY <1>1, NoteIs DEF ItemType
<1>4. TypeOK'
  <2>1. \A e \in inv' : e.item \in ItemType
    BY <1>2, <1>3, NotedIs
  <2>2. pc' \in Places
    BY <1>1 DEF Places
  <2>3. tasks' \subseteq inv'
    BY <1>1, <1>2
  <2> QED
    BY <1>1, <1>2, <1>3, <2>1, <2>2, <2>3 DEF TypeOK
<1>5. PlaceInv' /\ TaskInv'
  BY <1>1, <1>2 DEF IInv, PlaceInv, TaskInv
<1>6. RecordsOwn'
  BY <1>1, <1>2 DEF InvInv, RecordsOwn
<1>7. ASSUME NEW e \in inv'
      PROVE  \E n \in inv : /\ e = Noted(n) /\ e = [item |-> e.item, filed |-> e.filed]
                            /\ Keys(e.item) = Keys(n.item) /\ IdKeys(e.item) = IdKeys(n.item)
                            /\ InSonar(e.item) = InSonar(n.item)
                            /\ Owners(e.item) = Owners(n.item)
                            /\ e.item.acct = n.item.acct
                            /\ ItemOwn(e.item, sonar) /\ (Removable(e) <=> Removable(n))
                            /\ Stale(n) => Stale(e)
  <2>1. PICK n \in inv : e = Noted(n)
    BY <1>3
  <2> QED
    BY <1>2, <2>1, NotedIs, NotedSame
<1>8. EntriesOwn'
  <2> SUFFICES ASSUME NEW e \in inv'
               PROVE  /\ e = [item |-> e.item, filed |-> e.filed]
                      /\ ItemOwn(e.item, sonar) /\ (Removable(e) \/ Stale(e))
    BY <1>1 DEF EntriesOwn
  <2>1. \A n \in inv : Removable(n) \/ Stale(n)
    BY <1>2 DEF EntriesOwn
  <2> QED
    BY <1>7, <2>1
<1>9. Apart' /\ LiveApart'
  <2> SUFFICES ASSUME NEW e \in inv', NEW o \in inv', e # o
               PROVE  /\ IdKeys(e.item) \cap IdKeys(o.item) = {}
                      /\ Removable(e) /\ Removable(o) => ~Same(e.item, o.item)
    BY DEF Apart, LiveApart
  <2>1. PICK n \in inv : /\ e = Noted(n) /\ Keys(e.item) = Keys(n.item)
                         /\ IdKeys(e.item) = IdKeys(n.item) /\ (Removable(e) <=> Removable(n))
    BY <1>7
  <2>2. PICK m \in inv : /\ o = Noted(m) /\ Keys(o.item) = Keys(m.item)
                         /\ IdKeys(o.item) = IdKeys(m.item) /\ (Removable(o) <=> Removable(m))
    BY <1>7
  <2>3. n # m
    BY <2>1, <2>2
  <2> QED
    BY <1>2, <2>1, <2>2, <2>3 DEF InvInv, Apart, LiveApart, Same
<1>10. InvInv'
  BY <1>1, <1>6, <1>8, <1>9 DEF InvInv, StuckApart
<1>11. Together(Live)'
  <2>1. ASSUME NEW x \in Live'
        PROVE  \E y \in Live : /\ InSonar(x) = InSonar(y) /\ x.acct = y.acct
                               /\ Owners(x) = Owners(y)
    <3>1. PICK e \in inv' : Removable(e) /\ x = e.item
      BY <1>1, <1>2 DEF Live
    <3>2. PICK n \in inv : /\ InSonar(e.item) = InSonar(n.item) /\ e.item.acct = n.item.acct
                           /\ Owners(e.item) = Owners(n.item) /\ Removable(n)
      BY <1>7, <3>1
    <3>3. n.item \in Live
      BY <3>2 DEF Live
    <3> QED
      BY <3>1, <3>2, <3>3
  <2> QED
    BY <1>2, <2>1 DEF Merging, Together
<1>12. Merging'
  BY <1>1, <1>2, <1>11 DEF Merging, MineOwn, TodoOwn
<1> QED
  BY <1>4, <1>5, <1>10, <1>12 DEF IInv

LEMMA StaleStays ==
    ASSUME NEW n, Stale(n)
    PROVE  ~Removable(n)
<1> SUFFICES ASSUME n.filed = Keys(n.item)
             PROVE  FALSE
  BY DEF Removable
<1>1. <<"id", n.item.id>> \in n.filed
  BY KeyOf DEF Stale, Has, KeyFields
<1>2. InSonar(n.item) /\ \A k \in n.filed : k[1] = "acct" => k[2].id = None
  BY <1>1 DEF Stale
<1>3. <<"acct", n.item.acct>> \in n.filed
  BY <1>2, KeyOf DEF InSonar, Has, KeyFields
<1> QED
  BY <1>2, <1>3 DEF InSonar

\* Entries change into others that cannot be removed.
LEMMA EntriesChanged ==
    ASSUME InvInv, Merging, pc' # "absorb", todo' = {}, RecordsOwn',
           \A n \in inv : ItemOwn(n.item, sonar'),
           \A e \in inv' : \/ e \in inv
                           \/ /\ e = [item |-> e.item, filed |-> e.filed]
                              /\ ItemOwn(e.item, sonar') /\ Stale(e),
           Apart'
    PROVE  InvInv' /\ Merging'
<1>1. EntriesOwn'
  BY DEF InvInv, EntriesOwn
<1>2. \A e \in inv' : Removable(e) => e \in inv
  BY StaleStays
<1>3. LiveApart'
  BY <1>2 DEF InvInv, LiveApart
<1>4. Live' \subseteq Live
  BY <1>2 DEF Live
<1>5. Together(Live)'
  BY <1>4 DEF Merging, Together
<1> QED
  BY <1>1, <1>3, <1>5 DEF InvInv, Merging, StuckApart, TodoOwn, MineOwn

\* Who was where at the start stays known.
LEMMA JustifiedKept ==
    ASSUME NEW owners, NEW a, Justified(owners, a, sonar),
           DOMAIN sonar \subseteq DOMAIN sonar',
           \A id \in DOMAIN sonar : /\ Owners(sonar'[id]) = Owners(sonar[id])
                                    /\ sonar'[id].was = sonar[id].was
    PROVE  Justified(owners, a, sonar')
BY DEF Justified

LEMMA OwnKept ==
    ASSUME NEW x \in ItemType, ItemOwn(x, sonar), DOMAIN sonar \subseteq DOMAIN sonar',
           \A id \in DOMAIN sonar : /\ Owners(sonar'[id]) = Owners(sonar[id])
                                    /\ sonar'[id].was = sonar[id].was
    PROVE  ItemOwn(x, sonar')
<1>1. Has(x, "id") => x.id \in DOMAIN sonar
  BY DEF Has, ItemType, Optional
<1>2. InSonar(x) => Justified(Owners(x), x.acct.id, sonar')
  BY JustifiedKept DEF ItemOwn
<1> QED
  BY <1>1, <1>2 DEF ItemOwn

LEMMA MoreItems ==
    ASSUME DOMAIN sonar \subseteq DOMAIN sonar'
    PROVE  ItemType \subseteq ItemType'
<1> SUFFICES ASSUME NEW x \in ItemType
             PROVE  x \in ItemType'
  OBVIOUS
<1> QED
  BY DEF ItemType, Optional

LEMMA TaskIsEntry ==
    ASSUME TypeOK, EntriesOwn, NEW n \in tasks
    PROVE  /\ n \in inv /\ n.item \in ItemType /\ n = [item |-> n.item, filed |-> n.filed]
           /\ [n EXCEPT !.item = n.item] = n
           /\ (inv \ {n}) \cup {[n EXCEPT !.item = n.item]} = inv
<1>1. n \in inv /\ n.item \in ItemType /\ n = [item |-> n.item, filed |-> n.filed]
  BY DEF TypeOK, EntriesOwn
<1>2. [n EXCEPT !.item = n.item] = n
  BY <1>1
<1>3. (inv \ {n}) \cup {[n EXCEPT !.item = n.item]} = inv
  BY <1>1, <1>2
<1> QED
  BY <1>1, <1>2, <1>3

\* A task that leaves its item as it is, and whose record as it was but for what belongs
\* to the same customer.
LEMMA TaskStep ==
    ASSUME IInv, NEW n \in tasks, TaskEnds(n, n.item), pc # "absorb",
           sonar' \in Seq(Record), DOMAIN sonar \subseteq DOMAIN sonar',
           \A id \in DOMAIN sonar : /\ Owners(sonar'[id]) = Owners(sonar[id])
                                    /\ sonar'[id].was = sonar[id].was,
           RecordsOwn', Fine \/ Fault, done' \subseteq done
    PROVE  IInv'
<1>1. TypeOK /\ EntriesOwn /\ InvInv /\ Merging
  BY DEF IInv, InvInv, Doomed
<1>2. UNCHANGED <<inv, pc, next, todo, mine>> /\ tasks' = tasks \ {n}
  BY <1>1, TaskIsEntry DEF TaskEnds
<1>3. todo = {} /\ pc # "absorb" /\ pc \in {"create", "match", "link", "update"}
  BY DEF IInv, PlaceInv
<1>4. ItemType \subseteq ItemType'
  BY MoreItems
<1>5. TypeOK'
  <2>1. mine'.item \in ItemType' /\ \A e \in inv' : e.item \in ItemType'
    BY <1>1, <1>2, <1>4 DEF TypeOK
  <2>2. tasks' \subseteq inv' /\ pc' \in Places /\ next' \in Places
    BY <1>1, <1>2 DEF TypeOK
  <2>3. todo' \subseteq [item : ItemType', own : BOOLEAN]
    BY <1>2, <1>3
  <2>4. faults' \in 0..MaxFaults
    BY <1>1, FaultsCounted DEF TypeOK, Fine
  <2>5. done' \subseteq {"base", "subscribers", "network", "stats"}
    BY <1>1 DEF TypeOK
  <2> QED
    BY <2>1, <2>2, <2>3, <2>4, <2>5 DEF TypeOK
<1>6. PlaceInv'
  BY <1>2, <1>3 DEF IInv, PlaceInv
<1>7. TaskInv'
  BY <1>2 DEF IInv, TaskInv
<1>8. \A e \in inv : ItemOwn(e.item, sonar')
  BY <1>1, OwnKept, EntryFacts
<1>9. Apart'
  BY <1>1, <1>2 DEF InvInv, Apart
<1>10. InvInv' /\ Merging'
  BY <1>1, <1>2, <1>3, <1>8, <1>9, EntriesChanged
<1> QED
  BY <1>5, <1>6, <1>7, <1>10 DEF IInv

LEMMA SameRecords ==
    ASSUME TypeOK, RecordsOwn, UNCHANGED sonar
    PROVE  /\ sonar' \in Seq(Record) /\ DOMAIN sonar \subseteq DOMAIN sonar'
           /\ \A id \in DOMAIN sonar : /\ Owners(sonar'[id]) = Owners(sonar[id])
                                       /\ sonar'[id].was = sonar[id].was
           /\ RecordsOwn'
BY DEF TypeOK, RecordsOwn

\* A record is written, with what belongs to the customer it belonged to.
LEMMA RecordWritten ==
    ASSUME TypeOK, RecordsOwn, NEW id \in DOMAIN sonar, NEW r \in Record,
           Owners(r) = Owners(sonar[id]), r.was = sonar[id].was,
           r.acct # None => Justified(Owners(r), r.acct, sonar),
           sonar' = [sonar EXCEPT ![id] = r]
    PROVE  /\ sonar' \in Seq(Record) /\ DOMAIN sonar \subseteq DOMAIN sonar'
           /\ \A k \in DOMAIN sonar : /\ Owners(sonar'[k]) = Owners(sonar[k])
                                      /\ sonar'[k].was = sonar[k].was
           /\ RecordsOwn'
<1>1. sonar' \in Seq(Record) /\ DOMAIN sonar' = DOMAIN sonar
  BY DEF TypeOK
<1>2. ASSUME NEW k \in DOMAIN sonar
      PROVE  (k = id /\ sonar'[k] = r) \/ (k # id /\ sonar'[k] = sonar[k])
  <2>1. CASE k = id
    BY <2>1
  <2>2. CASE k # id
    BY <2>2
  <2> QED
    BY <2>1, <2>2
<1>3. \A k \in DOMAIN sonar : /\ Owners(sonar'[k]) = Owners(sonar[k])
                              /\ sonar'[k].was = sonar[k].was
  BY <1>2
<1>4. ASSUME NEW k \in DOMAIN sonar
      PROVE  /\ OneCustomer(sonar'[k])
             /\ sonar'[k].acct # None => Justified(Owners(sonar'[k]), sonar'[k].acct, sonar')
  <2>1. OneCustomer(sonar'[k])
    <3>1. \A c, d \in Owners(sonar[k]) : c = d
      BY OwnersIs DEF RecordsOwn
    <3>2. \A c, d \in Owners(sonar'[k]) : c = d
      BY <1>3, <3>1
    <3> QED
      BY <3>2, OwnersIs
  <2>2. sonar'[k].acct # None => Justified(Owners(sonar'[k]), sonar'[k].acct, sonar)
    BY <1>2 DEF RecordsOwn
  <2> QED
    BY <1>1, <1>3, <2>1, <2>2, JustifiedKept
<1> QED
  BY <1>1, <1>3, <1>4 DEF RecordsOwn

LEMMA SameFieldsOwners ==
    ASSUME NEW x, NEW y,
           \A f \in Identifiers : x[f] = y[f] \/ (x[f] \in Missing /\ y[f] \in Missing)
    PROVE  Owners(x) = Owners(y)
<1>1. \A c : c \in Owners(x) <=> \E f \in Identifiers : x[f] \notin Missing /\ c = Whose(x[f])
  BY OwnersIs
<1>2. \A c : c \in Owners(y) <=> \E f \in Identifiers : y[f] \notin Missing /\ c = Whose(y[f])
  BY OwnersIs
<1>3. \A c : c \in Owners(x) <=> c \in Owners(y)
  BY <1>1, <1>2
<1> QED
  BY <1>3

LEMMA TaskFacts ==
    ASSUME IInv, NEW n \in tasks
    PROVE  /\ TypeOK /\ RecordsOwn /\ pc # "absorb"
           /\ n.item \in ItemType /\ ItemOwn(n.item, sonar)
<1>1. n \in inv
  BY DEF IInv, TypeOK
<1> QED
  BY <1>1, EntryFacts DEF IInv, InvInv, PlaceInv

LEMMA AssignWrites ==
    ASSUME IInv, NEW n \in tasks, Assign(n)
    PROVE  /\ sonar' \in Seq(Record) /\ DOMAIN sonar \subseteq DOMAIN sonar'
           /\ \A k \in DOMAIN sonar : /\ Owners(sonar'[k]) = Owners(sonar[k])
                                      /\ sonar'[k].was = sonar[k].was
           /\ RecordsOwn'
<1>1. /\ TypeOK /\ RecordsOwn /\ pc # "absorb"
      /\ n.item \in ItemType /\ ItemOwn(n.item, sonar)
  BY TaskFacts
<1>2. Has(n.item, "id") /\ InSonar(n.item)
  BY DEF IInv, TaskInv, Assign
<1>3. CASE /\ sonar' = [sonar EXCEPT ![n.item.id].acct = n.item.acct.id]
           /\ Fine /\ UNCHANGED done
  <2> DEFINE id == n.item.id
             r == [sonar[id] EXCEPT !.acct = n.item.acct.id]
  <2>1. id \in DOMAIN sonar
    BY <1>1, <1>2 DEF Has, ItemType, Optional
  <2>2. n.item.acct.id \in AcctIds
    <3>1. n.item.acct \in Acct
      BY <1>1, <1>2 DEF InSonar, Has, ItemType, Missing
    <3> QED
      BY <3>1, <1>2 DEF InSonar, Acct
  <2>3. sonar[id] \in Record
    BY <1>1, <2>1, RecordFacts
  <2>4. r \in Record
    BY <2>2, <2>3 DEF Record
  <2>5. \A f \in Identifiers : r[f] = sonar[id][f]
    BY <2>3 DEF Record, Identifiers
  <2>6. sonar' = [sonar EXCEPT ![id] = r] /\ r.acct = n.item.acct.id /\ r.was = sonar[id].was
    BY <1>3, <2>3 DEF Record
  <2>8. /\ Owners(n.item) = Owners(sonar[id])
        /\ Justified(Owners(n.item), n.item.acct.id, sonar)
    BY <1>1, <1>2 DEF ItemOwn
  <2> HIDE DEF id, r
  <2>7. Owners(r) = Owners(sonar[id])
    BY <2>5, SameFieldsOwners
  <2>9. Justified(Owners(r), r.acct, sonar)
    BY <2>6, <2>7, <2>8
  <2> QED
    BY <1>1, <2>1, <2>4, <2>6, <2>7, <2>9, RecordWritten
<1>4. CASE Fault /\ done' = {} /\ UNCHANGED sonar
  BY <1>1, <1>4, SameRecords
<1> QED
  BY <1>3, <1>4 DEF Assign

LEMMA AssignStep ==
    ASSUME IInv, NEW n \in tasks, Assign(n)
    PROVE  IInv'
<1>1. TaskEnds(n, n.item) /\ pc # "absorb" /\ (Fine \/ Fault) /\ done' \subseteq done
  BY DEF Assign
<1> QED
  BY <1>1, AssignWrites, TaskStep

LEMMA UpdateItemWrites ==
    ASSUME IInv, NEW n \in tasks, UpdateItem(n)
    PROVE  /\ sonar' \in Seq(Record) /\ DOMAIN sonar \subseteq DOMAIN sonar'
           /\ \A k \in DOMAIN sonar : /\ Owners(sonar'[k]) = Owners(sonar[k])
                                      /\ sonar'[k].was = sonar[k].was
           /\ RecordsOwn'
<1> DEFINE id == n.item.id
           New(f) == IF Has(n.item, f) THEN n.item[f] ELSE sonar[id][f]
           r == [sonar[id] EXCEPT !.mac = New("mac"), !.imei = New("imei"), !.imsi = New("imsi")]
<1>1. /\ TypeOK /\ RecordsOwn /\ pc # "absorb"
      /\ n.item \in ItemType /\ ItemOwn(n.item, sonar)
  BY TaskFacts
<1>2. Has(n.item, "id")
  BY DEF IInv, TaskInv, UpdateItem
<1>3. CASE sonar' = [sonar EXCEPT ![id] = r] /\ Fine /\ UNCHANGED done
  <2>1. id \in DOMAIN sonar
    BY <1>1, <1>2 DEF Has, ItemType, Optional
  <2>2. sonar[id] \in Record /\ \A f \in Identifiers : sonar[id][f] \in Devices \cup {None}
    BY <1>1, <2>1, RecordFacts
  <2>3. \A f \in Identifiers : n.item[f] \in Devices \cup Missing
    BY <1>1 DEF ItemType, Optional, Identifiers
  <2>4. \A f \in Identifiers : New(f) \in Devices \cup {None}
    BY <2>2, <2>3 DEF Has
  <2>5. r \in Record
    <3>1. New("mac") \in Devices \cup {None} /\ New("imei") \in Devices \cup {None}
          /\ New("imsi") \in Devices \cup {None}
      BY <2>4 DEF Identifiers
    <3> HIDE DEF New, id
    <3> QED
      BY <2>2, <3>1 DEF Record
  <2>6. \A f \in Identifiers : r[f] = New(f)
    <3> HIDE DEF New, id
    <3> QED
      BY <2>2 DEF Record, Identifiers
  <2>7. \A f \in Identifiers : \/ n.item[f] \notin Missing /\ r[f] = n.item[f]
                               \/ n.item[f] \in Missing /\ r[f] = sonar[id][f]
    BY <2>6 DEF Has
  <2>8. Owners(n.item) = Owners(sonar[id])
    BY <1>1, <1>2 DEF ItemOwn
  <2>13. r.acct = sonar[id].acct /\ r.was = sonar[id].was
    <3> HIDE DEF New, id
    <3> QED
      BY <2>2 DEF Record
  <2> HIDE DEF id, r
  <2>9. \A c \in Owners(r) : c \in Owners(n.item)
    <3> SUFFICES ASSUME NEW c \in Owners(r)
                 PROVE  c \in Owners(n.item)
      OBVIOUS
    <3>1. PICK f \in Identifiers : r[f] \notin Missing /\ c = Whose(r[f])
      BY OwnersIs
    <3>2. CASE n.item[f] \notin Missing /\ r[f] = n.item[f]
      BY <3>1, <3>2, OwnersIs
    <3>3. CASE r[f] = sonar[id][f]
      <4>1. c \in Owners(sonar[id])
        BY <3>1, <3>3, OwnersIs
      <4> QED
        BY <4>1, <2>8
    <3> QED
      BY <2>7, <3>2, <3>3
  <2>10. Owners(n.item) # {} => Owners(r) # {}
    <3> SUFFICES ASSUME Owners(n.item) # {}
                 PROVE  Owners(r) # {}
      OBVIOUS
    <3>1. PICK f \in Identifiers : n.item[f] \notin Missing
      BY OwnersIs
    <3>2. r[f] \notin Missing
      BY <2>7, <3>1
    <3> QED
      BY <3>2, OwnersIs
  <2>11. \A c, d \in Owners(n.item) : c = d
    BY <1>1, OwnersIs DEF ItemOwn
  <2>12. Owners(r) = Owners(sonar[id])
    BY <2>8, <2>9, <2>10, <2>11
  <2>14. r.acct # None => Justified(Owners(r), r.acct, sonar)
    BY <1>1, <2>1, <2>12, <2>13 DEF RecordsOwn
  <2> QED
    BY <1>1, <1>3, <2>1, <2>5, <2>12, <2>13, <2>14, RecordWritten
<1>4. CASE Fault /\ done' = {} /\ UNCHANGED sonar
  BY <1>1, <1>4, SameRecords
<1> QED
  BY <1>3, <1>4 DEF UpdateItem

LEMMA UpdateItemStep ==
    ASSUME IInv, NEW n \in tasks, UpdateItem(n)
    PROVE  IInv'
<1>1. TaskEnds(n, n.item) /\ pc # "absorb" /\ (Fine \/ Fault) /\ done' \subseteq done
  BY DEF UpdateItem
<1> QED
  BY <1>1, UpdateItemWrites, TaskStep

\* create_item makes a record of the item's customer.
LEMMA Appended ==
    ASSUME TypeOK, RecordsOwn, NEW x \in ItemType, ItemOwn(x, sonar), Creatable(x),
           sonar' = Append(sonar, NewRecord(x))
    PROVE  /\ sonar' \in Seq(Record) /\ DOMAIN sonar \subseteq DOMAIN sonar'
           /\ Len(sonar) + 1 \in DOMAIN sonar' /\ Len(sonar) + 1 \notin DOMAIN sonar
           /\ Len(sonar) + 1 \notin Missing
           /\ \A k \in DOMAIN sonar : /\ Owners(sonar'[k]) = Owners(sonar[k])
                                      /\ sonar'[k].was = sonar[k].was
           /\ Owners(sonar'[Len(sonar) + 1]) = Owners(x)
           /\ RecordsOwn'
<1> DEFINE r == NewRecord(x)
           new == Len(sonar) + 1
<1>1. \A f \in Identifiers : x[f] \in Devices \cup Missing
  BY DEF ItemType, Optional, Identifiers
<1>9. \A f \in Identifiers : r[f] = Field(x[f])
  BY DEF NewRecord, Identifiers
<1>2. \A f \in Identifiers : /\ r[f] \in Devices \cup {None}
                             /\ r[f] = x[f] \/ (r[f] \in Missing /\ x[f] \in Missing)
  BY <1>1, <1>9 DEF Field, Missing
<1>3. r \in Record
  <2>1. /\ r.mac \in Devices \cup {None} /\ r.imei \in Devices \cup {None}
        /\ r.imsi \in Devices \cup {None}
    BY <1>2 DEF Identifiers
  <2>2. x.model \in Readers
    BY DEF ItemType, Creatable, Has, Missing
  <2>3. r = [mac |-> r.mac, imei |-> r.imei, imsi |-> r.imsi, model |-> x.model,
              acct |-> None, was |-> None]
    BY DEF NewRecord
  <2> HIDE DEF r
  <2> QED
    BY <2>1, <2>2, <2>3 DEF Record
<1>4. Owners(r) = Owners(x)
  <2> HIDE DEF r
  <2> QED
    BY <1>2, SameFieldsOwners
<1>8. r.acct = None
  BY DEF NewRecord
<1> HIDE DEF r
<1>5. /\ sonar' \in Seq(Record) /\ new \in Nat
      /\ DOMAIN sonar' = DOMAIN sonar \cup {new} /\ new \notin DOMAIN sonar
      /\ sonar'[new] = r /\ \A k \in DOMAIN sonar : sonar'[k] = sonar[k]
  <2>1. sonar' = Append(sonar, r) /\ sonar \in Seq(Record)
    BY DEF TypeOK, r
  <2> QED
    BY <1>3, <2>1
<1>6. new \notin Missing
  BY <1>5, MissingAssumption
<1>7. RecordsOwn'
  <2>1. OneCustomer(r)
    BY <1>4, OwnersIs DEF ItemOwn
  <2>2. /\ DOMAIN sonar \subseteq DOMAIN sonar'
        /\ \A k \in DOMAIN sonar : /\ Owners(sonar'[k]) = Owners(sonar[k])
                                   /\ sonar'[k].was = sonar[k].was
    BY <1>5
  <2>3. ASSUME NEW k \in DOMAIN sonar, sonar[k].acct # None
        PROVE  Justified(Owners(sonar[k]), sonar[k].acct, sonar')
    <3>1. Justified(Owners(sonar[k]), sonar[k].acct, sonar)
      BY <2>3 DEF RecordsOwn
    <3> QED
      BY <2>2, <3>1, JustifiedKept
  <2> QED
    BY <1>5, <1>8, <2>1, <2>3 DEF RecordsOwn
<1> QED
  BY <1>4, <1>5, <1>6, <1>7

LEMMA CreateItemFailsWrites ==
    ASSUME IInv, NEW n \in tasks, CreateItemFails(n)
    PROVE  /\ sonar' \in Seq(Record) /\ DOMAIN sonar \subseteq DOMAIN sonar'
           /\ \A k \in DOMAIN sonar : /\ Owners(sonar'[k]) = Owners(sonar[k])
                                      /\ sonar'[k].was = sonar[k].was
           /\ RecordsOwn'
<1>1. /\ TypeOK /\ RecordsOwn /\ pc # "absorb"
      /\ n.item \in ItemType /\ ItemOwn(n.item, sonar)
  BY TaskFacts
<1>2. Creatable(n.item)
  BY DEF IInv, TaskInv, CreateItemFails
<1>3. CASE sonar' = sonar
  BY <1>1, <1>3, SameRecords
<1>4. CASE sonar' = Append(sonar, NewRecord(n.item))
  BY <1>1, <1>2, <1>4, Appended
<1> QED
  BY <1>3, <1>4 DEF CreateItemFails

LEMMA CreateItemFailsStep ==
    ASSUME IInv, NEW n \in tasks, CreateItemFails(n)
    PROVE  IInv'
<1>1. TaskEnds(n, n.item) /\ pc # "absorb" /\ (Fine \/ Fault) /\ done' \subseteq done
  BY DEF CreateItemFails
<1> QED
  BY <1>1, CreateItemFailsWrites, TaskStep

LEMMA SameIdentifiers ==
    ASSUME NEW x, NEW y, \A f \in Identifiers : x[f] = y[f]
    PROVE  IdentifiersIn(x) = IdentifiersIn(y) /\ Owners(x) = Owners(y)
<1>1. IdentifiersIn(x) = IdentifiersIn(y)
  BY DEF IdentifiersIn, Identifiers
<1> QED
  BY <1>1, SameFieldsOwners

LEMMA SameOneCustomer ==
    ASSUME NEW x, NEW y, Owners(x) = Owners(y), OneCustomer(x)
    PROVE  OneCustomer(y)
<1>1. \A c, d \in Owners(x) : c = d
  BY OwnersIs
<1> QED
  BY <1>1, OwnersIs

\* An item gets the id of the record that was made of it.
LEMMA ItemCreated ==
    ASSUME TypeOK, NEW n \in inv, n = [item |-> n.item, filed |-> n.filed],
           n.item \in ItemType, ItemOwn(n.item, sonar), ~Has(n.item, "id"),
           Removable(n) \/ Stale(n),
           NEW k, k \in DOMAIN sonar', k \notin Missing, Owners(sonar'[k]) = Owners(n.item),
           DOMAIN sonar \subseteq DOMAIN sonar',
           \A id \in DOMAIN sonar : /\ Owners(sonar'[id]) = Owners(sonar[id])
                                    /\ sonar'[id].was = sonar[id].was,
           NEW e, e = [n EXCEPT !.item = [n.item EXCEPT !.id = k]]
    PROVE  /\ e = [item |-> e.item, filed |-> e.filed] /\ e.item \in ItemType'
           /\ ItemOwn(e.item, sonar') /\ Stale(e)
           /\ e.item.id = k /\ \A f \in Identifiers : e.item[f] = n.item[f]
<1> DEFINE i == [n.item EXCEPT !.id = k]
<1>1. e.item = i /\ e.filed = n.filed /\ e = [item |-> e.item, filed |-> e.filed]
  OBVIOUS
<1>2. /\ i.id = k /\ i.acct = n.item.acct
      /\ \A f \in Identifiers : i[f] = n.item[f]
  BY DEF ItemType, Identifiers
<1>3. i \in ItemType'
  <2>1. n.item \in ItemType'
    BY MoreItems
  <2> QED
    BY <2>1 DEF ItemType, Optional
<1> HIDE DEF i
<1>4. IdentifiersIn(i) = IdentifiersIn(n.item) /\ Owners(i) = Owners(n.item)
  BY <1>2, SameIdentifiers
<1>5. Has(i, "id") /\ i.id \notin {None, Empty}
  BY <1>2 DEF Has, Missing
<1>6. ItemOwn(i, sonar')
  <2>1. OneCustomer(i)
    BY <1>4, SameOneCustomer DEF ItemOwn
  <2>2. \A f \in Identifiers : i[f] \in {None, Empty} => IdentifiersIn(i) # {}
    BY <1>2, <1>4 DEF ItemOwn
  <2>7. \A f \in Identifiers : i[f] = Empty => \E g \in Garbled : Whose(g[1]) \in Owners(i)
    BY <1>2, <1>4 DEF ItemOwn
  <2>3. Owners(i) = Owners(sonar'[i.id])
    BY <1>2, <1>4
  <2>4. Has(i, "acct") => IF i.acct.id = None THEN Owners(i) = {Group(i.acct.name)}
                                             ELSE Has(i, "id")
    BY <1>2, <1>4, <1>5 DEF ItemOwn, Has
  <2>5. IdKeys(i) # {}
    BY <1>5, HasIdKey
  <2>6. InSonar(i) => Justified(Owners(i), i.acct.id, sonar')
    BY <1>2, <1>4, JustifiedKept DEF ItemOwn, InSonar, Has
  <2> QED
    BY <1>5, <2>1, <2>2, <2>3, <2>4, <2>5, <2>6, <2>7 DEF ItemOwn
<1>7. Stale(e)
  <2>1. n.filed = Keys(n.item)
    BY DEF Removable, Stale
  <2>2. n.filed # {}
    BY <2>1 DEF ItemOwn, IdKeys
  <2>3. \A q \in n.filed : q[1] # "id"
    BY <2>1, KeyIsPair DEF Has
  <2>4. ASSUME NEW q \in n.filed, q[1] # "acct"
        PROVE  q \in Keys(i)
    <3>1. q = <<q[1], q[2]>> /\ q[1] \in KeyFields /\ q[2] = n.item[q[1]] /\ q[2] \notin Missing
      BY <2>1, KeyIsPair
    <3>2. q[1] \in Identifiers
      BY <2>3, <2>4, <3>1 DEF KeyFields
    <3>3. q[2] = i[q[1]]
      BY <1>2, <3>1, <3>2
    <3> QED
      BY <3>1, <3>3, KeyOf
  <2> QED
    BY <1>1, <1>5, <2>2, <2>3, <2>4 DEF Stale
<1> QED
  BY <1>1, <1>2, <1>3, <1>6, <1>7

LEMMA CreateItemStep ==
    ASSUME IInv, NEW n \in tasks, CreateItem(n)
    PROVE  IInv'
<1> DEFINE k == Len(sonar) + 1
           e == [n EXCEPT !.item = [n.item EXCEPT !.id = k]]
<1>1. /\ TypeOK /\ RecordsOwn /\ pc # "absorb"
      /\ n.item \in ItemType /\ ItemOwn(n.item, sonar)
  BY TaskFacts
<1>2. /\ InvInv /\ Merging /\ EntriesOwn /\ Apart
      /\ n \in inv /\ n = [item |-> n.item, filed |-> n.filed]
      /\ Removable(n) \/ Stale(n)
  BY DEF IInv, InvInv, EntriesOwn, Doomed, TypeOK, PlaceInv
<1>3. Creatable(n.item) /\ ~Has(n.item, "id")
  BY DEF IInv, TaskInv, CreateItem, Creatable
<1>4. /\ sonar' \in Seq(Record) /\ DOMAIN sonar \subseteq DOMAIN sonar'
      /\ k \in DOMAIN sonar' /\ k \notin DOMAIN sonar /\ k \notin Missing
      /\ \A j \in DOMAIN sonar : /\ Owners(sonar'[j]) = Owners(sonar[j])
                                 /\ sonar'[j].was = sonar[j].was
      /\ Owners(sonar'[k]) = Owners(n.item)
      /\ RecordsOwn'
  BY <1>1, <1>3, Appended DEF CreateItem
<1>5. /\ inv' = (inv \ {n}) \cup {e} /\ tasks' = tasks \ {n}
      /\ UNCHANGED <<pc, next, todo, mine, done, faults>>
  BY DEF CreateItem, TaskEnds
<1> HIDE DEF k
<1>6. /\ e = [item |-> e.item, filed |-> e.filed] /\ e.item \in ItemType'
      /\ ItemOwn(e.item, sonar') /\ Stale(e)
      /\ e.item.id = k /\ \A f \in Identifiers : e.item[f] = n.item[f]
  BY <1>1, <1>2, <1>3, <1>4, ItemCreated
<1> HIDE DEF e
<1>7. ItemType \subseteq ItemType'
  BY <1>4, MoreItems
<1>8. todo = {} /\ pc \in {"create", "match", "link", "update"}
  BY DEF IInv, PlaceInv
<1>9. TypeOK'
  <2>1. mine'.item \in ItemType' /\ \A o \in inv' : o.item \in ItemType'
    BY <1>1, <1>5, <1>6, <1>7 DEF TypeOK
  <2>2. /\ tasks' \subseteq inv' /\ pc' \in Places /\ next' \in Places
        /\ done' \subseteq {"base", "subscribers", "network", "stats"} /\ faults' \in 0..MaxFaults
    BY <1>1, <1>5 DEF TypeOK
  <2>3. todo' \subseteq [item : ItemType', own : BOOLEAN]
    BY <1>5, <1>8
  <2> QED
    BY <1>4, <2>1, <2>2, <2>3 DEF TypeOK
<1>10. PlaceInv'
  BY <1>5, <1>8 DEF IInv, PlaceInv
<1>11. TaskInv'
  BY <1>5 DEF IInv, TaskInv
<1>12. \A o \in inv : ItemOwn(o.item, sonar')
  BY <1>1, <1>2, <1>4, OwnKept, EntryFacts
<1>13. \A o \in inv : o # n => /\ IdKeys(e.item) \cap IdKeys(o.item) = {}
                               /\ IdKeys(o.item) \cap IdKeys(e.item) = {}
  <2> SUFFICES ASSUME NEW o \in inv, o # n,
                      NEW f \in {"id"} \cup Identifiers,
                      e.item[f] \notin Missing, e.item[f] = o.item[f]
               PROVE  FALSE
    BY IdKeysMeet
  <2>1. CASE f = "id"
    <3>1. o.item \in ItemType
      BY <1>1, <1>2, EntryFacts
    <3>2. o.item.id \in DOMAIN sonar
      BY <1>4, <1>6, <2>1, <3>1 DEF ItemType, Optional
    <3> QED
      BY <1>4, <1>6, <2>1, <3>2
  <2>2. CASE f \in Identifiers
    <3>1. IdKeys(n.item) \cap IdKeys(o.item) # {}
      BY <1>6, <2>2, IdKeysMeet
    <3> QED
      BY <1>2, <3>1 DEF Apart
  <2> QED
    BY <2>1, <2>2
<1>14. Apart'
  BY <1>2, <1>5, <1>13 DEF Apart
<1>15. InvInv' /\ Merging'
  <2>1. pc' # "absorb" /\ todo' = {}
    BY <1>1, <1>5, <1>8
  <2>2. \A o \in inv' : o \in inv \/ o = e
    BY <1>5
  <2> QED
    BY <1>2, <1>4, <1>6, <1>12, <1>14, <2>1, <2>2, EntriesChanged
<1> QED
  BY <1>9, <1>10, <1>11, <1>15 DEF IInv

LEMMA GatherStep ==
    ASSUME IInv, NEW entries \in SUBSET inv, NEW place \in {"create", "link", "update"},
           Gather(entries, place), UNCHANGED <<inv, done, faults>>,
           \A n \in entries : /\ place = "create" => Creatable(n.item)
                              /\ place = "link" => Has(n.item, "id") /\ InSonar(n.item)
                              /\ place = "update" => Has(n.item, "id")
    PROVE  IInv'
<1>1. /\ pc = "ready" /\ pc' = place /\ tasks' = entries
      /\ UNCHANGED <<sonar, next, todo, mine, faults, inv, done>>
  BY DEF Gather
<1>2. TypeOK'
  <2>1. TypeOK /\ ItemType' = ItemType
    BY <1>1 DEF IInv, ItemType
  <2>2. pc' \in Places
    BY <1>1 DEF Places
  <2> QED
    BY <1>1, <2>1, <2>2 DEF TypeOK
<1>3. PlaceInv'
  BY <1>1 DEF IInv, PlaceInv
<1>4. TaskInv'
  BY <1>1 DEF TaskInv
<1>5. InvInv' /\ Merging'
  BY <1>1, Resting
<1> QED
  BY <1>2, <1>3, <1>4, <1>5 DEF IInv

LEMMA CreateMissingStep ==
    ASSUME IInv, CreateMissing
    PROVE  IInv'
<1> DEFINE entries == {n \in inv : Creatable(n.item)}
<1>1. Gather(entries, "create") /\ UNCHANGED <<inv, done, faults>>
  BY DEF CreateMissing
<1>2. entries \in SUBSET inv /\ \A n \in entries : Creatable(n.item)
  OBVIOUS
<1> HIDE DEF entries
<1> QED
  BY <1>1, <1>2, GatherStep

LEMMA LinkToAccountsStep ==
    ASSUME IInv, LinkToAccounts
    PROVE  IInv'
<1> DEFINE entries == {n \in inv : /\ Has(n.item, "id")
                                   /\ Has(n.item, "acct") /\ n.item.acct.id # None
                                   /\ n.item.linked # TRUE}
<1>1. Gather(entries, "link") /\ UNCHANGED <<inv, done, faults>>
  BY DEF LinkToAccounts
<1>2. entries \in SUBSET inv /\ \A n \in entries : Has(n.item, "id") /\ InSonar(n.item)
  BY DEF InSonar
<1> HIDE DEF entries
<1> QED
  BY <1>1, <1>2, GatherStep

LEMMA UpdateNeededStep ==
    ASSUME IInv, UpdateNeeded
    PROVE  IInv'
<1> DEFINE entries == {n \in inv : Has(n.item, "id") /\ Has(n.item, "model")}
<1>1. Gather(entries, "update") /\ UNCHANGED <<inv, done, faults>>
  BY DEF UpdateNeeded
<1>2. entries \in SUBSET inv /\ \A n \in entries : Has(n.item, "id")
  OBVIOUS
<1> HIDE DEF entries
<1> QED
  BY <1>1, <1>2, GatherStep

LEMMA LeastNumber ==
    ASSUME NEW S \in SUBSET Nat, S # {}
    PROVE  \E i \in S : \A j \in S : i <= j
<1> DEFINE Less == OpToRel(<, Nat)
<1>1. IsWellFoundedOn(Less, Nat)
  BY NatLessThanWellFounded
<1>2. Less = {pair \in Nat \X Nat : pair[1] < pair[2]}
  BY DEF OpToRel
<1> HIDE DEF Less
<1>3. ASSUME NEW i \in S, NEW j \in S, <<j, i>> \notin Less
      PROVE  i <= j
  BY <1>2, <1>3
<1>4. PICK i \in S : \A j \in S : <<j, i>> \notin Less
  BY <1>1, WFMin
<1>5. \A j \in S : i <= j
  BY <1>3, <1>4
<1> QED
  BY <1>5

\* The account match_names_and_link takes is one of Sonar's.
LEMMA FirstIsAccount ==
    ASSUME NEW i, NEW seen \in SUBSET AcctIds, Candidates(i, seen) # {}
    PROVE  First(i, seen) \in AcctIds /\ First(i, seen) # None
<1>1. Candidates(i, seen) \in SUBSET Nat /\ Candidates(i, seen) \subseteq AcctIds
  BY AccountsAssumption DEF Candidates, AcctIds
<1>2. \E a \in Candidates(i, seen) : \A b \in Candidates(i, seen) : a <= b
  BY <1>1, LeastNumber
<1>3. First(i, seen) \in Candidates(i, seen)
  BY <1>2 DEF First
<1> QED
  BY <1>1, <1>3, MissingAssumption DEF Missing

\* An item, in the set, gets the account of its name.
LEMMA ItemLinked ==
    ASSUME NEW seen \in SUBSET AcctIds, NEW n, n = [item |-> n.item, filed |-> n.filed],
           n.item \in ItemType, ItemOwn(n.item, sonar),
           Removable(n) \/ Stale(n), Linkable(n.item, seen)
    PROVE  LET e == Link(n, seen)
           IN /\ e = [item |-> e.item, filed |-> e.filed] /\ e.item \in ItemType
              /\ ItemOwn(e.item, sonar) /\ Stale(e)
              /\ Has(e.item, "id") /\ InSonar(e.item)
              /\ \E o \in Owners(e.item) : Accounts[e.item.acct.id] \in o
              /\ \A f \in {"id"} \cup Identifiers : e.item[f] = n.item[f]
<1> DEFINE acct == [id |-> First(n.item, seen), name |-> Accounts[First(n.item, seen)]]
           i == [n.item EXCEPT !.acct = acct]
           e == Link(n, seen)
<1>1. /\ Has(n.item, "id") /\ Has(n.item, "acct") /\ n.item.acct.id = None
      /\ First(n.item, seen) \in AcctIds /\ First(n.item, seen) # None
  BY FirstIsAccount DEF Linkable, Nameless
<1>2. acct \in Acct /\ acct.id # None
  BY <1>1, AccountsAssumption DEF AcctIds, Acct
<1>3. acct \notin Missing
  BY <1>2, MissingAssumption
<1>4. e.item = i /\ e.filed = n.filed /\ e = [item |-> e.item, filed |-> e.filed]
  BY DEF Link
<1> HIDE DEF acct, e
<1>5. /\ i.acct = acct /\ i \in ItemType
      /\ \A f \in {"id"} \cup Identifiers : i[f] = n.item[f]
  BY <1>2 DEF ItemType, Identifiers
<1> HIDE DEF i
<1>6. IdentifiersIn(i) = IdentifiersIn(n.item) /\ Owners(i) = Owners(n.item)
  BY <1>5, SameIdentifiers
<1>7. Has(i, "id") /\ i.id = n.item.id /\ InSonar(i)
  BY <1>1, <1>2, <1>3, <1>5 DEF Has, InSonar
<1>10. \E o \in Owners(i) : Accounts[i.acct.id] \in o
  <2>1. acct.id = First(n.item, seen)
    BY DEF acct
  <2>2. Accounts[First(n.item, seen)] = n.item.acct.name
    BY DEF Linkable
  <2>3. Owners(n.item) = {Group(n.item.acct.name)}
    BY <1>1 DEF ItemOwn
  <2>4. n.item.acct.name \in Group(n.item.acct.name)
    BY DEF Group
  <2> QED
    BY <1>5, <1>6, <2>1, <2>2, <2>3, <2>4
<1>8. ItemOwn(i, sonar)
  <2>1. OneCustomer(i)
    BY <1>6, SameOneCustomer DEF ItemOwn
  <2>2. \A f \in Identifiers : i[f] \in {None, Empty} => IdentifiersIn(i) # {}
    BY <1>5, <1>6 DEF ItemOwn
  <2>6. \A f \in Identifiers : i[f] = Empty => \E g \in Garbled : Whose(g[1]) \in Owners(i)
    BY <1>5, <1>6 DEF ItemOwn
  <2>3. i.id \notin {None, Empty} /\ Owners(i) = Owners(sonar[i.id])
    BY <1>1, <1>6, <1>7 DEF ItemOwn
  <2>4. IdKeys(i) # {}
    BY <1>7, HasIdKey
  <2>5. Justified(Owners(i), i.acct.id, sonar)
    BY <1>10 DEF Justified
  <2> QED
    BY <1>7, <2>1, <2>2, <2>3, <2>4, <2>5, <2>6 DEF ItemOwn, InSonar
<1>9. Stale(e)
  <2>1. n.filed # {} /\ \A q \in n.filed : q[1] # "acct" => q \in Keys(n.item)
    <3>1. Keys(n.item) # {}
      BY DEF ItemOwn, IdKeys
    <3> QED
      BY <3>1 DEF Removable, Stale
  <2>2. ASSUME NEW q \in n.filed, q[1] # "acct"
        PROVE  q \in Keys(i)
    <3>1. q = <<q[1], q[2]>> /\ q[1] \in KeyFields /\ q[2] = n.item[q[1]] /\ q[2] \notin Missing
      BY <2>1, <2>2, KeyIsPair
    <3>2. q[1] \in {"id"} \cup Identifiers
      BY <2>2, <3>1 DEF KeyFields
    <3>3. q[2] = i[q[1]]
      BY <1>5, <3>1, <3>2
    <3> QED
      BY <3>1, <3>3, KeyOf
  <2>3. (\A q \in n.filed : q[1] # "id") \/ \A q \in n.filed : q[1] = "acct" => q[2].id = None
    <3>1. CASE Removable(n)
      <4>1. \A q \in n.filed : q[1] = "acct" => q[2] = n.item.acct
        BY <3>1, KeyIsPair DEF Removable
      <4> QED
        BY <4>1, <1>1
    <3>2. CASE Stale(n)
      BY <3>2, <1>1 DEF Stale, InSonar
    <3> QED
      BY <3>1, <3>2
  <2> QED
    BY <1>4, <1>7, <2>1, <2>2, <2>3 DEF Stale
<1> QED
  BY <1>4, <1>5, <1>7, <1>8, <1>9, <1>10 DEF e

LEMMA MatchNamesStep ==
    ASSUME IInv, MatchNames
    PROVE  IInv'
<1>0. PICK seen \in SUBSET AcctIds :
        /\ GetAccounts(seen)
        /\ LET chosen == {n \in inv : Linkable(n.item, seen)}
               linked == {Link(n, seen) : n \in chosen}
           IN Gather(linked, "match") /\ inv' = (inv \ chosen) \cup linked
  BY DEF MatchNames
<1> DEFINE chosen == {n \in inv : Linkable(n.item, seen)}
<1>1. /\ inv' = (inv \ chosen) \cup {Link(n, seen) : n \in chosen}
      /\ tasks' = {Link(n, seen) : n \in chosen}
      /\ pc = "ready" /\ pc' = "match"
      /\ UNCHANGED <<sonar, next, todo, mine>>
  BY <1>0 DEF Gather
<1>13. done' \subseteq done /\ (Fine \/ Fault)
  BY <1>0 DEF GetAccounts
<1>2. TypeOK /\ InvInv /\ Merging /\ EntriesOwn /\ Apart
  BY <1>1 DEF IInv, InvInv, Doomed
<1>3. \A n \in chosen :
        LET e == Link(n, seen)
        IN /\ e = [item |-> e.item, filed |-> e.filed] /\ e.item \in ItemType
           /\ ItemOwn(e.item, sonar) /\ Stale(e)
           /\ Has(e.item, "id") /\ InSonar(e.item)
           /\ \E o \in Owners(e.item) : Accounts[e.item.acct.id] \in o
           /\ \A f \in {"id"} \cup Identifiers : e.item[f] = n.item[f]
  <2> SUFFICES ASSUME NEW n \in chosen
               PROVE  LET e == Link(n, seen)
                      IN /\ e = [item |-> e.item, filed |-> e.filed] /\ e.item \in ItemType
                         /\ ItemOwn(e.item, sonar) /\ Stale(e)
                         /\ Has(e.item, "id") /\ InSonar(e.item)
                         /\ \E o \in Owners(e.item) : Accounts[e.item.acct.id] \in o
                         /\ \A f \in {"id"} \cup Identifiers : e.item[f] = n.item[f]
    OBVIOUS
  <2>1. /\ n = [item |-> n.item, filed |-> n.filed]
        /\ n.item \in ItemType /\ ItemOwn(n.item, sonar)
        /\ Removable(n) \/ Stale(n)
    BY <1>2 DEF EntriesOwn, TypeOK
  <2>2. Linkable(n.item, seen)
    OBVIOUS
  <2> QED
    BY <2>1, <2>2, ItemLinked
<1> HIDE DEF chosen
<1>4. chosen \subseteq inv
  BY DEF chosen
<1>5. \A e \in inv' : e \in inv \/ \E n \in chosen : e = Link(n, seen)
  BY <1>1
<1>6. ItemType' = ItemType /\ todo = {}
  BY <1>1 DEF ItemType, IInv, PlaceInv
<1>7. TypeOK'
  <2>1. \A e \in inv' : e.item \in ItemType'
    BY <1>2, <1>3, <1>5, <1>6 DEF TypeOK
  <2>2. tasks' \subseteq inv' /\ pc' \in Places
    BY <1>1 DEF Places
  <2>3. todo' \subseteq [item : ItemType', own : BOOLEAN] /\ mine'.item \in ItemType'
    BY <1>1, <1>2, <1>6 DEF TypeOK
  <2>4. faults' \in 0..MaxFaults
    BY <1>2, <1>13, FaultsCounted DEF TypeOK, Fine
  <2>5. done' \subseteq {"base", "subscribers", "network", "stats"}
    BY <1>2, <1>13 DEF TypeOK
  <2> QED
    BY <1>1, <1>2, <2>1, <2>2, <2>3, <2>4, <2>5 DEF TypeOK
<1>8. PlaceInv'
  BY <1>1 DEF IInv, PlaceInv
<1>9. TaskInv'
  BY <1>1, <1>3 DEF TaskInv
<1>10. \A e \in inv' : \E n \in inv :
          /\ \A f \in {"id"} \cup Identifiers : e.item[f] = n.item[f]
          /\ (e = n /\ n \notin chosen) \/ (e = Link(n, seen) /\ n \in chosen)
  BY <1>1, <1>3, <1>4
<1>11. Apart'
  <2> SUFFICES ASSUME NEW e \in inv', NEW o \in inv', e # o,
                      NEW f \in {"id"} \cup Identifiers,
                      e.item[f] \notin Missing, e.item[f] = o.item[f]
               PROVE  FALSE
    BY IdKeysMeet DEF Apart
  <2>1. PICK n \in inv : /\ \A g \in {"id"} \cup Identifiers : e.item[g] = n.item[g]
                         /\ (e = n /\ n \notin chosen) \/ (e = Link(n, seen) /\ n \in chosen)
    BY <1>10
  <2>2. PICK p \in inv : /\ \A g \in {"id"} \cup Identifiers : o.item[g] = p.item[g]
                         /\ (o = p /\ p \notin chosen) \/ (o = Link(p, seen) /\ p \in chosen)
    BY <1>10
  <2>3. n # p
    BY <2>1, <2>2
  <2>4. n.item[f] \notin Missing /\ n.item[f] = p.item[f]
    BY <2>1, <2>2
  <2>5. IdKeys(n.item) \cap IdKeys(p.item) # {}
    BY <2>4, IdKeysMeet
  <2> QED
    BY <1>2, <2>3, <2>5 DEF Apart
<1>12. InvInv' /\ Merging'
  <2>1. RecordsOwn'
    BY <1>1, <1>2 DEF InvInv, RecordsOwn
  <2>2. \A n \in inv : ItemOwn(n.item, sonar')
    BY <1>1, <1>2 DEF EntriesOwn
  <2>3. \A e \in inv' : \/ e \in inv
                        \/ /\ e = [item |-> e.item, filed |-> e.filed]
                           /\ ItemOwn(e.item, sonar') /\ Stale(e)
    BY <1>1, <1>3, <1>5
  <2>4. pc' # "absorb" /\ todo' = {}
    BY <1>1, <1>6
  <2> QED
    BY <1>2, <1>11, <2>1, <2>2, <2>3, <2>4, EntriesChanged
<1> QED
  BY <1>7, <1>8, <1>9, <1>12 DEF IInv

-----------------------------------------------------------------------------
(* Types. *)

LEMMA NobodyType == Nobody.item \in ItemType
BY DEF Nobody, Bare, ItemType, Optional, Missing

LEMMA BecameType ==
    ASSUME TypeOK, NEW results \in SUBSET todo, NEW old, NEW m \in ItemType
    PROVE  Became(old, m, results) \subseteq [item : ItemType, own : BOOLEAN]
<1> SUFFICES ASSUME NEW q \in results
             PROVE  (IF q.own /\ q.item = old THEN [q EXCEPT !.item = m] ELSE q)
                        \in [item : ItemType, own : BOOLEAN]
  BY DEF Became
<1>1. q \in [item : ItemType, own : BOOLEAN]
  BY DEF TypeOK
<1>2. [q EXCEPT !.item = m] \in [item : ItemType, own : BOOLEAN]
  BY <1>1
<1>3. CASE q.own /\ q.item = old
  BY <1>2, <1>3
<1>4. CASE ~(q.own /\ q.item = old)
  BY <1>1, <1>4
<1> QED
  BY <1>3, <1>4

\* What every step of add leaves in place.
LEMMA AddsType ==
    ASSUME IInv, pc \in {"add", "absorb"}, pc' \in {"add", "absorb"},
           UNCHANGED <<sonar, next, tasks, done, faults>>,
           \A n \in inv' : n \in inv \/ n.item \in ItemType,
           todo' \subseteq [item : ItemType, own : BOOLEAN],
           mine'.item \in ItemType, pc' = "add" => mine' = Nobody
    PROVE  TypeOK' /\ PlaceInv' /\ TaskInv'
<1>1. TypeOK /\ PlaceInv /\ tasks = {}
  BY DEF IInv, PlaceInv
<1>2. ItemType' = ItemType
  BY DEF ItemType
<1>3. TypeOK'
  <2>1. \A n \in inv' : n.item \in ItemType'
    BY <1>1, <1>2 DEF TypeOK
  <2>2. tasks' \subseteq inv' /\ pc' \in Places
    BY <1>1 DEF Places
  <2>3. todo' \subseteq [item : ItemType', own : BOOLEAN] /\ mine'.item \in ItemType'
    BY <1>2
  <2> QED
    BY <1>1, <2>1, <2>2, <2>3 DEF TypeOK
<1>4. PlaceInv'
  BY <1>1 DEF PlaceInv
<1>5. TaskInv'
  BY <1>1 DEF TaskInv
<1> QED
  BY <1>3, <1>4, <1>5

LEMMA GoesType ==
    ASSUME IInv, pc \in {"add", "absorb"},
           NEW rest \in SUBSET inv, NEW m \in ItemType, NEW stuck, Goes(m, rest, stuck),
           NEW results \in SUBSET todo, NEW old, todo' = Became(old, m, results),
           UNCHANGED <<sonar, next, tasks, done, faults>>
    PROVE  TypeOK' /\ PlaceInv' /\ TaskInv'
<1>1. todo' \subseteq [item : ItemType, own : BOOLEAN]
  BY BecameType DEF IInv
<1>2. /\ pc' \in {"add", "absorb"}
      /\ \A n \in inv' : n \in inv \/ n = File(m)
      /\ mine'.item = m \/ mine' = Nobody
      /\ pc' = "add" => mine' = Nobody
  BY GoesIs
<1>3. \A n \in inv' : n \in inv \/ n.item \in ItemType
  BY <1>2, FileIs
<1>4. mine'.item \in ItemType
  BY <1>2, NobodyType
<1> QED
  BY <1>1, <1>2, <1>3, <1>4, AddsType

LEMMA AddType ==
    ASSUME IInv, Add
    PROVE  TypeOK' /\ PlaceInv' /\ TaskInv'
<1>1. /\ TypeOK /\ pc = "add" /\ mine = Nobody
      /\ UNCHANGED <<sonar, next, tasks, done, faults>>
  BY DEF IInv, PlaceInv, Add
<1>2. PICK r \in todo : AddNothing(r) \/ AddNew(r) \/ \E n \in inv : AddTo(r, n)
  BY DEF Add
<1>3. \A q \in todo : q \in [item : ItemType, own : BOOLEAN] /\ q.item \in ItemType
  BY <1>1 DEF TypeOK
<1>4. CASE AddNothing(r)
  <2>1. UNCHANGED <<pc, inv, mine>> /\ todo' \subseteq todo
    BY <1>4 DEF AddNothing
  <2>2. mine'.item \in ItemType
    BY <1>1, <2>1, NobodyType
  <2>3. todo' \subseteq [item : ItemType, own : BOOLEAN]
    BY <1>3, <2>1
  <2> QED
    BY <1>1, <2>1, <2>2, <2>3, AddsType
<1>5. CASE AddNew(r)
  <2>1. UNCHANGED <<pc, mine>> /\ todo' \subseteq todo /\ inv' = inv \cup {File(r.item)}
    BY <1>5 DEF AddNew
  <2>2. mine'.item \in ItemType
    BY <1>1, <2>1, NobodyType
  <2>3. todo' \subseteq [item : ItemType, own : BOOLEAN]
    BY <1>3, <2>1
  <2>4. \A n \in inv' : n \in inv \/ n.item \in ItemType
    BY <1>3, <2>1, FileIs
  <2> QED
    BY <1>1, <2>1, <2>2, <2>3, <2>4, AddsType
<1>6. ASSUME NEW n \in inv, AddTo(r, n)
      PROVE  TypeOK' /\ PlaceInv' /\ TaskInv'
  <2> DEFINE m == Overwrite(n.item, r.item)
             stuck == IF Removable(n) THEN NotFiled ELSE n.filed
  <2>1. m \in ItemType
    BY <1>1, <1>3, MergedFields DEF TypeOK
  <2>2. Goes(m, inv \ {n}, stuck) /\ todo' = Became(n.item, m, todo \ {r})
    BY <1>6 DEF AddTo
  <2>3. inv \ {n} \in SUBSET inv /\ todo \ {r} \in SUBSET todo
    OBVIOUS
  <2> HIDE DEF m, stuck
  <2> QED
    BY <1>1, <2>1, <2>2, <2>3, GoesType
<1> QED
  BY <1>2, <1>4, <1>5, <1>6

LEMMA AbsorbType ==
    ASSUME IInv, Absorb
    PROVE  TypeOK' /\ PlaceInv' /\ TaskInv'
<1>1. TypeOK /\ pc = "absorb" /\ UNCHANGED <<sonar, next, tasks, done, faults>>
  BY DEF IInv, Absorb
<1>2. PICK n \in inv :
        /\ Goes(Overwrite(mine.item, n.item), inv \ {n}, mine.stuck)
        /\ todo' = Became(mine.item, Overwrite(mine.item, n.item), todo)
  BY DEF Absorb
<1>3. Overwrite(mine.item, n.item) \in ItemType
  BY <1>1, MergedFields DEF TypeOK
<1>4. inv \ {n} \in SUBSET inv /\ todo \in SUBSET todo
  OBVIOUS
<1> QED
  BY <1>1, <1>2, <1>3, <1>4, GoesType

LEMMA AbsorbItselfType ==
    ASSUME IInv, AbsorbItself
    PROVE  TypeOK' /\ PlaceInv' /\ TaskInv'
<1>1. /\ TypeOK /\ pc = "absorb" /\ UNCHANGED <<sonar, next, todo, tasks, done, faults>>
      /\ Goes(mine.item, inv, NotFiled) /\ mine.item \in ItemType
  BY DEF IInv, AbsorbItself, TypeOK
<1>2. todo' \subseteq [item : ItemType, own : BOOLEAN]
  BY <1>1 DEF TypeOK
<1>3. /\ pc' \in {"add", "absorb"}
      /\ \A n \in inv' : n \in inv \/ n = File(mine.item)
      /\ mine'.item = mine.item \/ mine' = Nobody
      /\ pc' = "add" => mine' = Nobody
  BY <1>1, GoesIs
<1>4. \A n \in inv' : n \in inv \/ n.item \in ItemType
  BY <1>1, <1>3, FileIs
<1>5. mine'.item \in ItemType
  BY <1>1, <1>3, NobodyType
<1> QED
  BY <1>1, <1>2, <1>3, <1>4, <1>5, AddsType

LEMMA DownStep ==
    ASSUME IInv, Down, Fine \/ Fault
    PROVE  IInv'
<1>1. TypeOK
  BY DEF IInv
<1>2. /\ pc' = "down" /\ next' = "down" /\ mine' = Nobody /\ sonar' = sonar
      /\ inv' = {} /\ todo' = {} /\ tasks' = {} /\ done' = {}
  BY DEF Down
<1>3. TypeOK'
  <2>1. ItemType' = ItemType
    BY <1>2 DEF ItemType
  <2>2. mine'.item \in ItemType'
    BY <1>2, <2>1, NobodyType
  <2>3. faults' \in 0..MaxFaults
    BY <1>1, FaultsCounted DEF TypeOK, Fine
  <2>4. sonar' \in Seq(Record) /\ pc' \in Places /\ next' \in Places
    BY <1>1, <1>2 DEF TypeOK, Places
  <2> QED
    BY <1>2, <2>2, <2>3, <2>4 DEF TypeOK
<1>4. PlaceInv' /\ TaskInv'
  BY <1>2 DEF PlaceInv, TaskInv
<1>5. InvInv' /\ Merging'
  BY Ending
<1> QED
  BY <1>3, <1>4, <1>5 DEF IInv

\* The script goes on, and nothing else changes.
LEMMA GoesOn ==
    ASSUME IInv, UNCHANGED <<sonar, inv, todo, mine, tasks, next>>, tasks = {},
           pc # "absorb", pc' \in Places \ {"absorb"}, todo = {} \/ pc' = "add",
           pc' \in {"down", "accounts"} => inv = {}, pc' = "add" => next # "down",
           done' \subseteq done, Fine \/ Fault
    PROVE  IInv'
<1>1. TypeOK /\ PlaceInv
  BY DEF IInv
<1>2. TypeOK'
  <2>1. ItemType' = ItemType
    BY DEF ItemType
  <2>2. faults' \in 0..MaxFaults
    BY <1>1, FaultsCounted DEF TypeOK, Fine
  <2>3. mine'.item \in ItemType' /\ \A n \in inv' : n.item \in ItemType'
    BY <1>1, <2>1 DEF TypeOK
  <2>4. todo' \subseteq [item : ItemType', own : BOOLEAN]
    BY <1>1, <2>1 DEF TypeOK
  <2>5. /\ sonar' \in Seq(Record) /\ tasks' \subseteq inv' /\ pc' \in Places /\ next' \in Places
        /\ done' \subseteq {"base", "subscribers", "network", "stats"}
    BY <1>1 DEF TypeOK
  <2> QED
    BY <2>2, <2>3, <2>4, <2>5 DEF TypeOK
<1>3. PlaceInv'
  BY <1>1 DEF PlaceInv
<1>4. TaskInv'
  BY DEF TaskInv
<1>5. InvInv' /\ Merging'
  BY Resting
<1> QED
  BY <1>2, <1>3, <1>4, <1>5 DEF IInv

-----------------------------------------------------------------------------
(* The second invariant: what the scans a process has completed leave in the set. *)

\* A process reads Sonar's accounts and goes on to its inventory.
Reading == pc = "inventory" \/ (pc \in {"add", "absorb"} /\ next = "inventory")

\* Nothing it has read has failed.
Clean == "base" \in done \/ Reading

\* What the process knows of devices.
Held == Items \cup {r.item : r \in todo} \cup {x \in {mine.item} : pc = "absorb"}

\* It has none but its own of a device that can be told from the others.
Plain(x) == \A d \in Devices : Alone(d) /\ Whose(d) \in Owners(x) =>
    /\ \A f \in Identifiers : x[f] \in {Absent, d}
    /\ x.ip \in {Absent, d}

\* It has what Raemis says of the device, its address, or all that a reader tells.
What == {"named", "address", "whole"}
Knows(x, d, what) ==
    /\ x.imsi = d
    /\ what = "named" => x.imei = d
    /\ what = "address" => x.ip = d
    /\ what = "whole" => x.model # Absent /\ \A f \in Identifiers : x[f] = d

\* The script is at one of these places, or goes there when it has added what it got.
Heading(places) == pc \in places \/ (pc \in {"add", "absorb"} /\ next \in places)

\* What is known of a device, as far as the scans have come.
Due(d, what) ==
    /\ "base" \in done
    /\ \/ what = "named" /\ "subscribers" \in done
       \/ what = "address" /\ (Heading({"telrad", "baicells", "noted"}) \/ "network" \in done)
       \/ /\ what = "whole" /\ Reader[d] = "telrad"
          /\ ("subscribers" \in done /\ Heading({"baicells", "noted"})) \/ "network" \in done
       \/ what = "whole" /\ Reader[d] = "baicells" /\ "network" \in done
       \/ what = "whole" /\ Reader[d] = "snmp" /\ "stats" \in done

Found ==
    /\ \A r \in todo : ~r.own
    /\ \A x \in Held : Plain(x)
    /\ \A d \in Attached, what \in What :
         Alone(d) /\ Due(d, what) => \E x \in Held : Knows(x, d, what)

DoneInv == pc \in {"down", "accounts"} \/ Reading => done = {}

\* Every item to be created has a task, until its task has ended.
CreateInv == "base" \in done /\ pc \in {"create", "created"} =>
                 \A n \in inv : Creatable(n.item) => pc = "create" /\ n \in tasks

FoundInv == DoneInv /\ CreateInv /\ (Clean => Doomed \/ Found)

LEMMA KnowsIs ==
    ASSUME NEW x, NEW d
    PROVE  /\ Knows(x, d, "named") <=> x.imsi = d /\ x.imei = d
           /\ Knows(x, d, "address") <=> x.imsi = d /\ x.ip = d
           /\ Knows(x, d, "whole") <=> x.model # Absent /\ \A f \in Identifiers : x[f] = d
<1>1. "imsi" \in Identifiers
  BY DEF Identifiers
<1> QED
  BY <1>1 DEF Knows

\* A customer with a device that is alone has no other.
LEMMA AloneIs ==
    ASSUME NEW d \in Devices, Alone(d)
    PROVE  /\ \A e \in Devices : Whose(e) = Whose(d) => e = d
           /\ \A f \in Identifiers : Said(d, f) = d
BY DEF Alone, Said

\* Who knows a device belongs to its customer.
LEMMA KnowerOwner ==
    ASSUME NEW x, NEW d \in Devices, NEW what, Knows(x, d, what)
    PROVE  Whose(d) \in Owners(x)
<1>1. "imsi" \in Identifiers /\ x["imsi"] = d
  BY DEF Knows, Identifiers
<1> QED
  BY <1>1, OwnersIs, DeviceIs

\* Merged, two items of one customer know what either knows.
LEMMA MergeKnows ==
    ASSUME NEW x \in ItemType, NEW y \in ItemType,
           ItemOwn(x, sonar), ItemOwn(y, sonar), Owners(x) = Owners(y), Plain(x), Plain(y)
    PROVE  /\ Plain(Overwrite(x, y))
           /\ \A d \in Devices, what \in What :
                Alone(d) /\ (Knows(x, d, what) \/ Knows(y, d, what))
                    => Knows(Overwrite(x, y), d, what)
<1> DEFINE m == Overwrite(x, y)
<1>1. \A f \in Fields : \/ y[f] = Absent /\ m[f] = x[f]
                        \/ y[f] # Absent /\ m[f] = y[f]
  BY MergedFields
<1>2. Owners(m) = Owners(x)
  BY MergeOwn
<1> HIDE DEF m
<1>3. /\ \A f \in Identifiers : \/ y[f] = Absent /\ m[f] = x[f]
                                \/ y[f] # Absent /\ m[f] = y[f]
      /\ (y.ip = Absent /\ m.ip = x.ip) \/ (y.ip # Absent /\ m.ip = y.ip)
      /\ (y.model = Absent /\ m.model = x.model) \/ (y.model # Absent /\ m.model = y.model)
  <2>1. /\ \A f \in Identifiers : f \in Fields
        /\ "ip" \in Fields /\ "model" \in Fields
    BY DEF Fields, KeyFields
  <2>2. \A f \in Identifiers : (y[f] = Absent /\ m[f] = x[f]) \/ (y[f] # Absent /\ m[f] = y[f])
    BY <1>1, <2>1
  <2>3. (y["ip"] = Absent /\ m["ip"] = x["ip"]) \/ (y["ip"] # Absent /\ m["ip"] = y["ip"])
    BY <1>1, <2>1
  <2>4. \/ y["model"] = Absent /\ m["model"] = x["model"]
        \/ y["model"] # Absent /\ m["model"] = y["model"]
    BY <1>1, <2>1
  <2> QED
    BY <2>2, <2>3, <2>4
<1>4. Plain(m)
  <2> SUFFICES ASSUME NEW d \in Devices, Alone(d), Whose(d) \in Owners(m)
               PROVE  (\A f \in Identifiers : m[f] \in {Absent, d}) /\ m.ip \in {Absent, d}
    BY DEF Plain
  <2>1. /\ \A f \in Identifiers : x[f] \in {Absent, d} /\ y[f] \in {Absent, d}
        /\ x.ip \in {Absent, d} /\ y.ip \in {Absent, d}
    BY <1>2 DEF Plain
  <2> QED
    BY <1>3, <2>1
<1>5. ASSUME NEW d \in Devices, NEW what \in What, Alone(d),
             Knows(x, d, what) \/ Knows(y, d, what)
      PROVE  Knows(m, d, what)
  <2>1. Whose(d) \in Owners(x) /\ Whose(d) \in Owners(y)
    BY <1>5, KnowerOwner
  <2>2. /\ \A f \in Identifiers : x[f] \in {Absent, d} /\ y[f] \in {Absent, d}
        /\ x.ip \in {Absent, d} /\ y.ip \in {Absent, d}
    BY <1>5, <2>1 DEF Plain
  <2>4. d # Absent
    BY DeviceIs
  <2>5. \A f \in Identifiers : x[f] = d \/ y[f] = d => m[f] = d
    BY <1>3, <2>2, <2>4
  <2>6. (x.ip = d \/ y.ip = d) => m.ip = d
    BY <1>3, <2>2, <2>4
  <2>7. (x.model # Absent \/ y.model # Absent) => m.model # Absent
    BY <1>3
  <2>8. /\ (x.imsi = d \/ y.imsi = d) => m.imsi = d
        /\ (x.imei = d \/ y.imei = d) => m.imei = d
    BY <2>5 DEF Identifiers
  <2>9. CASE what = "named"
    BY <1>5, <2>8, <2>9, KnowsIs
  <2>10. CASE what = "address"
    BY <1>5, <2>6, <2>8, <2>10, KnowsIs
  <2>11. CASE what = "whole"
    BY <1>5, <2>5, <2>7, <2>11, KnowsIs
  <2> QED
    BY <2>9, <2>10, <2>11 DEF What
<1> QED
  BY <1>4, <1>5 DEF m

\* The steps of add make nothing due.
LEMMA DueAdding ==
    ASSUME pc \in {"add", "absorb"}, pc' \in {"add", "absorb"}, UNCHANGED <<next, done>>
    PROVE  \A d \in Attached, what \in What : Due(d, what)' => Due(d, what)
<1>1. /\ Heading({"telrad", "baicells", "noted"})' <=> Heading({"telrad", "baicells", "noted"})
      /\ Heading({"baicells", "noted"})' <=> Heading({"baicells", "noted"})
  BY DEF Heading
<1> QED
  BY <1>1 DEF Due

\* What is known stays known, and nothing more is due.
LEMMA FoundKept ==
    ASSUME Found, \A r \in todo' : ~r.own, \A x \in Held' : Plain(x),
           \A d \in Devices, what \in What :
             Alone(d) /\ (\E x \in Held : Knows(x, d, what)) => \E x \in Held' : Knows(x, d, what),
           \A d \in Attached, what \in What : Due(d, what)' => Due(d, what)
    PROVE  Found'
<1>1. \A d \in Attached : d \in Devices
  BY DevicesAssumption
<1> QED
  BY <1>1 DEF Found

\* The items are what they were, and so is what is due.
LEMMA FoundRests ==
    ASSUME Found, UNCHANGED <<inv, todo, mine>>, pc # "absorb", pc' # "absorb",
           \A d \in Attached, what \in What : Due(d, what)' => Due(d, what)
    PROVE  Found'
<1>1. Held' = Held
  BY DEF Held, Items
<1> QED
  BY <1>1, FoundKept DEF Found

\* Steps of add: a and b are merged into m.
LEMMA FoundMerged ==
    ASSUME Found, UNCHANGED <<sonar, next, done>>, pc \in {"add", "absorb"}, pc' \in {"add", "absorb"},
           NEW a \in Held, NEW b \in Held, a \in ItemType, b \in ItemType,
           ItemOwn(a, sonar), ItemOwn(b, sonar), Owners(a) = Owners(b),
           Overwrite(a, b) \in Held', Held' \subseteq Held \cup {Overwrite(a, b)},
           Held \subseteq Held' \cup {a, b}, \A r \in todo' : ~r.own
    PROVE  Found'
<1>1. /\ Plain(Overwrite(a, b))
      /\ \A d \in Devices, what \in What :
           Alone(d) /\ (Knows(a, d, what) \/ Knows(b, d, what))
               => Knows(Overwrite(a, b), d, what)
  BY MergeKnows DEF Found
<1>2. \A x \in Held' : Plain(x)
  BY <1>1 DEF Found
<1>3. ASSUME NEW d \in Devices, NEW what \in What, Alone(d),
             NEW x \in Held, Knows(x, d, what)
      PROVE  \E y \in Held' : Knows(y, d, what)
  BY <1>1, <1>3
<1>4. \A d \in Attached, what \in What : Due(d, what)' => Due(d, what)
  BY DueAdding
<1> QED
  BY <1>2, <1>3, <1>4, FoundKept

LEMMA NoneOwn ==
    ASSUME NEW old, NEW m, NEW results, \A r \in results : ~r.own
    PROVE  Became(old, m, results) = results
<1>1. \A r \in results : (IF r.own /\ r.item = old THEN [r EXCEPT !.item = m] ELSE r) = r
  OBVIOUS
<1> QED
  BY <1>1 DEF Became

LEMMA HeldIs ==
    \A x : x \in Held <=> \/ \E n \in inv : x = n.item
                          \/ \E r \in todo : x = r.item
                          \/ pc = "absorb" /\ x = mine.item
BY DEF Held, Items

\* What is held when something has been merged.
LEMMA GoesHeld ==
    ASSUME NEW m, NEW rest, NEW stuck, Goes(m, rest, stuck), NEW x
    PROVE  x \in Held' <=> \/ \E n \in rest : x = n.item
                           \/ \E r \in todo' : x = r.item
                           \/ x = m
<1>1. x \in Held' <=> \/ \E n \in inv' : x = n.item
                      \/ \E r \in todo' : x = r.item
                      \/ pc' = "absorb" /\ x = mine'.item
  BY DEF Held, Items
<1>2. CASE pc' = "add" /\ inv' = rest \cup {File(m)} /\ mine' = Nobody
  BY <1>1, <1>2, FileIs
<1>3. CASE pc' = "absorb" /\ inv' = rest /\ mine'.item = m
  BY <1>1, <1>3
<1> QED
  BY <1>2, <1>3, GoesIs

LEMMA AddFound ==
    ASSUME IInv, Add, Found
    PROVE  Doomed' \/ Found'
<1>1. /\ TypeOK /\ InvInv /\ EntriesOwn /\ Merging /\ TodoOwn
      /\ pc = "add" /\ UNCHANGED <<sonar, next, done>>
  BY DEF IInv, InvInv, Merging, Add, Doomed
<1>2. PICK r \in todo : AddNothing(r) \/ AddNew(r) \/ \E n \in inv : AddTo(r, n)
  BY DEF Add
<1>3. (\A q \in todo : ~q.own) /\ r.item \in Held
  BY HeldIs DEF Found
<1>5. CASE AddNothing(r)
  <2>1. Keys(r.item) = {} /\ todo' = todo \ {r} /\ UNCHANGED <<pc, inv, mine>>
    BY <1>5 DEF AddNothing
  <2>2. \A x : x \in Held' <=> (\E n \in inv : x = n.item) \/ (\E q \in todo \ {r} : x = q.item)
    BY <1>1, <2>1 DEF Held, Items
  <2>3. \A x \in Held' : x \in Held
    BY <2>2, HeldIs
  <2>4. ASSUME NEW d \in Devices, NEW what \in What, NEW x \in Held,
               Knows(x, d, what)
        PROVE  x \in Held'
    <3>1. Owners(x) # {}
      BY <2>4, KnowerOwner
    <3>2. IdKeys(x) # {}
      BY <3>1, OwnersIs, HasIdKey
    <3>3. x # r.item
      BY <2>1, <3>2 DEF IdKeys
    <3> QED
      BY <1>1, <2>2, <3>3, HeldIs
  <2>5. \A x \in Held' : Plain(x)
    BY <2>3 DEF Found
  <2>6. \A d \in Devices, what \in What :
          Alone(d) /\ (\E x \in Held : Knows(x, d, what)) => \E x \in Held' : Knows(x, d, what)
    BY <2>4
  <2>7. \A d \in Attached, what \in What : Due(d, what)' => Due(d, what)
    BY <1>1, <2>1, DueAdding
  <2>8. \A q \in todo' : ~q.own
    BY <1>3, <2>1
  <2> QED
    BY <2>5, <2>6, <2>7, <2>8, FoundKept
<1>6. CASE AddNew(r)
  <2>1. inv' = inv \cup {File(r.item)} /\ todo' = todo \ {r} /\ UNCHANGED <<pc, mine>>
    BY <1>6 DEF AddNew
  <2>2. \A x : x \in Held' <=> \/ \E n \in inv \cup {File(r.item)} : x = n.item
                               \/ \E q \in todo \ {r} : x = q.item
    BY <1>1, <2>1 DEF Held, Items
  <2>3. File(r.item).item = r.item
    BY FileIs
  <2>4. \A x : x \in Held' <=> x \in Held
    BY <1>1, <2>2, <2>3, HeldIs
  <2>5. \A d \in Attached, what \in What : Due(d, what)' => Due(d, what)
    BY <1>1, <2>1, DueAdding
  <2>6. \A q \in todo' : ~q.own
    BY <1>3, <2>1
  <2> QED
    BY <2>4, <2>5, <2>6, FoundKept DEF Found
<1>7. ASSUME NEW n \in inv, AddTo(r, n), ~Doomed'
      PROVE  Found'
  <2> DEFINE m == Overwrite(n.item, r.item)
             stuck == IF Removable(n) THEN NotFiled ELSE n.filed
  <2>1. /\ Same(n.item, r.item)
        /\ Goes(m, inv \ {n}, stuck)
        /\ todo' = Became(n.item, m, todo \ {r})
    BY <1>7 DEF AddTo
  <2>2. Owners(n.item) = Owners(r.item)
    <3>1. ~Dead(r, inv)
      BY <1>3 DEF Dead
    <3> QED
      BY <1>1, <1>7, <3>1, AddToLive
  <2>3. n.item \in ItemType /\ ItemOwn(n.item, sonar) /\ n.item \in Held
    BY <1>1, EntryFacts, HeldIs
  <2>4. r.item \in ItemType /\ ItemOwn(r.item, sonar)
    BY <1>1, <2>1, ResultFacts
  <2>5. todo' = todo \ {r}
    BY <1>3, <2>1, NoneOwn
  <2> HIDE DEF stuck
  <2>6. \A x : x \in Held' <=> \/ \E o \in inv \ {n} : x = o.item
                               \/ \E q \in todo \ {r} : x = q.item
                               \/ x = m
    <3> HIDE DEF m
    <3>1. \A x : x \in Held' <=> \/ \E o \in inv \ {n} : x = o.item
                                 \/ \E q \in todo' : x = q.item
                                 \/ x = m
      BY <2>1, GoesHeld
    <3> QED
      BY <2>5, <3>1
  <2>7. pc' \in {"add", "absorb"}
    <3> HIDE DEF m
    <3> QED
      BY <2>1, GoesIs
  <2>8. m \in Held' /\ Held' \subseteq Held \cup {m} /\ Held \subseteq Held' \cup {n.item, r.item}
    <3> HIDE DEF m
    <3>1. m \in Held' /\ \A x \in Held' : x \in Held \cup {m}
      BY <2>6, HeldIs
    <3>2. \A x \in Held : x \in Held' \cup {n.item, r.item}
      BY <1>1, <2>6, HeldIs
    <3> QED
      BY <3>1, <3>2
  <2>9. \A q \in todo' : ~q.own
    BY <1>3, <2>5
  <2> QED
    BY <1>1, <1>3, <2>2, <2>3, <2>4, <2>7, <2>8, <2>9, FoundMerged
<1> QED
  BY <1>2, <1>5, <1>6, <1>7

LEMMA AbsorbFoundKeeps ==
    ASSUME IInv, Absorb, Found
    PROVE  Doomed' \/ Found'
<1>1. pc = "absorb" /\ UNCHANGED <<sonar, next, done>> /\ \E n \in inv : AbsorbFound(n)
  BY DEF Absorb, AbsorbFound
<1>2. PICK n \in inv : AbsorbFound(n)
  BY <1>1
<1>3. SUFFICES ASSUME ~Doomed'
               PROVE  Found'
  OBVIOUS
<1>4. Merging /\ Owners(mine.item) = Owners(n.item)
  BY <1>1, <1>2, <1>3, AbsorbFoundStep
<1>5. TypeOK /\ EntriesOwn
  BY DEF IInv, InvInv
<1>6. /\ n.item \in ItemType /\ ItemOwn(n.item, sonar) /\ n.item \in Held
      /\ mine.item \in ItemType /\ ItemOwn(mine.item, sonar) /\ mine.item \in Held
  BY <1>1, <1>4, <1>5, EntryFacts, HeldIs DEF TypeOK, Merging, MineOwn
<1> DEFINE m == Overwrite(mine.item, n.item)
<1>7. Goes(m, inv \ {n}, mine.stuck) /\ todo' = Became(mine.item, m, todo)
  BY <1>2 DEF AbsorbFound
<1>8. todo' = todo /\ \A q \in todo' : ~q.own
  BY <1>7, NoneOwn DEF Found
<1>9. pc' \in {"add", "absorb"}
  BY <1>7, GoesIs
<1>10. \A x : x \in Held' <=> \/ \E o \in inv \ {n} : x = o.item
                              \/ \E q \in todo : x = q.item
                              \/ x = m
  BY <1>7, <1>8, GoesHeld
<1>11. m \in Held' /\ Held' \subseteq Held \cup {m} /\ Held \subseteq Held' \cup {mine.item, n.item}
  <2> HIDE DEF m
  <2>1. m \in Held' /\ \A x \in Held' : x \in Held \cup {m}
    BY <1>10, HeldIs
  <2>2. \A x \in Held : x \in Held' \cup {mine.item, n.item}
    BY <1>10, HeldIs
  <2> QED
    BY <2>1, <2>2
<1> QED
  BY <1>1, <1>4, <1>6, <1>8, <1>9, <1>11, FoundMerged

LEMMA AbsorbItselfFound ==
    ASSUME IInv, AbsorbItself, Found
    PROVE  Found'
<1>1. Goes(mine.item, inv, NotFiled) /\ UNCHANGED <<next, todo, done>> /\ pc = "absorb"
  BY DEF AbsorbItself
<1>2. \A x : x \in Held' <=> x \in Held
  BY <1>1, GoesHeld, HeldIs
<1>3. pc' \in {"add", "absorb"}
  BY <1>1, GoesIs
<1>4. \A d \in Attached, what \in What : Due(d, what)' => Due(d, what)
  BY <1>1, <1>3, DueAdding
<1> QED
  BY <1>1, <1>2, <1>4, FoundKept DEF Found

\* What has been read is known too.
LEMMA FoundRead ==
    ASSUME Found, pc # "absorb", pc' # "absorb", todo = {}, UNCHANGED inv,
           \A r \in todo' : ~r.own /\ Plain(r.item),
           \A d \in Attached, what \in What : Alone(d) /\ Due(d, what)' =>
             Due(d, what) \/ \E r \in todo' : Knows(r.item, d, what)
    PROVE  Found'
<1>1. \A x : x \in Held' <=> (\E n \in inv : x = n.item) \/ (\E r \in todo' : x = r.item)
  BY DEF Held, Items
<1>2. \A x : x \in Held <=> \E n \in inv : x = n.item
  BY HeldIs
<1>3. \A x \in Held' : Plain(x)
  BY <1>1, <1>2 DEF Found
<1>4. ASSUME NEW d \in Attached, NEW what \in What, Alone(d), Due(d, what)'
      PROVE  \E x \in Held' : Knows(x, d, what)
  <2>1. CASE Due(d, what)
    BY <1>1, <1>2, <1>4, <2>1 DEF Found
  <2>2. CASE \E r \in todo' : Knows(r.item, d, what)
    BY <1>1, <2>2
  <2> QED
    BY <1>4, <2>1, <2>2
<1> QED
  BY <1>3, <1>4 DEF Found

LEMMA ReceivedItems ==
    ASSUME NEW items, NEW scan, NEW then, Receive(items, scan, then), \A i \in items : Plain(i)
    PROVE  /\ \A r \in todo' : ~r.own /\ Plain(r.item)
           /\ pc' = "add" /\ next' = then /\ UNCHANGED <<sonar, inv, mine, tasks>>
           /\ \/ done' = {}
              \/ done' = done \cup scan /\ \A i \in items : \E r \in todo' : r.item = i
<1>1. \A r \in Results(items) : r.item \in items /\ ~r.own
  BY DEF Results
<1>2. \A i \in items : [item |-> i, own |-> FALSE] \in Results(items)
  BY DEF Results
<1>3. todo' \subseteq Results(items)
  BY DEF Receive
<1>4. \/ done' = {}
      \/ done' = done \cup scan /\ \A i \in items : \E r \in todo' : r.item = i
  <2>1. \A i \in items : [item |-> i, own |-> FALSE].item = i
    OBVIOUS
  <2> QED
    BY <1>2, <2>1 DEF Receive
<1> QED
  BY <1>1, <1>3, <1>4 DEF Receive

\* An item that has one customer's identifiers, nothing empty and no address but its own.
LEMMA PlainRead ==
    ASSUME NEW x, OneCustomer(x), \A f \in Identifiers : x[f] \in Devices \cup {Absent},
           x.ip = Absent \/ x.ip = x.imsi
    PROVE  Plain(x)
<1> SUFFICES ASSUME NEW d \in Devices, Alone(d), Whose(d) \in Owners(x)
             PROVE  (\A f \in Identifiers : x[f] \in {Absent, d}) /\ x.ip \in {Absent, d}
  BY DEF Plain
<1>1. \A c \in Owners(x) : c = Whose(d)
  BY OwnersIs
<1>2. ASSUME NEW f \in Identifiers, x[f] \in Devices
      PROVE  x[f] = d
  <2>1. Whose(x[f]) \in Owners(x)
    BY <1>2, OwnersIs, DeviceIs
  <2> QED
    BY <1>1, <1>2, <2>1, AloneIs
<1>3. \A f \in Identifiers : x[f] \in {Absent, d}
  BY <1>2
<1>4. x.imsi \in {Absent, d}
  BY <1>3 DEF Identifiers
<1> QED
  BY <1>3, <1>4

LEMMA PlainRecord ==
    ASSUME TypeOK, RecordsOwn, NEW id \in DOMAIN sonar
    PROVE  Plain(FromRecord(id))
<1> DEFINE x == FromRecord(id)
<1>1. /\ x.ip = Absent
      /\ \A f \in Identifiers : x[f] = IF sonar[id][f] = None THEN Absent ELSE sonar[id][f]
  BY DEF FromRecord, Bare, Identifiers
<1>2. OneCustomer(x)
  BY FromRecordOwn DEF ItemOwn
<1> HIDE DEF x
<1>3. \A f \in Identifiers : x[f] \in Devices \cup {Absent}
  BY <1>1, RecordFacts
<1>4. Plain(x)
  BY <1>1, <1>2, <1>3, PlainRead
<1> QED
  BY <1>4 DEF x

LEMMA PlainAccount ==
    ASSUME TypeOK, RecordsOwn, NEW id \in DOMAIN sonar, NEW a \in AcctIds, sonar[id].acct = a
    PROVE  Plain(AccountItem(a, id))
<1> DEFINE x == AccountItem(a, id)
<1>1. /\ x.ip = Absent
      /\ \A f \in Identifiers : x[f] = IF sonar[id][f] = None THEN Absent ELSE sonar[id][f]
  BY DEF AccountItem, FromRecord, Bare, Identifiers
<1>2. OneCustomer(x)
  BY AccountItemOwn DEF ItemOwn
<1> HIDE DEF x
<1>3. \A f \in Identifiers : x[f] \in Devices \cup {Absent}
  BY <1>1, RecordFacts
<1>4. Plain(x)
  BY <1>1, <1>2, <1>3, PlainRead
<1> QED
  BY <1>4 DEF x

LEMMA OneDevice ==
    ASSUME NEW x, NEW d, \A f \in Identifiers : x[f] \in Missing \cup {d}
    PROVE  OneCustomer(x)
BY DEF OneCustomer, IdentifiersIn, Identifiers

LEMMA PlainSubscriber ==
    ASSUME NEW d \in Devices, NEW acct
    PROVE  LET x == [Bare EXCEPT !.imei = d, !.imsi = d, !.acct = acct]
           IN Plain(x) /\ Knows(x, d, "named")
<1> DEFINE x == [Bare EXCEPT !.imei = d, !.imsi = d, !.acct = acct]
<1>1. /\ x.ip = Absent /\ x.imsi = d /\ x.imei = d
      /\ \A f \in Identifiers : x[f] \in {Absent, d}
  BY DEF Bare, Identifiers
<1> HIDE DEF x
<1>2. OneCustomer(x)
  BY <1>1, OneDevice DEF Missing
<1>3. Plain(x) /\ Knows(x, d, "named")
  BY <1>1, <1>2, PlainRead, KnowsIs
<1> QED
  BY <1>3 DEF x

LEMMA PlainSession ==
    ASSUME NEW d \in Devices
    PROVE  LET x == [Bare EXCEPT !.imsi = d, !.ip = d]
           IN Plain(x) /\ Knows(x, d, "address")
<1> DEFINE x == [Bare EXCEPT !.imsi = d, !.ip = d]
<1>1. /\ x.ip = d /\ x.imsi = d
      /\ \A f \in Identifiers : x[f] \in {Absent, d}
  BY DEF Bare, Identifiers
<1> HIDE DEF x
<1>2. OneCustomer(x)
  BY <1>1, OneDevice DEF Missing
<1>3. Plain(x) /\ Knows(x, d, "address")
  BY <1>1, <1>2, PlainRead, KnowsIs
<1> QED
  BY <1>3 DEF x

\* What a reader makes of a device that answers; if it is one of its own, it is all.
LEMMA WholePlain ==
    ASSUME NEW reader \in Readers, NEW e \in Devices
    PROVE  Plain(Whole(reader, e))
<1> DEFINE x == Whole(reader, e)
<1>1. /\ ReadOf(x, reader, Whose(e))
      /\ \A f \in Identifiers : x[f] = IF f \in Says(reader, e) THEN Said(e, f) ELSE Unread(reader)
  BY WholeIs
<1> HIDE DEF x
<1>2. SUFFICES ASSUME NEW d \in Devices, Alone(d), Whose(d) \in Owners(x)
               PROVE  (\A f \in Identifiers : x[f] \in {Absent, d}) /\ x.ip \in {Absent, d}
  BY DEF Plain, x
<1>3. PICK g \in Identifiers : x[g] \notin Missing
  BY <1>2, OwnersIs
<1>4. Keys(x) # {}
  BY <1>3, KeyOf DEF KeyFields
<1>5. Owners(x) = {Whose(e)}
  BY <1>1, <1>4, ReadOfOwn
<1>6. e = d
  BY <1>2, <1>5, AloneIs
<1>7. g \in Says(reader, e)
  BY <1>1, <1>3, UnreadIs DEF Missing
<1>8. CASE reader = "baicells"
  <2>1. Says(reader, e) = Identifiers
    BY <1>7, <1>8 DEF Says
  <2> QED
    BY <1>1, <1>2, <1>6, <2>1, AloneIs DEF ReadOf
<1>9. CASE reader # "baicells"
  <2>1. Unread(reader) = Absent
    BY <1>9 DEF Unread
  <2> QED
    BY <1>1, <1>2, <1>6, <2>1, AloneIs DEF ReadOf
<1> QED
  BY <1>8, <1>9

LEMMA WholeKnows ==
    ASSUME NEW reader \in Readers, NEW d \in Devices, Reader[d] = reader, Alone(d)
    PROVE  Knows(Whole(reader, d), d, "whole")
<1>1. Says(reader, d) = Identifiers
  BY DEF Says
<1>2. \A f \in Identifiers : Whole(reader, d)[f] = d
  BY <1>1, WholeIs, AloneIs
<1>3. Whole(reader, d).model # Absent
  BY WholeIs, MissingAssumption DEF Missing
<1> QED
  BY <1>2, <1>3, KnowsIs

\* A step that ends at neither place of create_missing, and not while Sonar is read.
LEMMA FoundElsewhere ==
    ASSUME pc' \notin {"down", "accounts", "create", "created"}, ~Reading', Clean' => (Doomed \/ Found)'
    PROVE  FoundInv'
BY DEF FoundInv, DoneInv, CreateInv

LEMMA ReadAccountsFound ==
    ASSUME IInv, FoundInv, ReadAccounts
    PROVE  FoundInv'
<1> DEFINE At(a) == {id \in DOMAIN sonar : sonar[id].acct = a}
           served == {a \in AcctIds : At(a) # {}}
<1>1. PICK first \in [served -> DOMAIN sonar] :
        /\ \A a \in served : first[a] \in At(a)
        /\ Receive({[FromRecord(first[a]) EXCEPT !.linked = TRUE,
                        !.acct = [id |-> a, name |-> Accounts[a]]] : a \in served},
                   {}, "inventory")
  BY DEF ReadAccounts
<1> DEFINE items == {AccountItem(a, first[a]) : a \in served}
<1>2. Receive(items, {}, "inventory")
  BY <1>1 DEF AccountItem
<1>3. TypeOK /\ inv = {} /\ todo = {} /\ pc = "accounts" /\ done = {}
  BY DEF IInv, PlaceInv, ReadAccounts, FoundInv, DoneInv
<1>4. RecordsOwn /\ \A a \in served : /\ a \in AcctIds /\ first[a] \in DOMAIN sonar
                                      /\ sonar[first[a]].acct = a
  BY <1>1 DEF IInv, InvInv
<1> HIDE DEF served
<1>5. \A i \in items : Plain(i)
  BY <1>3, <1>4, PlainAccount
<1> HIDE DEF items
<1>6. /\ \A r \in todo' : ~r.own /\ Plain(r.item)
      /\ pc' = "add" /\ UNCHANGED <<sonar, inv, mine, tasks>> /\ done' = {}
  BY <1>2, <1>3, <1>5, ReceivedItems
<1>7. Found
  BY <1>3 DEF Found, Held, Items, Due
<1>8. Found'
  <2>1. \A d \in Attached, what \in What : ~Due(d, what)'
    BY <1>6 DEF Due
  <2> QED
    BY <1>3, <1>6, <1>7, <2>1, FoundRead
<1> QED
  BY <1>6, <1>8 DEF FoundInv, DoneInv, CreateInv

LEMMA ReadInventoryFound ==
    ASSUME IInv, FoundInv, ReadInventory
    PROVE  FoundInv'
<1> DEFINE items == {FromRecord(id) : id \in DOMAIN sonar}
<1>1. Receive(items, {"base"}, "ready") /\ pc = "inventory"
  BY DEF ReadInventory
<1>2. \A i \in items : Plain(i)
  BY PlainRecord DEF IInv, InvInv
<1> HIDE DEF items
<1>3. /\ \A r \in todo' : ~r.own /\ Plain(r.item)
      /\ pc' = "add" /\ next' = "ready" /\ UNCHANGED <<sonar, inv, mine, tasks>>
      /\ done' = {} \/ done' = done \cup {"base"}
  BY <1>1, <1>2, ReceivedItems
<1>4. done = {} /\ Found /\ todo = {}
  BY <1>1 DEF FoundInv, DoneInv, Clean, Reading, Doomed, IInv, PlaceInv
<1>5. Found'
  <2>1. \A d \in Attached, what \in What : ~Due(d, what)'
    BY <1>3, <1>4 DEF Due, Heading
  <2> QED
    BY <1>1, <1>3, <1>4, <2>1, FoundRead
<1> QED
  BY <1>3, <1>5, FoundElsewhere DEF Reading

LEMMA ReadSubscribersFound ==
    ASSUME IInv, FoundInv, ReadSubscribers
    PROVE  FoundInv'
<1> DEFINE items == {[Bare EXCEPT !.imei = d, !.imsi = d,
                          !.acct = [id |-> None, name |-> Raemis[d]]] : d \in Devices}
<1>1. Receive(items, {"subscribers"}, "ready") /\ pc = "ready"
  BY DEF ReadSubscribers
<1>2. /\ \A i \in items : Plain(i)
      /\ \A d \in Attached : \E i \in items : Knows(i, d, "named")
  <2>1. ASSUME NEW d \in Devices
        PROVE  LET x == [Bare EXCEPT !.imei = d, !.imsi = d,
                             !.acct = [id |-> None, name |-> Raemis[d]]]
               IN Plain(x) /\ Knows(x, d, "named")
    BY PlainSubscriber
  <2> QED
    BY <2>1, DevicesAssumption
<1> HIDE DEF items
<1>3. /\ \A r \in todo' : ~r.own /\ Plain(r.item)
      /\ pc' = "add" /\ next' = "ready" /\ UNCHANGED <<sonar, inv, mine, tasks>>
      /\ \/ done' = {}
         \/ done' = done \cup {"subscribers"} /\ \A i \in items : \E r \in todo' : r.item = i
  BY <1>1, <1>2, ReceivedItems
<1>4. todo = {}
  BY <1>1 DEF IInv, PlaceInv
<1>5. ASSUME Clean'
      PROVE  Found'
  <2>1. /\ "base" \in done' /\ done' = done \cup {"subscribers"}
        /\ \A i \in items : \E r \in todo' : r.item = i
    BY <1>3, <1>5 DEF Clean, Reading
  <2>2. Found
    BY <1>1, <2>1 DEF FoundInv, Clean, Doomed
  <2>3. \A d \in Attached : \E r \in todo' : Knows(r.item, d, "named")
    BY <1>2, <2>1
  <2>4. \A d \in Attached, what \in What : Due(d, what)' => Due(d, what) \/ what = "named"
    BY <1>3, <2>1 DEF Due, Heading
  <2> QED
    BY <1>1, <1>3, <1>4, <2>2, <2>3, <2>4, FoundRead
<1> QED
  BY <1>3, <1>5, FoundElsewhere DEF Reading

LEMMA ReadSessionsFound ==
    ASSUME IInv, FoundInv, ReadSessions
    PROVE  FoundInv'
<1> DEFINE items == {[Bare EXCEPT !.imsi = d, !.ip = d] : d \in Attached}
<1>1. Receive(items, {}, "telrad") /\ pc = "ready"
  BY DEF ReadSessions
<1>2. /\ \A i \in items : Plain(i)
      /\ \A d \in Attached : \E i \in items : Knows(i, d, "address")
  BY PlainSession, DevicesAssumption
<1> HIDE DEF items
<1>3. /\ \A r \in todo' : ~r.own /\ Plain(r.item)
      /\ pc' = "add" /\ next' = "telrad" /\ UNCHANGED <<sonar, inv, mine, tasks>>
      /\ \/ done' = {}
         \/ done' = done \cup {} /\ \A i \in items : \E r \in todo' : r.item = i
  BY <1>1, <1>2, ReceivedItems
<1>4. todo = {}
  BY <1>1 DEF IInv, PlaceInv
<1>5. ASSUME Clean'
      PROVE  Found'
  <2>1. "base" \in done' /\ done' = done /\ \A i \in items : \E r \in todo' : r.item = i
    BY <1>3, <1>5 DEF Clean, Reading
  <2>2. Found
    BY <1>1, <2>1 DEF FoundInv, Clean, Doomed
  <2>3. \A d \in Attached : \E r \in todo' : Knows(r.item, d, "address")
    BY <1>2, <2>1
  <2>4. \A d \in Attached, what \in What : Due(d, what)' => Due(d, what) \/ what = "address"
    BY <1>3, <2>1 DEF Due, Heading
  <2> QED
    BY <1>1, <1>3, <1>4, <2>2, <2>3, <2>4, FoundRead
<1> QED
  BY <1>3, <1>5, FoundElsewhere DEF Reading

\* What is known of a device's address and what Raemis says of it is in one entry.
LEMMA KnownTogether ==
    ASSUME IInv, Found, todo = {}, pc # "absorb",
           NEW d \in Attached, Alone(d), Due(d, "address")
    PROVE  \E n \in inv : n.item.ip = d /\ (Due(d, "named") => n.item.imei = d)
<1>1. "address" \in What /\ "named" \in What /\ d \in Devices
  BY DevicesAssumption DEF What
<1>2. PICK x \in Held : Knows(x, d, "address")
  BY <1>1 DEF Found
<1>3. PICK n \in inv : x = n.item
  BY <1>2, HeldIs
<1>4. n.item.ip = d /\ n.item["imsi"] = d
  BY <1>2, <1>3, KnowsIs
<1>5. CASE Due(d, "named")
  <2>1. PICK y \in Held : Knows(y, d, "named")
    BY <1>1, <1>5 DEF Found
  <2>2. PICK m \in inv : y = m.item
    BY <2>1, HeldIs
  <2>3. m.item.imei = d /\ m.item["imsi"] = d
    BY <2>1, <2>2, KnowsIs
  <2>4. IdKeys(n.item) \cap IdKeys(m.item) # {}
    BY <1>1, <1>4, <2>3, IdKeysMeet, DeviceIs DEF Identifiers
  <2>5. n = m
    BY <2>4 DEF IInv, InvInv, Apart
  <2> QED
    BY <1>4, <2>3, <2>5
<1> QED
  BY <1>4, <1>5

\* The device is asked, and it is one of those this reader reads.
Asks(reader, d) == Reader[d] = reader /\ \E n \in Asked(reader) : n.item.ip = d

LEMMA ScanFound ==
    ASSUME IInv, FoundInv, NEW reader \in Readers, NEW scan, "base" \notin scan, NEW after,
           NEW then \in {"baicells", "ready"}, Scan(reader, scan, after, then),
           pc \in {"telrad", "noted", "ready"},
           \A d \in Attached, what \in What :
             /\ Found /\ "base" \in done /\ Alone(d) /\ Due(d, what)'
             /\ done' = IF after \subseteq done THEN done \cup scan ELSE done
             => Due(d, what) \/ (what = "whole" /\ Asks(reader, d))
    PROVE  FoundInv'
<1>1. /\ pc' = "add" /\ next' = then /\ UNCHANGED <<sonar, inv, mine, tasks>>
      /\ \/ done' = {}
         \/ /\ todo' = Got(reader, Asked(reader))
            /\ done' = IF after \subseteq done THEN done \cup scan ELSE done
  BY ScanIs
<1>2. ASSUME Clean'
      PROVE  Found'
  <2>1. "base" \in done'
    BY <1>1, <1>2 DEF Clean, Reading
  <2>2. /\ todo' = Got(reader, Asked(reader)) /\ "base" \in done
        /\ done' = IF after \subseteq done THEN done \cup scan ELSE done
    BY <1>1, <2>1
  <2>3. Found /\ todo = {} /\ TypeOK
    BY <1>1, <2>2 DEF FoundInv, Clean, Doomed, IInv, PlaceInv
  <2>4. \A r \in todo' : ~r.own /\ \E n \in Asked(reader) : r.item = Whole(reader, n.item.ip)
    BY <2>2 DEF Got, Results
  <2>5. \A n \in Asked(reader) : n.item.ip \in Devices
    BY <2>3, AskedIs
  <2>6. \A r \in todo' : ~r.own /\ Plain(r.item)
    BY <2>4, <2>5, WholePlain
  <2>7. ASSUME NEW d \in Attached, Alone(d), Asks(reader, d)
        PROVE  \E r \in todo' : Knows(r.item, d, "whole")
    <3>1. PICK n \in Asked(reader) : n.item.ip = d
      BY <2>7 DEF Asks
    <3>2. Knows(Whole(reader, d), d, "whole")
      BY <2>7, DevicesAssumption, WholeKnows DEF Asks
    <3>3. [item |-> Whole(reader, d), own |-> FALSE] \in todo'
      BY <2>2, <3>1 DEF Got, Results
    <3>4. [item |-> Whole(reader, d), own |-> FALSE].item = Whole(reader, d)
      OBVIOUS
    <3> QED
      BY <3>2, <3>3, <3>4
  <2>8. \A d \in Attached, what \in What : Alone(d) /\ Due(d, what)' =>
          Due(d, what) \/ (what = "whole" /\ Asks(reader, d))
    BY <2>2, <2>3
  <2>9. \A d \in Attached, what \in What : Alone(d) /\ Due(d, what)' =>
          Due(d, what) \/ \E r \in todo' : Knows(r.item, d, what)
    BY <2>7, <2>8
  <2>10. pc # "absorb" /\ pc' # "absorb"
    BY <1>1
  <2> QED
    BY <1>1, <2>3, <2>6, <2>9, <2>10, FoundRead
<1> QED
  BY <1>1, <1>2, FoundElsewhere DEF Reading

LEMMA ScanTelradsFound ==
    ASSUME IInv, FoundInv, ScanTelrads
    PROVE  FoundInv'
<1>1. pc = "telrad" /\ Scan("telrad", {}, {}, "baicells") /\ "telrad" \in Readers
  BY DEF ScanTelrads, Readers
<1>2. pc' = "add" /\ next' = "baicells"
  BY <1>1, ScanIs
<1>3. ASSUME NEW d \in Attached, NEW what \in What, Found, "base" \in done, Alone(d),
             Due(d, what)', done' = done
      PROVE  Due(d, what) \/ (what = "whole" /\ Asks("telrad", d))
  <2>1. SUFFICES ASSUME ~Due(d, what)
                 PROVE  what = "whole" /\ Asks("telrad", d)
    OBVIOUS
  <2>2. what = "whole" /\ Reader[d] = "telrad" /\ "subscribers" \in done
    BY <1>1, <1>2, <1>3, <2>1 DEF Due, Heading
  <2>3. Due(d, "address") /\ Due(d, "named")
    BY <1>1, <1>3, <2>2 DEF Due, Heading
  <2>4. todo = {}
    BY <1>1 DEF IInv, PlaceInv
  <2>5. PICK n \in inv : n.item.ip = d /\ n.item.imei = d
    BY <1>1, <1>3, <2>3, <2>4, KnownTogether
  <2>6. n \in Asked("telrad")
    BY <2>2, <2>5, DeviceIs, DevicesAssumption DEF Asked, IsTelrad, Has
  <2> QED
    BY <2>2, <2>5, <2>6 DEF Asks
<1>4. (IF {} \subseteq done THEN done \cup {} ELSE done) = done
  OBVIOUS
<1> QED
  BY <1>1, <1>3, <1>4, ScanFound

LEMMA ScanBaicellsFound ==
    ASSUME IInv, FoundInv, ScanBaicells
    PROVE  FoundInv'
<1>1. /\ pc = "noted" /\ Scan("baicells", {"network"}, {"subscribers"}, "ready")
      /\ "baicells" \in Readers
  BY DEF ScanBaicells, Readers
<1>2. pc' = "add" /\ next' = "ready"
  BY <1>1, ScanIs
<1>3. ASSUME NEW d \in Attached, NEW what \in What, Found, "base" \in done, Alone(d),
             Due(d, what)',
             done' = IF {"subscribers"} \subseteq done THEN done \cup {"network"} ELSE done
      PROVE  Due(d, what) \/ (what = "whole" /\ Asks("baicells", d))
  <2>1. SUFFICES ASSUME ~Due(d, what)
                 PROVE  what = "whole" /\ Asks("baicells", d)
    OBVIOUS
  <2>2. \/ done' = done
        \/ done' = done \cup {"network"} /\ "subscribers" \in done
    BY <1>3
  <2>3. what = "whole" /\ Reader[d] = "baicells" /\ "subscribers" \in done
    BY <1>1, <1>2, <1>3, <2>1, <2>2 DEF Due, Heading
  <2>4. Due(d, "address") /\ Due(d, "named")
    BY <1>1, <1>3, <2>3 DEF Due, Heading
  <2>5. todo = {}
    BY <1>1 DEF IInv, PlaceInv
  <2>6. PICK n \in inv : n.item.ip = d /\ n.item.imei = d
    BY <1>1, <1>3, <2>4, <2>5, KnownTogether
  <2>7. n.item["imei"] = d /\ "imei" \in {"imei", "mac"}
    BY <2>6
  <2>8. IsBaicells(n.item)
    BY <2>3, <2>7, DeviceIs, DevicesAssumption DEF IsBaicells, Has
  <2>9. n \in Asked("baicells")
    BY <2>6, <2>8, DeviceIs, DevicesAssumption DEF Asked, Has
  <2> QED
    BY <2>3, <2>6, <2>9 DEF Asks
<1> QED
  BY <1>1, <1>3, ScanFound

LEMMA ScanSnmpFound ==
    ASSUME IInv, FoundInv, ScanSnmp
    PROVE  FoundInv'
<1>1. pc = "ready" /\ Scan("snmp", {"stats"}, {"network"}, "ready") /\ "snmp" \in Readers
  BY DEF ScanSnmp, Readers
<1>2. pc' = "add" /\ next' = "ready"
  BY <1>1, ScanIs
<1>3. ASSUME NEW d \in Attached, NEW what \in What, Found, "base" \in done, Alone(d),
             Due(d, what)',
             done' = IF {"network"} \subseteq done THEN done \cup {"stats"} ELSE done
      PROVE  Due(d, what) \/ (what = "whole" /\ Asks("snmp", d))
  <2>1. SUFFICES ASSUME ~Due(d, what)
                 PROVE  what = "whole" /\ Asks("snmp", d)
    OBVIOUS
  <2>2. \/ done' = done
        \/ done' = done \cup {"stats"} /\ "network" \in done
    BY <1>3
  <2>3. what = "whole" /\ Reader[d] = "snmp" /\ "network" \in done
    BY <1>1, <1>2, <1>3, <2>1, <2>2 DEF Due, Heading
  <2>4. Due(d, "address")
    BY <1>3, <2>3 DEF Due
  <2>5. todo = {}
    BY <1>1 DEF IInv, PlaceInv
  <2>6. PICK n \in inv : n.item.ip = d
    BY <1>1, <1>3, <2>4, <2>5, KnownTogether
  <2>7. n \in Asked("snmp")
    BY <2>6, DeviceIs, DevicesAssumption DEF Asked, Has
  <2> QED
    BY <2>3, <2>6, <2>7 DEF Asks
<1> QED
  BY <1>1, <1>3, ScanFound

\* Every step of add.
LEMMA FoundAdding ==
    ASSUME FoundInv, pc \in {"add", "absorb"}, pc' \in {"add", "absorb"}, UNCHANGED <<next, done>>,
           Clean => (Doomed \/ Found)'
    PROVE  FoundInv'
<1>1. Reading' <=> Reading
  BY DEF Reading
<1> QED
  BY <1>1 DEF FoundInv, DoneInv, CreateInv, Clean

LEMMA DownFound ==
    ASSUME Down
    PROVE  FoundInv'
BY DEF Down, FoundInv, DoneInv, CreateInv, Clean, Reading

LEMMA AddsFound ==
    ASSUME IInv, FoundInv, Adds
    PROVE  FoundInv'
<1>1. CASE Add
  <2>1. pc = "add" /\ UNCHANGED <<next, done>> /\ ~Doomed
    BY <1>1 DEF Add, Doomed
  <2>2. pc' \in {"add", "absorb"}
    <3>1. PICK r \in todo : AddNothing(r) \/ AddNew(r) \/ \E n \in inv : AddTo(r, n)
      BY <1>1 DEF Add
    <3>2. CASE AddNothing(r) \/ AddNew(r)
      BY <2>1, <3>2 DEF AddNothing, AddNew
    <3>3. CASE \E n \in inv : AddTo(r, n)
      BY <3>3, GoesIs DEF AddTo
    <3> QED
      BY <3>1, <3>2, <3>3
  <2>3. Clean => (Doomed \/ Found)'
    BY <1>1, <2>1, AddFound DEF FoundInv
  <2> QED
    BY <2>1, <2>2, <2>3, FoundAdding
<1>2. CASE Absorb
  <2>1. pc = "absorb" /\ UNCHANGED <<sonar, next, done>> /\ \E n \in inv : AbsorbFound(n)
    BY <1>2 DEF Absorb, AbsorbFound
  <2>2. PICK n \in inv : AbsorbFound(n)
    BY <2>1
  <2>3. pc' \in {"add", "absorb"}
    BY <2>2, GoesIs DEF AbsorbFound
  <2>4. ASSUME Doomed
        PROVE  Doomed'
    <3>1. mine.stuck # {}
      BY <2>2, <2>4 DEF Doomed, AbsorbFound
    <3> QED
      BY <2>1, <2>2, <3>1, AbsorbFoundStep
  <2>5. Clean => (Doomed \/ Found)'
    BY <1>2, <2>4, AbsorbFoundKeeps DEF FoundInv
  <2> QED
    BY <2>1, <2>3, <2>5, FoundAdding
<1>3. CASE AbsorbItself
  <2>1. /\ pc = "absorb" /\ UNCHANGED <<next, done>>
        /\ mine.stuck # {} /\ mine.stuck = Keys(mine.item)
    BY <1>3 DEF AbsorbItself, NotFiled
  <2>2. pc' \in {"add", "absorb"}
    BY <1>3, GoesIs DEF AbsorbItself
  <2>3. ~Doomed
    BY <2>1 DEF Doomed
  <2>4. Clean => (Doomed \/ Found)'
    BY <1>3, <2>3, AbsorbItselfFound DEF FoundInv
  <2> QED
    BY <2>1, <2>2, <2>4, FoundAdding
<1>4. CASE AddRaises
  BY <1>4, DownFound DEF AddRaises
<1>5. CASE AddedAll
  <2>1. /\ pc = "add" /\ pc' = next /\ UNCHANGED <<inv, next, todo, mine, done>>
        /\ next \in {"inventory", "telrad", "baicells", "ready"} /\ ~Doomed
    BY <1>5 DEF AddedAll, IInv, PlaceInv, Doomed
  <2>2. Reading' => Reading
    BY <2>1 DEF Reading
  <2>3. \A d \in Attached, what \in What : Due(d, what)' => Due(d, what)
    BY <2>1 DEF Due, Heading
  <2>4. Found => Found'
    BY <2>1, <2>3, FoundRests
  <2> QED
    BY <2>1, <2>2, <2>4 DEF FoundInv, DoneInv, CreateInv, Clean
<1> QED
  BY <1>1, <1>2, <1>3, <1>4, <1>5 DEF Adds

\* What noting and the methods that write to Sonar leave as it is in an item.
Alike(x, y) == /\ \A f \in Identifiers \cup {"ip"} : x[f] = y[f]
               /\ x.model # Absent => y.model # Absent

LEMMA AlikeKnows ==
    ASSUME NEW x, NEW y, Alike(x, y), Plain(x)
    PROVE  /\ Plain(y)
           /\ \A d, what : Knows(x, d, what) => Knows(y, d, what)
<1>1. x.ip = y.ip /\ x.imsi = y.imsi /\ x.imei = y.imei /\ \A f \in Identifiers : x[f] = y[f]
  <2>1. x["ip"] = y["ip"] /\ x["imsi"] = y["imsi"] /\ x["imei"] = y["imei"]
    BY DEF Alike, Identifiers
  <2> QED
    BY <2>1 DEF Alike
<1>2. Owners(x) = Owners(y)
  BY <1>1, SameFieldsOwners
<1>3. Plain(y)
  BY <1>1, <1>2 DEF Plain
<1>4. \A d, what : Knows(x, d, what) => Knows(y, d, what)
  BY <1>1 DEF Knows, Alike
<1> QED
  BY <1>3, <1>4

LEMMA FoundAlike ==
    ASSUME Found, todo = {}, todo' = {}, pc # "absorb", pc' # "absorb",
           \A e \in inv' : \E n \in inv : Alike(n.item, e.item),
           \A n \in inv : \E e \in inv' : Alike(n.item, e.item),
           \A d \in Attached, what \in What : Due(d, what)' => Due(d, what)
    PROVE  Found'
<1>1. \A x : x \in Held' <=> \E e \in inv' : x = e.item
  BY DEF Held, Items
<1>2. \A x : x \in Held <=> \E n \in inv : x = n.item
  BY HeldIs
<1>3. \A n \in inv : Plain(n.item)
  BY <1>2 DEF Found
<1>4. \A x \in Held' : Plain(x)
  BY <1>1, <1>3, AlikeKnows
<1>5. ASSUME NEW d \in Devices, NEW what \in What,
             NEW x \in Held, Knows(x, d, what)
      PROVE  \E y \in Held' : Knows(y, d, what)
  <2>1. PICK n \in inv : x = n.item
    BY <1>2
  <2>2. PICK e \in inv' : Alike(n.item, e.item)
    OBVIOUS
  <2>3. Knows(e.item, d, what)
    BY <1>3, <1>5, <2>1, <2>2, AlikeKnows
  <2> QED
    BY <1>1, <2>3
<1> QED
  BY <1>4, <1>5, FoundKept

\* A step of a method that writes to Sonar.
LEMMA FoundWriting ==
    ASSUME FoundInv, pc \notin {"absorb", "add", "inventory"},
           pc' \notin {"down", "accounts", "inventory", "add", "absorb", "telrad"},
           done' = done \/ done' = {}, CreateInv', Found => Found'
    PROVE  FoundInv'
<1>1. Clean' => Clean
  BY DEF Clean, Reading
<1>2. ~Doomed
  BY DEF Doomed
<1>3. DoneInv'
  BY DEF DoneInv, Reading
<1> QED
  BY <1>1, <1>2, <1>3 DEF FoundInv

LEMMA NothingDue ==
    ASSUME pc' \notin {"add", "absorb", "telrad", "baicells", "noted"}, done' = done \/ done' = {}
    PROVE  \A d \in Attached, what \in What : Due(d, what)' => Due(d, what)
BY DEF Due, Heading

\* One that changes no item.
LEMMA FoundBeside ==
    ASSUME FoundInv, pc \notin {"absorb", "add", "inventory"},
           pc' \notin {"down", "accounts", "inventory", "add", "absorb", "telrad", "baicells", "noted"},
           done' = done \/ done' = {}, CreateInv', UNCHANGED <<inv, todo, mine>>
    PROVE  FoundInv'
<1>1. Found => Found'
  BY NothingDue, FoundRests
<1> QED
  BY <1>1, FoundWriting

LEMMA CreateItemFound ==
    ASSUME IInv, FoundInv, NEW n \in tasks, CreateItem(n)
    PROVE  FoundInv'
<1> DEFINE i == [n.item EXCEPT !.id = Len(sonar) + 1]
           e == [n EXCEPT !.item = i]
<1>1. /\ pc = "create" /\ UNCHANGED <<pc, next, todo, mine, done>>
      /\ tasks' = tasks \ {n} /\ inv' = (inv \ {n}) \cup {e}
  BY DEF CreateItem, TaskEnds
<1>2. /\ TypeOK /\ RecordsOwn /\ n.item \in ItemType /\ ItemOwn(n.item, sonar)
      /\ Creatable(n.item) /\ todo = {}
      /\ n \in inv /\ n = [item |-> n.item, filed |-> n.filed]
  BY <1>1, TaskFacts DEF IInv, InvInv, EntriesOwn, TaskInv, PlaceInv, TypeOK
<1>3. e.item = i
  BY <1>2
<1>4. /\ i.id = Len(sonar) + 1
      /\ i.model = n.item.model /\ \A f \in Identifiers \cup {"ip"} : i[f] = n.item[f]
  BY <1>2 DEF ItemType, Identifiers
<1>5. i.id \notin Missing
  BY <1>2, <1>4, Appended DEF CreateItem
<1> HIDE DEF e, i
<1>6. ~Creatable(e.item)
  BY <1>3, <1>5 DEF Creatable, Has
<1>7. CreateInv'
  BY <1>1, <1>6 DEF FoundInv, CreateInv
<1>8. Alike(n.item, e.item) /\ \A x : Alike(x, x)
  BY <1>3, <1>4 DEF Alike
<1>9. Found => Found'
  <2>1. \A o \in inv' : \E p \in inv : Alike(p.item, o.item)
    BY <1>1, <1>2, <1>8
  <2>2. \A p \in inv : \E o \in inv' : Alike(p.item, o.item)
    BY <1>1, <1>2, <1>8
  <2>3. \A d \in Attached, what \in What : Due(d, what)' => Due(d, what)
    BY <1>1, NothingDue
  <2> QED
    BY <1>1, <1>2, <2>1, <2>2, <2>3, FoundAlike
<1> QED
  BY <1>1, <1>7, <1>9, FoundWriting

LEMMA MatchNamesFound ==
    ASSUME IInv, FoundInv, MatchNames
    PROVE  FoundInv'
<1>0. PICK seen \in SUBSET AcctIds :
        /\ GetAccounts(seen)
        /\ LET chosen == {n \in inv : Linkable(n.item, seen)}
               linked == {Link(n, seen) : n \in chosen}
           IN Gather(linked, "match") /\ inv' = (inv \ chosen) \cup linked
  BY DEF MatchNames
<1> DEFINE chosen == {n \in inv : Linkable(n.item, seen)}
<1>1. /\ inv' = (inv \ chosen) \cup {Link(n, seen) : n \in chosen}
      /\ pc = "ready" /\ pc' = "match" /\ UNCHANGED <<todo, mine>>
      /\ done' = done \/ done' = {}
  BY <1>0 DEF Gather, GetAccounts
<1>2. \A n \in chosen : Alike(n.item, Link(n, seen).item)
  <2> SUFFICES ASSUME NEW n \in chosen
               PROVE  Alike(n.item, Link(n, seen).item)
    OBVIOUS
  <2>1. n.item \in ItemType /\ n = [item |-> n.item, filed |-> n.filed]
    BY DEF IInv, TypeOK, InvInv, EntriesOwn
  <2> DEFINE acct == [id |-> First(n.item, seen), name |-> Accounts[First(n.item, seen)]]
  <2>2. Link(n, seen).item = [n.item EXCEPT !.acct = acct]
    BY <2>1 DEF Link
  <2> HIDE DEF acct
  <2>3. /\ Link(n, seen).item.model = n.item.model
        /\ \A f \in Identifiers \cup {"ip"} : Link(n, seen).item[f] = n.item[f]
    BY <2>1, <2>2 DEF ItemType, Identifiers
  <2> QED
    BY <2>3 DEF Alike
<1>3. \A x : Alike(x, x)
  BY DEF Alike
<1>4. chosen \subseteq inv /\ todo = {}
  BY <1>1 DEF IInv, PlaceInv
<1> HIDE DEF chosen
<1>5. Found => Found'
  <2>1. \A o \in inv' : \E p \in inv : Alike(p.item, o.item)
    BY <1>1, <1>2, <1>3, <1>4
  <2>2. \A p \in inv : \E o \in inv' : Alike(p.item, o.item)
    BY <1>1, <1>2, <1>3, <1>4
  <2>3. \A d \in Attached, what \in What : Due(d, what)' => Due(d, what)
    BY <1>1, NothingDue
  <2> QED
    BY <1>1, <1>4, <2>1, <2>2, <2>3, FoundAlike
<1>6. CreateInv'
  BY <1>1 DEF CreateInv
<1> QED
  BY <1>1, <1>5, <1>6, FoundWriting

LEMMA NoteBaicellsFound ==
    ASSUME IInv, FoundInv, NoteBaicells
    PROVE  FoundInv'
<1>1. /\ pc = "baicells" /\ pc' = "noted" /\ UNCHANGED <<todo, mine, done>>
      /\ inv' = {Noted(n) : n \in inv}
  BY NoteIs DEF NoteBaicells
<1>2. TypeOK /\ EntriesOwn /\ todo = {}
  BY <1>1 DEF IInv, InvInv, PlaceInv
<1>3. ASSUME NEW n \in inv
      PROVE  Alike(n.item, Noted(n).item)
  <2>1. /\ \A f \in Fields : f # "model" => Noted(n).item[f] = n.item[f]
        /\ Noted(n).item.model \in {n.item.model, "baicells"}
    BY <1>2, NotedIs
  <2>2. \A f \in Identifiers \cup {"ip"} : f \in Fields /\ f # "model"
    BY DEF Fields, KeyFields, Identifiers
  <2>3. "baicells" # Absent
    BY MissingAssumption DEF Missing, Readers
  <2> QED
    BY <2>1, <2>2, <2>3 DEF Alike
<1>4. Found => Found'
  <2>1. \A e \in inv' : \E n \in inv : Alike(n.item, e.item)
    BY <1>1, <1>3
  <2>2. \A n \in inv : \E e \in inv' : Alike(n.item, e.item)
    BY <1>1, <1>3
  <2>3. \A d \in Attached, what \in What : Due(d, what)' => Due(d, what)
    BY <1>1 DEF Due, Heading
  <2>4. todo' = {} /\ pc # "absorb" /\ pc' # "absorb"
    BY <1>1, <1>2
  <2> QED
    BY <1>2, <2>1, <2>2, <2>3, <2>4, FoundAlike
<1>5. CreateInv'
  BY <1>1 DEF CreateInv
<1> QED
  BY <1>1, <1>4, <1>5, FoundWriting

LEMMA WritesFound ==
    ASSUME IInv, FoundInv, Writes
    PROVE  FoundInv'
<1>1. CASE CreateMissing
  <2>1. /\ pc = "ready" /\ pc' = "create" /\ tasks' = {n \in inv : Creatable(n.item)}
        /\ UNCHANGED <<inv, todo, mine, done>>
    BY <1>1 DEF CreateMissing, Gather
  <2>2. CreateInv'
    BY <2>1 DEF CreateInv
  <2> QED
    BY <2>1, <2>2, FoundBeside
<1>2. CASE LinkToAccounts \/ UpdateNeeded
  <2>1. /\ pc = "ready" /\ pc' \in {"link", "update"} /\ UNCHANGED <<inv, todo, mine, done>>
    BY <1>2 DEF LinkToAccounts, UpdateNeeded, Gather
  <2>2. CreateInv'
    BY <2>1 DEF CreateInv
  <2> QED
    BY <2>1, <2>2, FoundBeside
<1>4. CASE Gathered
  <2>1. /\ pc \in {"create", "match", "link", "update"} /\ tasks = {}
        /\ pc' \in {"created", "matched", "ready"} /\ (pc' = "created" => pc = "create")
        /\ UNCHANGED <<inv, todo, mine, done>>
    BY <1>4 DEF Gathered
  <2>2. CreateInv'
    BY <2>1 DEF FoundInv, CreateInv
  <2> QED
    BY <2>1, <2>2, FoundBeside
<1>5. CASE Return
  <2>1. /\ pc \in {"created", "matched"} /\ pc' = "ready" /\ UNCHANGED <<inv, todo, mine, done>>
    BY <1>5 DEF Return
  <2>2. CreateInv'
    BY <2>1 DEF CreateInv
  <2> QED
    BY <2>1, <2>2, FoundBeside
<1>6. ASSUME NEW n \in tasks, CreateItemFails(n) \/ Assign(n) \/ UpdateItem(n)
      PROVE  FoundInv'
  <2>1. /\ TaskEnds(n, n.item) /\ (done' = done \/ done' = {})
        /\ pc \in {"create", "match", "link", "update"} /\ (pc = "create" => done' = {})
    BY <1>6 DEF CreateItemFails, Assign, UpdateItem
  <2>2. UNCHANGED <<inv, pc, todo, mine>>
    BY <2>1, TaskIsEntry DEF TaskEnds, IInv, InvInv
  <2>3. CreateInv'
    BY <2>1, <2>2 DEF CreateInv
  <2> QED
    BY <2>1, <2>2, <2>3, FoundBeside
<1> QED
  BY <1>1, <1>2, <1>4, <1>5, <1>6, MatchNamesFound, CreateItemFound DEF Writes

LEMMA StartFound ==
    ASSUME FoundInv, Start
    PROVE  FoundInv'
BY DEF Start, FoundInv, DoneInv, CreateInv, Clean, Reading

LEMMA FoundInitially == Init => FoundInv
BY DEF Init, FoundInv, DoneInv, CreateInv, Clean, Reading

LEMMA FoundInductive == IInv /\ FoundInv /\ [Next]_vars => FoundInv'
<1> SUFFICES ASSUME IInv, FoundInv, [Next]_vars
             PROVE  FoundInv'
  OBVIOUS
<1>1. CASE Reads
  BY <1>1, StartFound, ReadAccountsFound, ReadInventoryFound, ReadSubscribersFound,
     ReadSessionsFound, ScanTelradsFound, NoteBaicellsFound, ScanBaicellsFound, ScanSnmpFound
     DEF Reads
<1>2. CASE Adds
  BY <1>2, AddsFound
<1>3. CASE Writes
  BY <1>3, WritesFound
<1>4. CASE Exit \/ Killed
  BY <1>4, DownFound DEF Exit, Killed
<1>5. CASE UNCHANGED vars
  <2>1. UNCHANGED <<inv, pc, next, todo, mine, tasks, done>>
    BY <1>5 DEF vars
  <2>2. Held' = Held
    BY <2>1 DEF Held, Items
  <2>3. \A d, what : Due(d, what)' <=> Due(d, what)
    BY <2>1 DEF Due, Heading
  <2>4. Found => Found'
    BY <2>1, <2>2, <2>3 DEF Found
  <2>5. Doomed => Doomed'
    BY <2>1 DEF Doomed
  <2>6. (Reading' <=> Reading) /\ (Clean' <=> Clean)
    BY <2>1 DEF Clean, Reading
  <2> QED
    BY <2>1, <2>4, <2>5, <2>6 DEF FoundInv, DoneInv, CreateInv
<1> QED
  BY <1>1, <1>2, <1>3, <1>4, <1>5 DEF Next

\* A device that is known whole, in an item that is not to be created, has a record.
LEMMA WholeHasRecord ==
    ASSUME TypeOK, NEW x \in ItemType, ItemOwn(x, sonar), ~Creatable(x),
           NEW d \in Devices, Alone(d), Knows(x, d, "whole")
    PROVE  RecordsOf(d) # {}
<1>1. x.model # Absent /\ \A f \in Identifiers : x[f] = d
  BY KnowsIs
<1>2. d \notin Missing /\ x.model \notin Missing
  <2>1. x.model \in Readers \cup {Absent}
    BY DEF ItemType
  <2> QED
    BY <1>1, <2>1, DeviceIs, MissingAssumption
<1>3. Has(x, "id")
  <2>1. /\ Has(x, "mac")
        /\ \A f \in {"imei", "imsi"} : x[f] \notin {Absent, None}
    BY <1>1, <1>2 DEF Has, Identifiers, Missing
  <2>2. Has(x, "model")
    BY <1>1, <1>2 DEF Has
  <2> QED
    BY <2>1, <2>2 DEF Creatable
<1>4. x.id \in DOMAIN sonar /\ Owners(x) = Owners(sonar[x.id])
  BY <1>3 DEF Has, ItemType, Optional, ItemOwn
<1>5. Whose(d) \in Owners(sonar[x.id])
  BY <1>4, KnowerOwner
<1>6. PICK f \in Identifiers : sonar[x.id][f] \notin Missing /\ Whose(d) = Whose(sonar[x.id][f])
  BY <1>5, OwnersIs
<1>7. sonar[x.id][f] \in Devices
  BY <1>4, <1>6, RecordFacts DEF Missing
<1>8. sonar[x.id][f] = d
  BY <1>6, <1>7, AloneIs
<1>9. d \in IdentifiersIn(sonar[x.id])
  BY <1>6, <1>8 DEF IdentifiersIn, Identifiers
<1> QED
  BY <1>4, <1>9 DEF RecordsOf, RecordsIn

LEMMA FoundHaveRecords == IInv /\ FoundInv => FoundAreCreated
<1> SUFFICES ASSUME IInv, FoundInv, pc = "created", AllScanned, NEW d \in Attached, Alone(d)
             PROVE  RecordsOf(d) # {}
  BY DEF FoundAreCreated
<1>1. /\ done = {"base", "subscribers", "network", "stats"}
      /\ Due(d, "whole") /\ "whole" \in What
  <2>1. Reader[d] \in Readers
    BY DevicesAssumption
  <2> QED
    BY <2>1 DEF AllScanned, Due, What, Readers
<1>2. Found /\ todo = {}
  BY <1>1 DEF FoundInv, Clean, Doomed, IInv, PlaceInv
<1>3. PICK x \in Held : Knows(x, d, "whole")
  BY <1>1, <1>2 DEF Found
<1>4. PICK n \in inv : x = n.item
  BY <1>2, <1>3, HeldIs
<1>5. ~Creatable(x)
  BY <1>1, <1>4 DEF FoundInv, CreateInv
<1>6. TypeOK /\ x \in ItemType /\ ItemOwn(x, sonar)
  BY <1>4, EntryFacts DEF IInv, InvInv
<1> QED
  BY <1>3, <1>5, <1>6, DevicesAssumption, WholeHasRecord

-----------------------------------------------------------------------------
(* The third invariant: a device has as many records as there were failures, and one more *)
(* if the process knows of one.                                                           *)

\* Sonar's inventory has been read.
Past == ~(pc \in {"down", "accounts"} \/ Reading)

\* Something the process knows has a record of the device's customer.
Recorded(d) == \E x \in Held : Has(x, "id") /\ Whose(d) \in Owners(x)

Unrecorded(d) == Past /\ ~Doomed /\ ~Recorded(d)

Counted(d) == /\ Cardinality(RecordsOf(d)) <= 1 + faults
              /\ Unrecorded(d) => Cardinality(RecordsOf(d)) <= faults

DupInv == \A d \in Devices : Alone(d) /\ KnownOnce(d) => Counted(d)

\* The records of a device that is alone are those of its customer.
LEMMA RecordsByOwner ==
    ASSUME NEW table \in Seq(Record), NEW d \in Devices, Alone(d)
    PROVE  \A id : id \in RecordsIn(table, d) <=>
                       id \in DOMAIN table /\ Whose(d) \in Owners(table[id])
<1>1. ASSUME NEW id \in DOMAIN table
      PROVE  d \in IdentifiersIn(table[id]) <=> Whose(d) \in Owners(table[id])
  <2>1. table[id] \in Record
    OBVIOUS
  <2>2. \A f \in Identifiers : table[id][f] \notin Missing => table[id][f] \in Devices
    BY <2>1 DEF Record, Identifiers, Missing
  <2>3. d \in IdentifiersIn(table[id]) <=> \E f \in Identifiers : table[id][f] = d
    BY DeviceIs DEF IdentifiersIn, Identifiers
  <2>4. Whose(d) \in Owners(table[id]) <=>
            \E f \in Identifiers : table[id][f] \notin Missing /\ Whose(d) = Whose(table[id][f])
    BY OwnersIs
  <2>5. \A f \in Identifiers : table[id][f] = d <=>
            table[id][f] \notin Missing /\ Whose(d) = Whose(table[id][f])
    BY <2>2, DeviceIs, AloneIs
  <2> QED
    BY <2>3, <2>4, <2>5
<1> QED
  BY <1>1 DEF RecordsIn

LEMMA RecordsFinite ==
    ASSUME TypeOK, NEW d
    PROVE  IsFiniteSet(RecordsOf(d)) /\ Cardinality(RecordsOf(d)) \in Nat
<1>1. IsFiniteSet(DOMAIN sonar)
  <2>1. Len(sonar) \in Nat /\ DOMAIN sonar = 1..Len(sonar)
    BY DEF TypeOK
  <2> QED
    BY <2>1, FS_Interval
<1>2. RecordsOf(d) \in SUBSET DOMAIN sonar
  BY DEF RecordsOf, RecordsIn
<1> QED
  BY <1>1, <1>2, FS_Subset, FS_CardinalityType

\* The records are those there were.
LEMMA CountKept ==
    ASSUME TypeOK, NEW d, Counted(d), Fine \/ Fault, RecordsOf(d)' = RecordsOf(d),
           Unrecorded(d)' => Unrecorded(d) \/ RecordsOf(d) = {} \/ Fault
    PROVE  Counted(d)'
<1> DEFINE c == Cardinality(RecordsOf(d))
<1>1. c \in Nat /\ faults \in Nat /\ (RecordsOf(d) = {} => c = 0)
  BY RecordsFinite, FS_EmptySet, BoundsAssumption DEF TypeOK
<1>2. Cardinality(RecordsOf(d)') = c
  OBVIOUS
<1>3. c <= 1 + faults /\ (Unrecorded(d) => c <= faults)
  BY DEF Counted
<1> HIDE DEF c
<1>4. faults' = faults \/ faults' = faults + 1
  BY DEF Fine, Fault
<1>5. c <= 1 + faults'
  BY <1>1, <1>3, <1>4
<1>6. Unrecorded(d)' => c <= faults'
  BY <1>1, <1>3, <1>4 DEF Fault
<1> QED
  BY <1>2, <1>5, <1>6 DEF Counted

\* There may be one more.
LEMMA CountOneMore ==
    ASSUME TypeOK, NEW d, Counted(d), NEW id, RecordsOf(d)' \subseteq RecordsOf(d) \cup {id},
           Unrecorded(d), \/ Fine /\ ~Unrecorded(d)'
                          \/ Fault
    PROVE  Counted(d)'
<1> DEFINE c == Cardinality(RecordsOf(d))
           e == Cardinality(RecordsOf(d)')
<1>1. c \in Nat /\ faults \in Nat
  BY RecordsFinite, BoundsAssumption DEF TypeOK
<1>2. e \in Nat /\ e <= c + 1
  <2>1. IsFiniteSet(RecordsOf(d))
    BY RecordsFinite
  <2>2. /\ IsFiniteSet(RecordsOf(d) \cup {id})
        /\ Cardinality(RecordsOf(d) \cup {id}) = c \/ Cardinality(RecordsOf(d) \cup {id}) = c + 1
    BY <2>1, FS_AddElement
  <2>3. RecordsOf(d)' \in SUBSET (RecordsOf(d) \cup {id})
    OBVIOUS
  <2>4. IsFiniteSet(RecordsOf(d)') /\ e <= Cardinality(RecordsOf(d) \cup {id})
    BY <2>2, <2>3, FS_Subset
  <2>5. e \in Nat
    BY <2>4, FS_CardinalityType
  <2> HIDE DEF c, e
  <2> QED
    BY <1>1, <2>2, <2>4, <2>5
<1>3. c <= faults
  BY DEF Counted
<1> HIDE DEF c, e
<1>4. e <= 1 + faults' /\ (Unrecorded(d)' => e <= faults')
  BY <1>1, <1>2, <1>3 DEF Fine, Fault
<1> QED
  BY <1>4 DEF Counted, e

LEMMA OverwriteId ==
    ASSUME NEW x \in ItemType, NEW y \in ItemType, x.id \notin {None, Empty}, y.id \notin {None, Empty},
           Has(x, "id") \/ Has(y, "id")
    PROVE  Has(Overwrite(x, y), "id")
<1> DEFINE m == Overwrite(x, y)
<1>1. (y["id"] = Absent /\ m["id"] = x["id"]) \/ (y["id"] # Absent /\ m["id"] = y["id"])
  BY MergedFields DEF Fields, KeyFields
<1> HIDE DEF m
<1>2. Has(m, "id")
  BY <1>1 DEF Has, Missing
<1> QED
  BY <1>2 DEF m

\* The result of a merge stands in for what was merged, in the results too.
LEMMA BecameStill ==
    ASSUME TypeOK, NEW old, NEW m, NEW results \in SUBSET todo, NEW q \in results
    PROVE  \E r \in Became(old, m, results) : r.item = q.item \/ (q.item = old /\ r.item = m)
<1> DEFINE r == IF q.own /\ q.item = old THEN [q EXCEPT !.item = m] ELSE q
<1>1. r \in Became(old, m, results)
  BY DEF Became
<1>2. q \in [item : ItemType, own : BOOLEAN]
  BY DEF TypeOK
<1>3. r.item = q.item \/ (q.item = old /\ r.item = m)
  BY <1>2
<1> QED
  BY <1>1, <1>3

LEMMA MergedRecorded ==
    ASSUME TypeOK, NEW d, Recorded(d),
           NEW a \in ItemType, NEW b \in ItemType, ItemOwn(a, sonar), ItemOwn(b, sonar),
           Owners(a) = Owners(b), NEW m, m = Overwrite(a, b), m \in Held',
           \A x \in Held : x \in Held' \/ x \in {a, b}
    PROVE  Recorded(d)'
<1>1. PICK x \in Held : Has(x, "id") /\ Whose(d) \in Owners(x)
  BY DEF Recorded
<1>2. CASE x \in Held'
  BY <1>1, <1>2 DEF Recorded
<1>3. CASE x \in {a, b}
  <2>1. Owners(m) = Owners(a) /\ Has(m, "id")
    BY <1>1, <1>3, MergeOwn, OverwriteId DEF ItemOwn
  <2> QED
    BY <1>1, <1>3, <2>1 DEF Recorded
<1> QED
  BY <1>2, <1>3

LEMMA AddRecorded ==
    ASSUME IInv, Add, ~Doomed', NEW d, Recorded(d)
    PROVE  Recorded(d)'
<1>1. /\ TypeOK /\ InvInv /\ EntriesOwn /\ Merging /\ TodoOwn /\ pc = "add" /\ UNCHANGED sonar
  BY DEF IInv, InvInv, Merging, Add, Doomed
<1>2. PICK r \in todo : AddNothing(r) \/ AddNew(r) \/ \E n \in inv : AddTo(r, n)
  BY DEF Add
<1>3. CASE AddNothing(r)
  <2>1. Keys(r.item) = {} /\ todo' = todo \ {r} /\ UNCHANGED <<pc, inv, mine>>
    BY <1>3 DEF AddNothing
  <2>2. \A x : x \in Held' <=> (\E n \in inv : x = n.item) \/ (\E q \in todo \ {r} : x = q.item)
    BY <1>1, <2>1 DEF Held, Items
  <2>3. PICK x \in Held : Has(x, "id") /\ Whose(d) \in Owners(x)
    BY DEF Recorded
  <2>4. x # r.item
    BY <2>1, <2>3, HasIdKey DEF IdKeys
  <2>5. x \in Held'
    BY <1>1, <2>2, <2>4, HeldIs
  <2> QED
    BY <2>3, <2>5 DEF Recorded
<1>4. CASE AddNew(r)
  <2>1. inv' = inv \cup {File(r.item)} /\ todo' = todo \ {r} /\ UNCHANGED <<pc, mine>>
    BY <1>4 DEF AddNew
  <2>2. \A x : x \in Held' <=> \/ \E n \in inv \cup {File(r.item)} : x = n.item
                               \/ \E q \in todo \ {r} : x = q.item
    BY <1>1, <2>1 DEF Held, Items
  <2>3. File(r.item).item = r.item
    BY FileIs
  <2>4. \A x \in Held : x \in Held'
    BY <1>1, <2>2, <2>3, HeldIs
  <2> QED
    BY <2>4 DEF Recorded
<1>5. ASSUME NEW n \in inv, AddTo(r, n)
      PROVE  Recorded(d)'
  <2> DEFINE m == Overwrite(n.item, r.item)
             stuck == IF Removable(n) THEN NotFiled ELSE n.filed
  <2>1. /\ Same(n.item, r.item)
        /\ Goes(m, inv \ {n}, stuck)
        /\ todo' = Became(n.item, m, todo \ {r})
    BY <1>5 DEF AddTo
  <2>2. Owners(n.item) = Owners(r.item)
    <3>1. ~Dead(r, inv)
      BY <1>1, <1>5, AddToDead
    <3> QED
      BY <1>1, <1>5, <3>1, AddToLive
  <2>3. n.item \in ItemType /\ ItemOwn(n.item, sonar)
    BY <1>1, EntryFacts
  <2>4. r.item \in ItemType /\ ItemOwn(r.item, sonar)
    BY <1>1, <2>1, ResultFacts
  <2> HIDE DEF stuck
  <2>5. /\ m \in Held'
        /\ \A x \in Held : x \in Held' \/ x \in {n.item, r.item}
    <3> HIDE DEF m
    <3>1. \A x : x \in Held' <=> \/ \E o \in inv \ {n} : x = o.item
                                 \/ \E q \in todo' : x = q.item
                                 \/ x = m
      BY <2>1, GoesHeld
    <3>2. \A q \in todo \ {r} : q.item \in Held' \/ q.item = n.item
      <4>1. todo \ {r} \in SUBSET todo
        OBVIOUS
      <4>2. \A q \in todo \ {r} : \E p \in todo' : p.item = q.item \/ (q.item = n.item /\ p.item = m)
        BY <1>1, <2>1, <4>1, BecameStill
      <4> QED
        BY <3>1, <4>2
    <3> QED
      BY <1>1, <3>1, <3>2, HeldIs
  <2> QED
    BY <1>1, <2>2, <2>3, <2>4, <2>5, MergedRecorded
<1> QED
  BY <1>2, <1>3, <1>4, <1>5

LEMMA AbsorbRecorded ==
    ASSUME IInv, Absorb, ~Doomed', NEW d, Recorded(d)
    PROVE  Recorded(d)'
<1>1. pc = "absorb" /\ UNCHANGED sonar /\ \E n \in inv : AbsorbFound(n)
  BY DEF Absorb, AbsorbFound
<1>2. PICK n \in inv : AbsorbFound(n)
  BY <1>1
<1>3. Merging /\ Owners(mine.item) = Owners(n.item)
  BY <1>1, <1>2, AbsorbFoundStep
<1>4. TypeOK /\ EntriesOwn
  BY DEF IInv, InvInv
<1>5. /\ n.item \in ItemType /\ ItemOwn(n.item, sonar)
      /\ mine.item \in ItemType /\ ItemOwn(mine.item, sonar)
  BY <1>1, <1>3, <1>4, EntryFacts DEF TypeOK, Merging, MineOwn
<1> DEFINE m == Overwrite(mine.item, n.item)
<1>6. Goes(m, inv \ {n}, mine.stuck) /\ todo' = Became(mine.item, m, todo)
  BY <1>2 DEF AbsorbFound
<1>7. /\ m \in Held'
      /\ \A x \in Held : x \in Held' \/ x \in {mine.item, n.item}
  <2> HIDE DEF m
  <2>1. \A x : x \in Held' <=> \/ \E o \in inv \ {n} : x = o.item
                               \/ \E q \in todo' : x = q.item
                               \/ x = m
    BY <1>6, GoesHeld
  <2>2. \A q \in todo : q.item \in Held' \/ q.item = mine.item
    <3>1. todo \in SUBSET todo
      OBVIOUS
    <3>2. \A q \in todo : \E p \in todo' : p.item = q.item \/ (q.item = mine.item /\ p.item = m)
      BY <1>4, <1>6, <3>1, BecameStill
    <3> QED
      BY <2>1, <3>2
  <2> QED
    BY <2>1, <2>2, HeldIs
<1> QED
  BY <1>3, <1>4, <1>5, <1>7, MergedRecorded

\* The steps that write to no record.
LEMMA CountRead ==
    ASSUME IInv, NEW d, Counted(d), Fine \/ Fault, UNCHANGED sonar,
           Unrecorded(d)' => (Past /\ ~Doomed) \/ RecordsOf(d) = {} \/ Fault,
           Unrecorded(d)' /\ Recorded(d) => Recorded(d)' \/ RecordsOf(d) = {} \/ Fault
    PROVE  Counted(d)'
<1>1. RecordsOf(d)' = RecordsOf(d)
  BY DEF RecordsOf
<1>2. Unrecorded(d)' => Unrecorded(d) \/ RecordsOf(d) = {} \/ Fault
  BY DEF Unrecorded
<1> QED
  BY <1>1, <1>2, CountKept DEF IInv

\* Items are only added.
LEMMA MoreRecorded ==
    ASSUME todo = {}, pc # "absorb", inv \subseteq inv', NEW d, Recorded(d)
    PROVE  Recorded(d)'
<1>1. \A x \in Held : \E n \in inv : x = n.item
  BY HeldIs
<1>2. \A x \in Held : x \in Held'
  BY <1>1 DEF Held, Items
<1> QED
  BY <1>2 DEF Recorded

\* Of each record read there is an item.
LEMMA InventoryRecorded ==
    ASSUME IInv, UNCHANGED sonar, todo' = Results({FromRecord(id) : id \in DOMAIN sonar}),
           NEW d \in Devices, RecordsOf(d) # {}
    PROVE  Recorded(d)'
<1>1. PICK id \in RecordsOf(d) : TRUE
  OBVIOUS
<1> DEFINE x == FromRecord(id)
<1>2. id \in DOMAIN sonar /\ d \in IdentifiersIn(sonar[id])
  BY <1>1 DEF RecordsOf, RecordsIn
<1>3. [item |-> x, own |-> FALSE] \in todo' /\ [item |-> x, own |-> FALSE].item = x
  BY <1>2 DEF Results
<1>4. x \in Held'
  BY <1>3 DEF Held
<1>5. x.id = id /\ id \notin Missing
  BY <1>2, RecordFacts DEF FromRecord, Bare, IInv
<1>6. ItemOwn(x, sonar)
  BY <1>2, FromRecordOwn DEF IInv, InvInv
<1> HIDE DEF x
<1>7. Has(x, "id") /\ Owners(x) = Owners(sonar[id])
  BY <1>5, <1>6 DEF Has, ItemOwn
<1>8. Whose(d) \in Owners(sonar[id])
  BY <1>2 DEF Owners
<1> QED
  BY <1>4, <1>7, <1>8 DEF Recorded

LEMMA ReadsCounted ==
    ASSUME IInv, Reads, NEW d, Counted(d)
    PROVE  Counted(d)'
<1>1. CASE Start
  <2>1. UNCHANGED <<sonar, faults>> /\ pc' = "accounts"
    BY <1>1 DEF Start
  <2> QED
    BY <2>1, CountRead DEF Fine, Unrecorded, Past
<1>2. CASE ReadAccounts
  <2>1. (Fine \/ Fault) /\ UNCHANGED sonar /\ pc' = "add" /\ next' = "inventory"
    BY <1>2 DEF ReadAccounts, Receive
  <2> QED
    BY <2>1, CountRead DEF Unrecorded, Past, Reading
<1>3. CASE ReadInventory
  <2> DEFINE items == {FromRecord(id) : id \in DOMAIN sonar}
  <2>1. Receive(items, {"base"}, "ready") /\ pc = "inventory"
    BY <1>3 DEF ReadInventory
  <2>2. /\ UNCHANGED sonar
        /\ (Fine /\ todo' = Results(items)) \/ Fault
    BY <2>1 DEF Receive
  <2>3. d \in Devices /\ todo' = Results(items) /\ RecordsOf(d) # {} => Recorded(d)'
    BY <2>2, InventoryRecorded
  <2> HIDE DEF items
  <2>4. CASE d \in Devices
    <3>1. Unrecorded(d)' => RecordsOf(d) = {} \/ Fault
      BY <2>2, <2>3, <2>4 DEF Unrecorded
    <3> QED
      BY <2>2, <3>1, CountRead
  <2>5. CASE d \notin Devices
    <3>1. RecordsOf(d) = {}
      <4> SUFFICES ASSUME NEW id \in DOMAIN sonar, d \in IdentifiersIn(sonar[id])
                   PROVE  FALSE
        BY DEF RecordsOf, RecordsIn
      <4>1. \A f \in Identifiers : sonar[id][f] \in Devices \cup {None}
        BY RecordFacts DEF IInv
      <4> QED
        BY <2>5, <4>1 DEF IdentifiersIn, Identifiers, Missing
    <3> QED
      BY <2>2, <3>1, CountRead
  <2> QED
    BY <2>4, <2>5
<1>4. CASE ReadSubscribers \/ ReadSessions \/ ScanTelrads \/ ScanBaicells \/ ScanSnmp
  <2>1. pc \in {"telrad", "noted", "ready"} /\ (Fine \/ Fault) /\ UNCHANGED <<sonar, inv>>
    <3>1. CASE ReadSubscribers \/ ReadSessions
      BY <3>1 DEF ReadSubscribers, ReadSessions, Receive
    <3>2. CASE ScanTelrads \/ ScanBaicells \/ ScanSnmp
      BY <3>2, ScanIs DEF ScanTelrads, ScanBaicells, ScanSnmp
    <3> QED
      BY <1>4, <3>1, <3>2
  <2>2. Past /\ ~Doomed /\ todo = {}
    BY <2>1 DEF Past, Reading, Doomed, IInv, PlaceInv
  <2>3. Recorded(d) => Recorded(d)'
    BY <2>1, <2>2, MoreRecorded
  <2> QED
    BY <2>1, <2>2, <2>3, CountRead
<1>5. CASE NoteBaicells
  <2>1. pc = "baicells" /\ Fine /\ UNCHANGED sonar /\ inv' = {Noted(n) : n \in inv}
    BY <1>5, NoteIs DEF NoteBaicells, Fine
  <2>2. Past /\ ~Doomed /\ todo = {} /\ TypeOK /\ EntriesOwn
    BY <2>1 DEF Past, Reading, Doomed, IInv, PlaceInv, InvInv
  <2>3. ASSUME Recorded(d)
        PROVE  Recorded(d)'
    <3>1. PICK n \in inv : Has(n.item, "id") /\ Whose(d) \in Owners(n.item)
      BY <2>1, <2>2, <2>3, HeldIs DEF Recorded
    <3>2. Has(Noted(n).item, "id") /\ Owners(Noted(n).item) = Owners(n.item)
      BY <2>2, <3>1, NotedSame
    <3>3. Noted(n).item \in Held'
      BY <2>1 DEF Held, Items
    <3> QED
      BY <3>1, <3>2, <3>3 DEF Recorded
  <2> QED
    BY <2>1, <2>2, <2>3, CountRead
<1> QED
  BY <1>1, <1>2, <1>3, <1>4, <1>5 DEF Reads

LEMMA DownCounted ==
    ASSUME IInv, Down, Fine \/ Fault, NEW d, Counted(d)
    PROVE  Counted(d)'
<1>1. UNCHANGED sonar /\ pc' = "down"
  BY DEF Down
<1> QED
  BY <1>1, CountRead DEF Unrecorded, Past

LEMMA AddsCounted ==
    ASSUME IInv, Adds, NEW d, Counted(d)
    PROVE  Counted(d)'
<1>1. CASE Add
  <2>1. pc = "add" /\ UNCHANGED <<sonar, next, faults>>
    BY <1>1 DEF Add
  <2>2. Unrecorded(d)' => Past /\ ~Doomed
    <3>1. PICK r \in todo : AddNothing(r) \/ AddNew(r) \/ \E n \in inv : AddTo(r, n)
      BY <1>1 DEF Add
    <3>2. AddNothing(r) \/ AddNew(r) => pc' = "add"
      BY <2>1 DEF AddNothing, AddNew
    <3>3. ASSUME NEW n \in inv, AddTo(r, n)
          PROVE  pc' \in {"add", "absorb"}
      BY <3>3, GoesIs DEF AddTo
    <3>4. pc' \in {"add", "absorb"}
      BY <3>1, <3>2, <3>3
    <3> QED
      BY <2>1, <3>4 DEF Unrecorded, Past, Reading, Doomed
  <2>3. Unrecorded(d)' /\ Recorded(d) => Recorded(d)'
    BY <1>1, AddRecorded DEF Unrecorded
  <2> QED
    BY <2>1, <2>2, <2>3, CountRead DEF Fine
<1>2. CASE Absorb
  <2>1. pc = "absorb" /\ UNCHANGED <<sonar, next, faults>> /\ \E n \in inv : AbsorbFound(n)
    BY <1>2 DEF Absorb, AbsorbFound
  <2>2. PICK n \in inv : AbsorbFound(n)
    BY <2>1
  <2>3. pc' \in {"add", "absorb"}
    BY <2>2, GoesIs DEF AbsorbFound
  <2>4. ASSUME Doomed
        PROVE  Doomed'
    <3>1. mine.stuck # {}
      BY <2>2, <2>4 DEF Doomed, AbsorbFound
    <3> QED
      BY <2>1, <2>2, <3>1, AbsorbFoundStep
  <2>5. Unrecorded(d)' => Past /\ ~Doomed
    BY <2>1, <2>3, <2>4 DEF Unrecorded, Past, Reading
  <2>6. Unrecorded(d)' /\ Recorded(d) => Recorded(d)'
    BY <1>2, AbsorbRecorded DEF Unrecorded
  <2> QED
    BY <2>1, <2>5, <2>6, CountRead DEF Fine
<1>3. CASE AbsorbItself
  <2>1. /\ pc = "absorb" /\ UNCHANGED <<sonar, next, todo, faults>>
        /\ mine.stuck # {} /\ mine.stuck = Keys(mine.item)
        /\ Goes(mine.item, inv, NotFiled)
    BY <1>3 DEF AbsorbItself, NotFiled
  <2>2. pc' \in {"add", "absorb"}
    BY <2>1, GoesIs
  <2>3. Unrecorded(d)' => Past /\ ~Doomed
    BY <2>1, <2>2 DEF Unrecorded, Past, Reading, Doomed
  <2>4. \A x : x \in Held' <=> x \in Held
    BY <2>1, GoesHeld, HeldIs
  <2>5. Recorded(d) => Recorded(d)'
    BY <2>4 DEF Recorded
  <2> QED
    BY <2>1, <2>3, <2>5, CountRead DEF Fine
<1>4. CASE AddRaises
  BY <1>4, DownCounted DEF AddRaises
<1>5. CASE AddedAll
  <2>1. /\ pc = "add" /\ pc' = next /\ todo = {} /\ UNCHANGED <<sonar, inv, next, faults>>
    BY <1>5 DEF AddedAll
  <2>2. Unrecorded(d)' => Past /\ ~Doomed
    BY <2>1 DEF Unrecorded, Past, Reading, Doomed
  <2>3. Recorded(d) => Recorded(d)'
    BY <2>1, MoreRecorded
  <2> QED
    BY <2>1, <2>2, <2>3, CountRead DEF Fine
<1> QED
  BY <1>1, <1>2, <1>3, <1>4, <1>5 DEF Adds

\* What is known of a device that is alone does parse.
LEMMA NothingEmpty ==
    ASSUME NEW x, ItemOwn(x, sonar), NEW d \in Devices, Alone(d), Whose(d) \in Owners(x),
           NEW f \in Identifiers
    PROVE  x[f] # Empty
<1> SUFFICES ASSUME x[f] = Empty
             PROVE  FALSE
  OBVIOUS
<1>1. PICK g \in Garbled : Whose(g[1]) \in Owners(x)
  BY DEF ItemOwn
<1>2. g = <<g[1], g[2]>> /\ g[1] \in Devices /\ g[2] \in Identifiers
  BY DevicesAssumption DEF Identifiers
<1>3. Whose(g[1]) = Whose(d)
  BY <1>1, OwnersIs DEF ItemOwn
<1>4. g[1] = d
  BY <1>2, <1>3, AloneIs
<1> QED
  BY <1>1, <1>2, <1>4 DEF Alone

\* An item is created only if the process knows of no record of the device.
LEMMA CreatableUnrecorded ==
    ASSUME IInv, pc = "create", NEW n \in tasks, NEW d \in Devices, Alone(d),
           Whose(d) \in Owners(n.item)
    PROVE  Unrecorded(d)
<1>1. /\ TypeOK /\ EntriesOwn /\ Apart /\ todo = {} /\ n \in inv /\ Creatable(n.item)
  BY DEF IInv, InvInv, TypeOK, TaskInv, PlaceInv
<1>2. Past /\ ~Doomed
  BY DEF Past, Reading, Doomed
<1>3. ASSUME Recorded(d)
      PROVE  FALSE
  <2>1. PICK x \in Held : Has(x, "id") /\ Whose(d) \in Owners(x)
    BY <1>3 DEF Recorded
  <2>2. PICK o \in inv : x = o.item
    BY <1>1, HeldIs
  <2>3. o.item \in ItemType /\ n.item \in ItemType /\ ItemOwn(n.item, sonar)
    BY <1>1, EntryFacts
  <2>4. PICK f \in Identifiers : x[f] \notin Missing /\ Whose(d) = Whose(x[f])
    BY <2>1, OwnersIs
  <2>5. /\ x[f] \in Devices \cup Missing /\ n.item[f] \in Devices \cup Missing
        /\ n.item[f] \notin Missing
    <3>1. x[f] \in Devices \cup Missing /\ n.item[f] \in Devices \cup Missing
      BY <2>2, <2>3 DEF ItemType, Optional, Identifiers
    <3>2. n.item[f] \notin {Absent, None}
      BY <1>1 DEF Identifiers, Creatable, Has, Missing
    <3>3. n.item[f] # Empty
      BY <2>3, NothingEmpty
    <3> QED
      BY <3>1, <3>2, <3>3 DEF Missing
  <2>6. x[f] = d
    BY <2>4, <2>5, AloneIs
  <2>7. n.item[f] = d
    <3>1. Whose(n.item[f]) \in Owners(n.item)
      BY <2>5, OwnersIs
    <3>2. Whose(n.item[f]) = Whose(d)
      BY <2>3, <3>1, OwnersIs DEF ItemOwn
    <3> QED
      BY <2>5, <3>2, AloneIs
  <2>8. IdKeys(n.item) \cap IdKeys(o.item) # {}
    <3>1. n.item[f] \notin Missing /\ n.item[f] = o.item[f]
      BY <2>2, <2>5, <2>6, <2>7
    <3> QED
      BY <3>1, IdKeysMeet
  <2>9. o = n
    BY <1>1, <2>8 DEF Apart
  <2> QED
    BY <1>1, <2>1, <2>2, <2>9 DEF Creatable
<1> QED
  BY <1>2, <1>3 DEF Unrecorded

\* The records of a device, when those there were keep their owners.
LEMMA RecordsWritten ==
    ASSUME TypeOK, NEW d \in Devices, Alone(d), sonar' \in Seq(Record),
           DOMAIN sonar \subseteq DOMAIN sonar',
           \A id \in DOMAIN sonar : Owners(sonar'[id]) = Owners(sonar[id])
    PROVE  \A id : id \in RecordsOf(d)' <=>
               id \in RecordsOf(d)
               \/ (id \in DOMAIN sonar' \ DOMAIN sonar /\ Whose(d) \in Owners(sonar'[id]))
<1>1. \A id : id \in RecordsIn(sonar, d) <=> id \in DOMAIN sonar /\ Whose(d) \in Owners(sonar[id])
  BY RecordsByOwner DEF TypeOK
<1>2. \A id : id \in RecordsIn(sonar', d) <=>
          id \in DOMAIN sonar' /\ Whose(d) \in Owners(sonar'[id])
  BY RecordsByOwner
<1> QED
  BY <1>1, <1>2 DEF RecordsOf

LEMMA CreateItemCounted ==
    ASSUME IInv, NEW n \in tasks, CreateItem(n), NEW d \in Devices, Alone(d), Counted(d)
    PROVE  Counted(d)'
<1> DEFINE k == Len(sonar) + 1
           i == [n.item EXCEPT !.id = k]
           e == [n EXCEPT !.item = i]
<1>1. /\ pc = "create" /\ UNCHANGED <<pc, next, todo, mine, done, faults>>
      /\ inv' = (inv \ {n}) \cup {e} /\ sonar' = Append(sonar, NewRecord(n.item))
  BY DEF CreateItem, TaskEnds
<1>2. /\ TypeOK /\ RecordsOwn /\ n.item \in ItemType /\ ItemOwn(n.item, sonar)
      /\ Creatable(n.item) /\ todo = {}
      /\ n \in inv /\ n = [item |-> n.item, filed |-> n.filed]
  BY <1>1, TaskFacts DEF IInv, InvInv, EntriesOwn, TaskInv, PlaceInv, TypeOK
<1>3. /\ sonar' \in Seq(Record) /\ DOMAIN sonar \subseteq DOMAIN sonar'
      /\ k \notin Missing
      /\ \A id \in DOMAIN sonar : Owners(sonar'[id]) = Owners(sonar[id])
      /\ Owners(sonar'[k]) = Owners(n.item)
  BY <1>1, <1>2, Appended
<1>4. DOMAIN sonar' \ DOMAIN sonar \subseteq {k}
  BY <1>1, <1>2 DEF TypeOK
<1>5. e.item = i /\ i.id = k /\ \A f \in Identifiers : i[f] = n.item[f]
  BY <1>2 DEF ItemType, Identifiers
<1> HIDE DEF e, i, k
<1>6. Owners(e.item) = Owners(n.item) /\ Has(e.item, "id")
  BY <1>3, <1>5, SameFieldsOwners DEF Has
<1>7. \A id : id \in RecordsOf(d)' <=>
          id \in RecordsOf(d)
          \/ (id \in DOMAIN sonar' \ DOMAIN sonar /\ Whose(d) \in Owners(sonar'[id]))
  BY <1>2, <1>3, RecordsWritten
<1>8. \A x : x \in Held' <=> \E o \in (inv \ {n}) \cup {e} : x = o.item
  BY <1>1, <1>2 DEF Held, Items
<1>9. CASE Whose(d) \in Owners(n.item)
  <2>1. Unrecorded(d)
    BY <1>1, <1>9, CreatableUnrecorded
  <2>2. Recorded(d)'
    BY <1>6, <1>8, <1>9 DEF Recorded
  <2>3. RecordsOf(d)' \subseteq RecordsOf(d) \cup {k}
    BY <1>4, <1>7
  <2>4. Fine /\ ~Unrecorded(d)'
    BY <1>1, <2>2 DEF Fine, Unrecorded
  <2> QED
    BY <1>2, <2>1, <2>3, <2>4, CountOneMore
<1>10. CASE Whose(d) \notin Owners(n.item)
  <2>1. RecordsOf(d)' = RecordsOf(d)
    BY <1>3, <1>4, <1>7, <1>10
  <2>2. Recorded(d) => Recorded(d)'
    <3>1. \A x \in Held : (\E o \in inv \ {n} : x = o.item) \/ x = n.item
      BY <1>1, <1>2, HeldIs
    <3> QED
      BY <1>8, <1>10, <3>1 DEF Recorded
  <2>3. Past /\ ~Doomed
    BY <1>1 DEF Past, Reading, Doomed
  <2>4. Unrecorded(d)' => Unrecorded(d)
    BY <2>2, <2>3 DEF Unrecorded
  <2> QED
    BY <1>1, <1>2, <2>1, <2>4, CountKept DEF Fine
<1> QED
  BY <1>9, <1>10

LEMMA CreateItemFailsCounted ==
    ASSUME IInv, NEW n \in tasks, CreateItemFails(n), NEW d \in Devices, Alone(d), Counted(d)
    PROVE  Counted(d)'
<1>1. /\ pc = "create" /\ Fault
      /\ sonar' = sonar \/ sonar' = Append(sonar, NewRecord(n.item))
  BY DEF CreateItemFails
<1>2. /\ TypeOK /\ RecordsOwn /\ n.item \in ItemType /\ ItemOwn(n.item, sonar)
      /\ Creatable(n.item)
  BY <1>1, TaskFacts DEF IInv, TaskInv
<1>3. CASE sonar' = sonar
  <2>1. RecordsOf(d)' = RecordsOf(d)
    BY <1>3 DEF RecordsOf
  <2> QED
    BY <1>1, <1>2, <2>1, CountKept
<1>4. CASE sonar' = Append(sonar, NewRecord(n.item))
  <2> DEFINE k == Len(sonar) + 1
  <2>1. /\ sonar' \in Seq(Record) /\ DOMAIN sonar \subseteq DOMAIN sonar'
        /\ \A id \in DOMAIN sonar : Owners(sonar'[id]) = Owners(sonar[id])
        /\ Owners(sonar'[k]) = Owners(n.item)
    BY <1>2, <1>4, Appended
  <2>2. DOMAIN sonar' \ DOMAIN sonar \subseteq {k}
    BY <1>2, <1>4 DEF TypeOK
  <2> HIDE DEF k
  <2>3. \A id : id \in RecordsOf(d)' <=>
            id \in RecordsOf(d)
            \/ (id \in DOMAIN sonar' \ DOMAIN sonar /\ Whose(d) \in Owners(sonar'[id]))
    BY <1>2, <2>1, RecordsWritten
  <2>4. CASE Whose(d) \in Owners(n.item)
    <3>1. Unrecorded(d)
      BY <1>1, <2>4, CreatableUnrecorded
    <3>2. RecordsOf(d)' \subseteq RecordsOf(d) \cup {k}
      BY <2>2, <2>3
    <3> QED
      BY <1>1, <1>2, <3>1, <3>2, CountOneMore
  <2>5. CASE Whose(d) \notin Owners(n.item)
    <3>1. RecordsOf(d)' = RecordsOf(d)
      BY <2>1, <2>2, <2>3, <2>5
    <3> QED
      BY <1>1, <1>2, <3>1, CountKept
  <2> QED
    BY <2>4, <2>5
<1> QED
  BY <1>1, <1>3, <1>4

\* An assignment or an update: no record more, and the same items.
LEMMA TaskCounted ==
    ASSUME IInv, NEW n \in tasks, TaskEnds(n, n.item), Fine \/ Fault, pc # "absorb", pc # "add",
           sonar' \in Seq(Record), DOMAIN sonar' = DOMAIN sonar,
           \A id \in DOMAIN sonar : Owners(sonar'[id]) = Owners(sonar[id]),
           NEW d \in Devices, Alone(d), Counted(d)
    PROVE  Counted(d)'
<1>1. /\ UNCHANGED <<inv, pc, next, todo, mine>>
  BY TaskIsEntry DEF TaskEnds, IInv, InvInv
<1>2. TypeOK
  BY DEF IInv
<1>3. RecordsOf(d)' = RecordsOf(d)
  <2>1. \A id : id \in RecordsOf(d)' <=> id \in RecordsOf(d)
    BY <1>2, RecordsWritten
  <2> QED
    BY <2>1
<1>4. Held' = Held /\ (Past' <=> Past) /\ ~Doomed
  BY <1>1 DEF Held, Items, Past, Reading, Doomed
<1>5. Unrecorded(d)' => Unrecorded(d)
  BY <1>4 DEF Unrecorded, Recorded
<1> QED
  BY <1>2, <1>3, <1>5, CountKept

LEMMA MatchNamesRecorded ==
    ASSUME IInv, MatchNames, NEW d, Recorded(d)
    PROVE  Recorded(d)'
<1>0. PICK seen \in SUBSET AcctIds :
        LET chosen == {n \in inv : Linkable(n.item, seen)}
            linked == {Link(n, seen) : n \in chosen}
        IN Gather(linked, "match") /\ inv' = (inv \ chosen) \cup linked
  BY DEF MatchNames
<1> DEFINE chosen == {n \in inv : Linkable(n.item, seen)}
<1>1. /\ inv' = (inv \ chosen) \cup {Link(n, seen) : n \in chosen}
      /\ pc = "ready" /\ pc' = "match" /\ UNCHANGED <<sonar, todo, mine>>
  BY <1>0 DEF Gather
<1>2. \A n \in chosen : \A f \in {"id"} \cup Identifiers : Link(n, seen).item[f] = n.item[f]
  <2> SUFFICES ASSUME NEW n \in chosen
               PROVE  \A f \in {"id"} \cup Identifiers : Link(n, seen).item[f] = n.item[f]
    OBVIOUS
  <2>1. /\ n = [item |-> n.item, filed |-> n.filed]
        /\ n.item \in ItemType /\ ItemOwn(n.item, sonar)
        /\ Removable(n) \/ Stale(n)
    BY DEF IInv, InvInv, EntriesOwn, TypeOK
  <2> QED
    BY <2>1, ItemLinked
<1>3. chosen \subseteq inv /\ todo = {}
  BY <1>1 DEF IInv, PlaceInv
<1> HIDE DEF chosen
<1>4. \A n \in inv : \E o \in inv' : \A f \in {"id"} \cup Identifiers : o.item[f] = n.item[f]
  BY <1>1, <1>2
<1>5. PICK x \in Held : Has(x, "id") /\ Whose(d) \in Owners(x)
  BY DEF Recorded
<1>6. PICK n \in inv : x = n.item
  BY <1>1, <1>3, <1>5, HeldIs
<1>7. PICK o \in inv' : \A f \in {"id"} \cup Identifiers : o.item[f] = n.item[f]
  BY <1>4
<1>8. o.item["id"] = x["id"] /\ \A f \in Identifiers : o.item[f] = x[f]
  BY <1>6, <1>7
<1>9. Has(o.item, "id") /\ Owners(o.item) = Owners(x)
  BY <1>5, <1>8, SameFieldsOwners DEF Has
<1>10. o.item \in Held'
  BY DEF Held, Items
<1> QED
  BY <1>5, <1>9, <1>10 DEF Recorded

LEMMA MatchNamesCounted ==
    ASSUME IInv, MatchNames, NEW d, Counted(d)
    PROVE  Counted(d)'
<1>1. pc = "ready" /\ UNCHANGED sonar /\ (Fine \/ Fault)
  BY DEF MatchNames, Gather, GetAccounts
<1>2. Past /\ ~Doomed
  BY <1>1 DEF Past, Reading, Doomed
<1>3. Recorded(d) => Recorded(d)'
  BY MatchNamesRecorded
<1> QED
  BY <1>1, <1>2, <1>3, CountRead

LEMMA WritesCounted ==
    ASSUME IInv, Writes, NEW d \in Devices, Alone(d), Counted(d)
    PROVE  Counted(d)'
<1>1. CASE CreateMissing \/ LinkToAccounts \/ UpdateNeeded \/ Gathered \/ Return
  <2>1. /\ UNCHANGED <<sonar, inv, todo, mine>> /\ (Fine \/ Fault)
        /\ pc \in {"ready", "create", "match", "link", "update", "created", "matched"}
    BY <1>1 DEF CreateMissing, LinkToAccounts, UpdateNeeded, Gathered, Return, Gather, Fine
  <2>2. Past /\ ~Doomed /\ todo = {}
    BY <2>1 DEF Past, Reading, Doomed, IInv, PlaceInv
  <2>3. Recorded(d) => Recorded(d)'
    BY <2>1, <2>2, MoreRecorded
  <2> QED
    BY <2>1, <2>2, <2>3, CountRead
<1>2. ASSUME NEW n \in tasks, Assign(n)
      PROVE  Counted(d)'
  <2>1. TaskEnds(n, n.item) /\ (Fine \/ Fault) /\ pc \in {"match", "link"}
    BY <1>2 DEF Assign
  <2>2. /\ sonar' \in Seq(Record)
        /\ \A id \in DOMAIN sonar : Owners(sonar'[id]) = Owners(sonar[id])
    BY <1>2, AssignWrites
  <2>3. DOMAIN sonar' = DOMAIN sonar
    BY <1>2 DEF Assign
  <2> QED
    BY <2>1, <2>2, <2>3, TaskCounted
<1>3. ASSUME NEW n \in tasks, UpdateItem(n)
      PROVE  Counted(d)'
  <2>1. TaskEnds(n, n.item) /\ (Fine \/ Fault) /\ pc = "update"
    BY <1>3 DEF UpdateItem
  <2>2. /\ sonar' \in Seq(Record)
        /\ \A id \in DOMAIN sonar : Owners(sonar'[id]) = Owners(sonar[id])
    BY <1>3, UpdateItemWrites
  <2>3. DOMAIN sonar' = DOMAIN sonar
    BY <1>3 DEF UpdateItem
  <2> QED
    BY <2>1, <2>2, <2>3, TaskCounted
<1> QED
  BY <1>1, <1>2, <1>3, MatchNamesCounted, CreateItemCounted, CreateItemFailsCounted DEF Writes

LEMMA Initial == Init => IInv
<1> SUFFICES ASSUME Init
             PROVE  IInv
  OBVIOUS
<1>1. /\ sonar \in Known /\ inv = {} /\ pc = "down" /\ next = "down" /\ todo = {}
      /\ mine = Nobody /\ tasks = {} /\ done = {} /\ faults = 0
  BY DEF Init
<1>2. sonar \in Seq(Record) /\ RecordsOwn
  BY <1>1, KnownAssumption DEF RecordsOwn, Justified
<1>3. TypeOK
  BY <1>1, <1>2, NobodyType, BoundsAssumption DEF TypeOK, Places
<1>4. PlaceInv /\ TaskInv
  BY <1>1 DEF PlaceInv, TaskInv
<1>5. InvInv
  BY <1>1, <1>2 DEF InvInv, EntriesOwn, Apart, LiveApart, StuckApart
<1>6. Live = {}
  BY <1>1 DEF Live
<1>7. Merging
  BY <1>1, <1>6 DEF Merging, Together, TodoOwn, MineOwn
<1> QED
  BY <1>3, <1>4, <1>5, <1>7 DEF IInv

LEMMA CountInitially == Init => DupInv
<1> SUFFICES ASSUME Init, NEW d \in Devices, KnownOnce(d)
             PROVE  Counted(d)
  BY DEF DupInv
<1>1. sonar \in Known /\ pc = "down" /\ faults = 0
  BY DEF Init
<1>2. TypeOK
  BY Initial DEF IInv
<1>3. IsFiniteSet(RecordsOf(d)) /\ Cardinality(RecordsOf(d)) \in Nat
  BY <1>2, RecordsFinite
<1>4. \A id, o \in RecordsOf(d) : id = o
  BY <1>1 DEF KnownOnce, RecordsOf
<1>5. RecordsOf(d) = {} \/ \E id : RecordsOf(d) = {id}
  BY <1>4
<1>6. Cardinality(RecordsOf(d)) = 0 \/ Cardinality(RecordsOf(d)) = 1
  BY <1>3, <1>5, FS_EmptySet, FS_Singleton
<1>7. Cardinality(RecordsOf(d)) <= 1 + faults
  BY <1>1, <1>6
<1> QED
  BY <1>1, <1>7 DEF Counted, Unrecorded, Past

LEMMA DupInductive == IInv /\ DupInv /\ [Next]_vars => DupInv'
<1> SUFFICES ASSUME IInv, [Next]_vars, NEW d \in Devices, Alone(d), Counted(d)
             PROVE  Counted(d)'
  BY DEF DupInv, KnownOnce, Alone
<1>1. CASE Reads
  BY <1>1, ReadsCounted
<1>2. CASE Adds
  BY <1>2, AddsCounted
<1>3. CASE Writes
  BY <1>3, WritesCounted
<1>4. CASE Exit \/ Killed
  BY <1>4, DownCounted DEF Exit, Killed
<1>5. CASE UNCHANGED vars
  <2>1. UNCHANGED <<sonar, inv, pc, next, todo, mine, faults>>
    BY <1>5 DEF vars
  <2>2. Held' = Held /\ (Past' <=> Past) /\ (Doomed' <=> Doomed)
    BY <2>1 DEF Held, Items, Past, Reading, Doomed
  <2>3. Unrecorded(d)' => Unrecorded(d)
    BY <2>2 DEF Unrecorded, Recorded
  <2>4. RecordsOf(d)' = RecordsOf(d) /\ TypeOK
    BY <2>1 DEF RecordsOf, IInv
  <2> QED
    BY <2>1, <2>3, <2>4, CountKept DEF Fine
<1> QED
  BY <1>1, <1>2, <1>3, <1>4, <1>5 DEF Next

-----------------------------------------------------------------------------
(* The first invariant is kept, and the steps that write to Sonar. *)

LEMMA ReadsKeep ==
    ASSUME IInv, Reads
    PROVE  IInv'
<1>1. CASE Start
  <2>1. /\ pc = "down" /\ pc' = "accounts"
        /\ UNCHANGED <<sonar, inv, todo, mine, tasks, next, done, faults>>
    BY <1>1 DEF Start
  <2>2. todo = {} /\ inv = {} /\ tasks = {}
    BY <2>1 DEF IInv, PlaceInv
  <2> QED
    BY <2>1, <2>2, GoesOn DEF Places, Fine
<1> QED
  BY <1>1, ReadAccountsStep, ReadInventoryStep, ReadSubscribersStep, ReadSessionsStep, ScansStep,
     NoteBaicellsStep DEF Reads

LEMMA AddsKeep ==
    ASSUME IInv, Adds
    PROVE  IInv'
<1>1. CASE Add
  BY <1>1, AddStep, AddType DEF IInv
<1>2. CASE Absorb
  BY <1>2, AbsorbStep, AbsorbType DEF IInv
<1>3. CASE AbsorbItself
  BY <1>3, AbsorbItselfStep, AbsorbItselfType DEF IInv
<1>4. CASE AddRaises
  BY <1>4, DownStep DEF AddRaises
<1>5. CASE AddedAll
  <2>1. /\ pc = "add" /\ todo = {} /\ pc' = next
        /\ UNCHANGED <<sonar, inv, next, todo, mine, tasks, done, faults>>
    BY <1>5 DEF AddedAll
  <2>2. tasks = {} /\ next \in {"inventory", "telrad", "baicells", "ready"}
    BY <2>1 DEF IInv, PlaceInv
  <2> QED
    BY <2>1, <2>2, GoesOn DEF Places, Fine
<1> QED
  BY <1>1, <1>2, <1>3, <1>4, <1>5 DEF Adds

LEMMA WritesKeep ==
    ASSUME IInv, Writes
    PROVE  IInv'
<1>1. CASE Gathered
  <2>1. /\ pc \in {"create", "match", "link", "update"} /\ tasks = {}
        /\ pc' \in {"created", "matched", "ready"}
        /\ UNCHANGED <<sonar, inv, next, todo, mine, tasks, done, faults>>
    BY <1>1 DEF Gathered
  <2>2. todo = {}
    BY <2>1 DEF IInv, PlaceInv
  <2> QED
    BY <2>1, <2>2, GoesOn DEF Places, Fine
<1>2. CASE Return
  <2>1. /\ pc \in {"created", "matched"} /\ pc' = "ready"
        /\ UNCHANGED <<sonar, inv, next, todo, mine, tasks, done, faults>>
    BY <1>2 DEF Return
  <2>2. todo = {} /\ tasks = {}
    BY <2>1 DEF IInv, PlaceInv
  <2> QED
    BY <2>1, <2>2, GoesOn DEF Places, Fine
<1>3. ASSUME NEW n \in tasks, CreateItem(n) \/ CreateItemFails(n) \/ Assign(n) \/ UpdateItem(n)
      PROVE  IInv'
  BY <1>3, CreateItemStep, CreateItemFailsStep, AssignStep, UpdateItemStep
<1> QED
  BY <1>1, <1>2, <1>3, CreateMissingStep, MatchNamesStep, LinkToAccountsStep,
     UpdateNeededStep DEF Writes

LEMMA Inductive == IInv /\ [Next]_vars => IInv'
<1> SUFFICES ASSUME IInv, [Next]_vars
             PROVE  IInv'
  OBVIOUS
<1>1. CASE Reads
  BY <1>1, ReadsKeep
<1>2. CASE Adds
  BY <1>2, AddsKeep
<1>3. CASE Writes
  BY <1>3, WritesKeep
<1>4. CASE Exit
  BY <1>4, DownStep DEF Exit
<1>5. CASE Killed
  BY <1>5, DownStep DEF Killed
<1>6. CASE UNCHANGED vars
  <2>1. UNCHANGED <<sonar, inv, pc, next, todo, mine, tasks, done, faults>>
    BY <1>6 DEF vars
  <2>2. TypeOK' /\ PlaceInv' /\ TaskInv'
    <3>1. ItemType' = ItemType
      BY <2>1 DEF ItemType
    <3>2. TypeOK'
      BY <2>1, <3>1 DEF IInv, TypeOK
    <3> QED
      BY <2>1, <3>2 DEF IInv, PlaceInv, TaskInv
  <2>3. InvInv' /\ (Doomed \/ Merging)'
    <3>1. Live' = Live
      BY <2>1 DEF Live
    <3>2. InvInv'
      BY <2>1 DEF IInv, InvInv, RecordsOwn, EntriesOwn, Apart, LiveApart, StuckApart
    <3>3. Doomed => Doomed'
      BY <2>1 DEF Doomed
    <3>4. Merging => Merging'
      BY <2>1, <3>1 DEF Merging, MineOwn, TodoOwn, Together
    <3> QED
      BY <3>2, <3>3, <3>4 DEF IInv
  <2> QED
    BY <2>2, <2>3 DEF IInv
<1> QED
  BY <1>1, <1>2, <1>3, <1>4, <1>5, <1>6 DEF Next

\* Only the tasks that write to Sonar change what is there.
LEMMA WritersWrite ==
    ASSUME [Next]_vars, ~UNCHANGED sonar
    PROVE  \E n \in tasks : CreateItem(n) \/ CreateItemFails(n) \/ Assign(n) \/ UpdateItem(n)
<1>1. Reads => UNCHANGED sonar
  <2>1. ScanTelrads \/ ScanBaicells \/ ScanSnmp => UNCHANGED sonar
    BY ScanIs DEF ScanTelrads, ScanBaicells, ScanSnmp
  <2> QED
    BY <2>1 DEF Reads, Start, ReadAccounts, ReadInventory, ReadSubscribers, ReadSessions, Receive,
                NoteBaicells
<1>2. Adds => UNCHANGED sonar
  BY DEF Adds, Add, Absorb, AbsorbItself, AddRaises, Down, AddedAll
<1>3. Writes /\ ~UNCHANGED sonar =>
        \E n \in tasks : CreateItem(n) \/ CreateItemFails(n) \/ Assign(n) \/ UpdateItem(n)
  BY DEF Writes, CreateMissing, MatchNames, LinkToAccounts, UpdateNeeded, Gather,
         Gathered, Return
<1>4. Exit \/ Killed \/ UNCHANGED vars => UNCHANGED sonar
  BY DEF Exit, Killed, Down, vars
<1> QED
  BY <1>1, <1>2, <1>3, <1>4 DEF Next

LEMMA OwnersStay ==
    ASSUME IInv, [Next]_vars, NEW id \in DOMAIN sonar
    PROVE  Owners(sonar'[id]) = Owners(sonar[id])
<1>1. CASE UNCHANGED sonar
  BY <1>1
<1>2. ASSUME NEW n \in tasks, CreateItem(n)
      PROVE  Owners(sonar'[id]) = Owners(sonar[id])
  <2>1. /\ TypeOK /\ RecordsOwn /\ n.item \in ItemType /\ ItemOwn(n.item, sonar)
        /\ Creatable(n.item)
    BY <1>2, TaskFacts DEF IInv, TaskInv, CreateItem
  <2> QED
    BY <1>2, <2>1, Appended DEF CreateItem
<1> QED
  BY <1>1, <1>2, WritersWrite, CreateItemFailsWrites, AssignWrites, UpdateItemWrites

\* Only the tasks of a link put a record somewhere, each its own item's.
LEMMA LinksPut ==
    ASSUME IInv, [Next]_vars, NEW id \in DOMAIN sonar, NEW a \in AcctIds, PutAt(id, a)
    PROVE  \E n \in tasks : /\ Assign(n) /\ ItemOwn(n.item, sonar)
                            /\ Has(n.item, "id") /\ InSonar(n.item)
                            /\ n.item.id = id /\ n.item.acct.id = a
                            /\ Owners(n.item) = Owners(sonar[id])
<1>1. sonar[id] \in Record /\ sonar \in Seq(Record) /\ ~UNCHANGED sonar
  BY RecordFacts DEF IInv, TypeOK, PutAt
<1>2. ASSUME NEW r, sonar' = sonar \/ sonar' = Append(sonar, r)
      PROVE  FALSE
  <2>1. sonar'[id] = sonar[id]
    BY <1>1, <1>2
  <2> QED
    BY <2>1 DEF PutAt
<1>3. ASSUME NEW n \in tasks, UpdateItem(n)
      PROVE  FALSE
  <2>1. PICK mac, imei, imsi :
          sonar' = [sonar EXCEPT ![n.item.id] =
                        [@ EXCEPT !.mac = mac, !.imei = imei, !.imsi = imsi]]
    BY <1>1, <1>3 DEF UpdateItem
  <2>2. [sonar[id] EXCEPT !.mac = mac, !.imei = imei, !.imsi = imsi].acct = sonar[id].acct
    BY <1>1 DEF Record
  <2>3. sonar'[id].acct = sonar[id].acct
    BY <1>1, <2>1, <2>2
  <2> QED
    BY <2>3 DEF PutAt
<1>4. PICK n \in tasks : Assign(n)
  BY <1>1, <1>2, <1>3, WritersWrite DEF CreateItem, CreateItemFails
<1>5. sonar' = [sonar EXCEPT ![n.item.id].acct = n.item.acct.id]
  BY <1>1, <1>4 DEF Assign
<1>6. id = n.item.id /\ a = n.item.acct.id
  <2>1. id = n.item.id
    BY <1>5 DEF PutAt
  <2>2. sonar'[id].acct = n.item.acct.id
    BY <1>1, <1>5, <2>1 DEF Record
  <2> QED
    BY <2>1, <2>2 DEF PutAt
<1>7. Has(n.item, "id") /\ InSonar(n.item)
  BY <1>4 DEF IInv, TaskInv, Assign
<1>8. ItemOwn(n.item, sonar) /\ Owners(n.item) = Owners(sonar[n.item.id])
  BY <1>7, TaskFacts DEF ItemOwn
<1> QED
  BY <1>4, <1>6, <1>7, <1>8

LEMMA MatchesAreExact ==
    ASSUME IInv, [Next]_vars, pc = "match", NEW id \in DOMAIN sonar, NEW a \in AcctIds,
           PutAt(id, a)
    PROVE  \E o \in Owners(sonar[id]) : Accounts[a] \in o
<1>1. PICK n \in tasks : n.item.acct.id = a /\ Owners(n.item) = Owners(sonar[id])
  BY LinksPut
<1>2. \E o \in Owners(n.item) : Accounts[n.item.acct.id] \in o
  BY DEF IInv, TaskInv
<1> QED
  BY <1>1, <1>2

LEMMA LinksAreJustified ==
    ASSUME IInv, [Next]_vars, NEW id \in DOMAIN sonar, NEW a \in AcctIds, PutAt(id, a)
    PROVE  (\E o \in Owners(sonar[id]) : Accounts[a] \in o) \/ BeenAt(Owners(sonar[id]), a)
<1>1. PICK n \in tasks : /\ ItemOwn(n.item, sonar) /\ InSonar(n.item)
                         /\ n.item.acct.id = a /\ Owners(n.item) = Owners(sonar[id])
  BY LinksPut
<1>2. Justified(Owners(sonar[id]), a, sonar)
  BY <1>1 DEF ItemOwn
<1> QED
  BY <1>2 DEF BeenAt, Justified

-----------------------------------------------------------------------------
(* The fourth invariant: what Raemis says of a device is not lost before the names are *)
(* matched.  Whatever knows a device knows its IMSI, so that all is merged in one item,   *)
(* but for what SNMP reads of a 12300, which has neither a record nor an account.          *)

Of(x, d) == Whose(d) \in Owners(x)

\* The items add has taken up.
Taken == Items \cup {x \in {mine.item} : pc = "absorb"}

\* Sonar's inventory and Raemis's subscribers have been read.
Told == {"base", "subscribers"} \subseteq done

\* What a device says of itself; what is only its MAC.
Fresh(x) == x.id = Absent /\ x.acct = Absent /\ x.linked = FALSE
Blank(x) == Fresh(x) /\ x.imei = Absent /\ x.imsi = Absent

ImsiOrMac(x, d) == Of(x, d) => x.imsi = d \/ Blank(x)
ByImsi(d) == \A x \in Held : ImsiOrMac(x, d)

\* What is read after Sonar's inventory has no record and no account of Sonar's.
Later(x) == /\ x.id = Absent /\ x.linked = FALSE
            /\ x.acct = Absent \/ (x.acct.id = None /\ x.mac = Absent)

\* What Raemis says of the device is among the results.
Pending(d) == \E r \in todo : Of(r.item, d) /\ r.item.acct # Absent

\* It has the name from Raemis, or is or will be at the account of that name.
Unmatched(x) == x.acct # Absent /\ x.acct.id = None /\ x.linked = FALSE
Matched(x, d) ==
    /\ InSonar(x) /\ Has(x, "id") /\ x.acct.id \in Namesakes(d)
    /\ \/ sonar[x.id].acct = x.acct.id
       \/ pc = "match" /\ \E n \in tasks : n.item = x

Named(x, d) == Unmatched(x) \/ Matched(x, d)

Titled(d) == \/ Pending(d)
             \/ /\ \E x \in Taken : Of(x, d) /\ Named(x, d)
                /\ \A x \in Taken : Of(x, d) => Named(x, d) \/ Fresh(x)

RecordsByImsi(d) == \A id \in RecordsOf(d) : sonar[id].imsi = d
KnownIfRecorded(d) == RecordsOf(d) # {} => Recorded(d)
TakenToMatch(d) == pc \in {"match", "matched"} =>
                       \A x \in Items : Of(x, d) /\ Has(x, "id") => InSonar(x)

LinkInv(d) ==
    /\ RecordsByImsi(d)
    /\ Clean => Doomed \/ ByImsi(d)
    /\ "base" \in done => Doomed \/ KnownIfRecorded(d)
    /\ Told => Doomed \/ (Titled(d) /\ \A r \in todo : Later(r.item))
    /\ Told => TakenToMatch(d)

NameInv == \A d \in Devices :
    Alone(d) /\ KnownByImsi(d) /\ FirstIsNamesake(d) => LinkInv(d)

\* The customer with a device that is alone has one name.
LEMMA AloneName ==
    ASSUME NEW d \in Devices, Alone(d)
    PROVE  Whose(d) = {Raemis[d]}
<1>1. CASE Raemis[d] \in Torn
  <2>1. Whose(d) = Torn
    BY <1>1 DEF Whose, Group
  <2>2. ASSUME NEW n \in Torn
        PROVE  n = Raemis[d]
    <3>1. PICK e \in Devices : n = Raemis[e]
      BY DevicesAssumption
    <3>2. Whose(e) = Torn
      BY <3>1 DEF Whose, Group
    <3>3. e = d
      BY <2>1, <3>2, AloneIs
    <3> QED
      BY <3>1, <3>3
  <2> QED
    BY <1>1, <2>1, <2>2
<1>2. CASE Raemis[d] \notin Torn
  BY <1>2 DEF Whose, Group
<1> QED
  BY <1>1, <1>2

\* Of a device that is alone, its customer's items have no other identifier.
LEMMA OnlyItsDevice ==
    ASSUME NEW x, OneCustomer(x), NEW d \in Devices, Alone(d), Of(x, d),
           NEW f \in Identifiers, x[f] \in Devices
    PROVE  x[f] = d
<1>1. Whose(x[f]) \in Owners(x)
  BY OwnersIs, DeviceIs
<1>2. Whose(x[f]) = Whose(d)
  BY <1>1, OwnersIs DEF Of
<1> QED
  BY <1>2, AloneIs

LEMMA OneEntry ==
    ASSUME Apart, NEW n \in inv, NEW o \in inv, NEW d \in Devices,
           n.item.imsi = d, o.item.imsi = d
    PROVE  n = o
<1>1. n.item["imsi"] \notin Missing /\ n.item["imsi"] = o.item["imsi"] /\ "imsi" \in Identifiers
  BY DeviceIs DEF Identifiers
<1>2. IdKeys(n.item) \cap IdKeys(o.item) # {}
  BY <1>1, IdKeysMeet
<1> QED
  BY <1>2 DEF Apart

\* Merging keeps the IMSI.
LEMMA MergeByImsi ==
    ASSUME NEW x \in ItemType, NEW y \in ItemType,
           ItemOwn(x, sonar), ItemOwn(y, sonar), Owners(x) = Owners(y),
           NEW d \in Devices, ImsiOrMac(x, d), ImsiOrMac(y, d), NEW m, m = Overwrite(x, y)
    PROVE  /\ Of(m, d) <=> Of(x, d)
           /\ Of(m, d) <=> Of(y, d)
           /\ ImsiOrMac(m, d)
<1>1. Owners(m) = Owners(x)
  BY MergeOwn
<1>2. (Of(m, d) <=> Of(x, d)) /\ (Of(m, d) <=> Of(y, d))
  BY <1>1 DEF Of
<1>3. \A f \in {"id", "acct", "linked", "imei", "imsi"} :
          (y[f] = Absent /\ m[f] = x[f]) \/ (y[f] # Absent /\ m[f] = y[f])
  BY MergedFields DEF Fields, KeyFields, Identifiers
<1>4. (y["imsi"] = Absent /\ m["imsi"] = x["imsi"]) \/ (y["imsi"] # Absent /\ m["imsi"] = y["imsi"])
  BY <1>3
<1>5. ASSUME Of(m, d), m.imsi # d
      PROVE  Blank(m)
  <2>1. Blank(y)
    BY <1>2, <1>4, <1>5, DeviceIs DEF ImsiOrMac
  <2>2. y["imsi"] = Absent
    BY <2>1 DEF Blank
  <2>3. Blank(x)
    BY <1>2, <1>4, <1>5, <2>2 DEF ImsiOrMac
  <2>4. /\ y["id"] = Absent /\ y["acct"] = Absent /\ y["imei"] = Absent /\ y["linked"] = FALSE
        /\ x["id"] = Absent /\ x["acct"] = Absent /\ x["imei"] = Absent /\ x["imsi"] = Absent
        /\ x["linked"] = FALSE
    BY <2>1, <2>3 DEF Blank, Fresh
  <2>5. /\ m["id"] = Absent /\ m["acct"] = Absent /\ m["imei"] = Absent /\ m["imsi"] = Absent
        /\ m["linked"] = FALSE
    BY <1>3, <2>2, <2>4
  <2> QED
    BY <2>5 DEF Blank, Fresh
<1> QED
  BY <1>2, <1>5 DEF ImsiOrMac

LEMMA LaterIs ==
    ASSUME NEW x, Later(x)
    PROVE  Fresh(x) \/ (Unmatched(x) /\ x.mac = Absent)
BY DEF Later, Fresh, Unmatched

\* The name is kept by what is added later, and what brings it prevails.
LEMMA MergeNamed ==
    ASSUME NEW x \in ItemType, NEW y \in ItemType, NEW d, NEW m, m = Overwrite(x, y), pc # "match"
    PROVE  /\ Named(y, d) => Named(m, d)
           /\ Named(x, d) /\ Fresh(y) => Named(m, d)
           /\ Fresh(x) /\ Fresh(y) => Fresh(m)
<1>1. \A f \in {"id", "acct", "linked"} : \/ y[f] = Absent /\ m[f] = x[f]
                                          \/ y[f] # Absent /\ m[f] = y[f]
  BY MergedFields DEF Fields, KeyFields
<1>2. /\ (y["id"] = Absent /\ m["id"] = x["id"]) \/ (y["id"] # Absent /\ m["id"] = y["id"])
      /\ (y["acct"] = Absent /\ m["acct"] = x["acct"]) \/ (y["acct"] # Absent /\ m["acct"] = y["acct"])
      /\ \/ y["linked"] = Absent /\ m["linked"] = x["linked"]
         \/ y["linked"] # Absent /\ m["linked"] = y["linked"]
  BY <1>1
<1>3. FALSE # Absent
  BY MissingAssumption DEF Missing
<1>4. Unmatched(y) => Unmatched(m)
  BY <1>2, <1>3 DEF Unmatched
<1>5. Matched(y, d) => Matched(m, d)
  BY <1>2 DEF Matched, InSonar, Has, Missing
<1>6. Unmatched(x) /\ Fresh(y) => Unmatched(m)
  BY <1>2, <1>3 DEF Unmatched, Fresh
<1>7. Matched(x, d) /\ Fresh(y) => Matched(m, d)
  BY <1>2 DEF Matched, InSonar, Has, Missing, Fresh
<1>8. Fresh(x) /\ Fresh(y) => Fresh(m)
  BY <1>2, <1>3 DEF Fresh
<1> QED
  BY <1>4, <1>5, <1>6, <1>7, <1>8 DEF Named

LEMMA TakenIs ==
    \A x : x \in Taken <=> (\E n \in inv : x = n.item) \/ (pc = "absorb" /\ x = mine.item)
BY DEF Taken, Items

LEMMA GoesTaken ==
    ASSUME NEW m, NEW rest, NEW stuck, Goes(m, rest, stuck)
    PROVE  /\ pc' \in {"add", "absorb"}
           /\ \A x : x \in Taken' <=> (\E n \in rest : x = n.item) \/ x = m
<1>1. \A x : x \in Taken' <=> (\E n \in inv' : x = n.item) \/ (pc' = "absorb" /\ x = mine'.item)
  BY DEF Taken, Items
<1>2. CASE pc' = "add" /\ inv' = rest \cup {File(m)} /\ mine' = Nobody
  BY <1>1, <1>2, FileIs
<1>3. CASE pc' = "absorb" /\ inv' = rest /\ mine'.item = m
  BY <1>1, <1>3
<1> QED
  BY <1>2, <1>3, GoesIs

\* While add runs no task does.
LEMMA NamedAdding ==
    ASSUME UNCHANGED sonar, pc # "match", NEW x, NEW d, Named(x, d)
    PROVE  Named(x, d)'
BY DEF Named, Unmatched, Matched, InSonar, Has, Missing, Namesakes, AcctIds

\* Of two items taken one is made.
LEMMA TitledMerged ==
    ASSUME UNCHANGED sonar, pc # "match", NEW d, ~Pending(d), Titled(d),
           NEW x \in ItemType, NEW y \in ItemType, NEW m, m = Overwrite(x, y),
           (Of(m, d) <=> Of(x, d)) /\ (Of(m, d) <=> Of(y, d)),
           x \in Taken, y \in Taken \/ Fresh(y),
           m \in Taken', \A k \in Taken' : k \in Taken \/ k = m,
           \A k \in Taken : k \in Taken' \/ k = x \/ k = y
    PROVE  Titled(d)'
<1>1. /\ Named(y, d) => Named(m, d)
      /\ Named(x, d) /\ Fresh(y) => Named(m, d)
      /\ Fresh(x) /\ Fresh(y) => Fresh(m)
  BY MergeNamed
<1>2. /\ \E k \in Taken : Of(k, d) /\ Named(k, d)
      /\ \A k \in Taken : Of(k, d) => Named(k, d) \/ Fresh(k)
  BY DEF Titled
<1>3. \A k : Named(k, d) => Named(k, d)'
  BY NamedAdding
<1>4. Of(m, d) => Named(m, d) \/ Fresh(m)
  BY <1>1, <1>2
<1>5. \A k \in Taken' : Of(k, d) => Named(k, d)' \/ Fresh(k)
  BY <1>2, <1>3, <1>4
<1>6. \E k \in Taken' : Of(k, d) /\ Named(k, d)'
  <2>1. PICK k \in Taken : Of(k, d) /\ Named(k, d)
    BY <1>2
  <2>2. CASE k \in Taken'
    BY <1>3, <2>1, <2>2
  <2>3. CASE k = x \/ k = y
    <3>1. Of(m, d) /\ Named(m, d)
      BY <1>1, <1>2, <2>1, <2>3
    <3> QED
      BY <1>3, <3>1
  <2> QED
    BY <2>1, <2>2, <2>3
<1> QED
  BY <1>5, <1>6 DEF Titled, Of, Fresh

\* Items of others come and go.
LEMMA TitledBeside ==
    ASSUME UNCHANGED sonar, pc # "match", NEW d, Titled(d), Pending(d) => Pending(d)',
           \A x : Of(x, d) => (x \in Taken' <=> x \in Taken)
    PROVE  Titled(d)'
<1>1. \A x : Named(x, d) => Named(x, d)'
  BY NamedAdding
<1> QED
  BY <1>1 DEF Titled, Of, Fresh

LEMMA AddNothingLink ==
    ASSUME TypeOK, pc = "add", UNCHANGED sonar, NEW r \in todo, AddNothing(r),
           NEW d, ByImsi(d)
    PROVE  ByImsi(d)' /\ (Titled(d) => Titled(d)')
<1>1. Keys(r.item) = {} /\ todo' = todo \ {r} /\ UNCHANGED <<pc, inv, mine>>
  BY DEF AddNothing
<1>2. ~Of(r.item, d)
  <2>1. IdentifiersIn(r.item) = {}
    BY <1>1, HasIdKey DEF IdKeys
  <2> QED
    BY <2>1, OwnersIs DEF Of
<1>3. \A x : x \in Held' <=> (\E n \in inv : x = n.item) \/ (\E q \in todo \ {r} : x = q.item)
  BY <1>1 DEF Held, Items
<1>4. \A x \in Held' : x \in Held
  BY <1>3, HeldIs
<1>5. ByImsi(d)'
  BY <1>4 DEF ByImsi, ImsiOrMac, Of, Blank, Fresh
<1>6. \A x : x \in Taken' <=> x \in Taken
  BY <1>1 DEF Taken, Items
<1>7. Pending(d) => Pending(d)'
  BY <1>1, <1>2 DEF Pending, Of
<1> QED
  BY <1>5, <1>6, <1>7, TitledBeside

\* Of what is only a MAC no subscriber has a key.
LEMMA NothingInCommon ==
    ASSUME NEW x, NEW y, Blank(x), y.mac = Absent
    PROVE  ~Same(x, y) /\ ~Same(y, x)
<1>1. /\ x["id"] = Absent /\ x["acct"] = Absent /\ x["imei"] = Absent /\ x["imsi"] = Absent
      /\ y["mac"] = Absent
  BY DEF Blank, Fresh
<1>2. \A f \in KeyFields : (x[f] \notin Missing \/ y[f] \notin Missing) => x[f] # y[f]
  BY <1>1 DEF KeyFields, Identifiers, Missing
<1> QED
  BY <1>2, SameIs

\* What brings the name is added: it is then named, and of others there is only a MAC.
LEMMA TitledNow ==
    ASSUME NEW d, NEW m \in Taken', Of(m, d), Unmatched(m),
           \A x \in Taken' : Of(x, d) => x = m \/ Blank(x)
    PROVE  Titled(d)'
BY DEF Titled, Of, Named, Unmatched, Blank, Fresh

LEMMA AddNewLink ==
    ASSUME TypeOK, pc = "add", UNCHANGED sonar, NEW r \in todo, AddNew(r),
           NEW d \in Devices, ByImsi(d)
    PROVE  ByImsi(d)' /\ (Titled(d) /\ Later(r.item) => Titled(d)')
<1>1. /\ inv' = inv \cup {File(r.item)} /\ todo' = todo \ {r} /\ UNCHANGED <<pc, mine>>
      /\ \A n \in inv : ~Same(n.item, r.item)
  BY DEF AddNew
<1>2. File(r.item).item = r.item
  BY FileIs
<1>3. \A x : x \in Held' <=> \/ \E n \in inv \cup {File(r.item)} : x = n.item
                             \/ \E q \in todo \ {r} : x = q.item
  BY <1>1 DEF Held, Items
<1>4. \A x \in Held' : x \in Held
  BY <1>2, <1>3, HeldIs
<1>5. ByImsi(d)'
  BY <1>4 DEF ByImsi, ImsiOrMac, Of, Blank, Fresh
<1>6. \A x : x \in Taken' <=> x \in Taken \/ x = r.item
  <2>1. \A x : x \in Taken' <=> \E n \in inv \cup {File(r.item)} : x = n.item
    BY <1>1 DEF Taken, Items
  <2> QED
    BY <1>2, <2>1, TakenIs
<1>7. ASSUME Titled(d), Later(r.item)
      PROVE  Titled(d)'
  <2>1. CASE ~Of(r.item, d)
    <3>1. Pending(d) => Pending(d)'
      BY <1>1, <2>1 DEF Pending, Of
    <3> QED
      BY <1>6, <1>7, <2>1, <3>1, TitledBeside
  <2>2. CASE \E q \in todo : q # r /\ Of(q.item, d) /\ q.item.acct # Absent
    <3>1. Pending(d)'
      BY <1>1, <2>2 DEF Pending, Of
    <3> QED
      BY <3>1 DEF Titled
  <2>3. CASE Of(r.item, d) /\ Fresh(r.item) /\ ~Pending(d)
    <3>1. \A x : Named(x, d) => Named(x, d)'
      BY <1>1, NamedAdding
    <3> QED
      BY <1>6, <1>7, <2>3, <3>1 DEF Titled, Of, Fresh
  <2>4. CASE Of(r.item, d) /\ Unmatched(r.item) /\ r.item.mac = Absent
    <3>1. ASSUME NEW x \in Taken, Of(x, d)
          PROVE  Blank(x)
      <4>1. PICK n \in inv : x = n.item
        BY TakenIs
      <4>2. ASSUME ~Blank(x)
            PROVE  FALSE
        <5>1. ~Blank(r.item)
          BY <2>4 DEF Blank, Fresh, Unmatched
        <5>2. n.item.imsi = d /\ r.item.imsi = d
          BY <2>4, <3>1, <4>1, <4>2, <5>1, HeldIs DEF ByImsi, ImsiOrMac
        <5>3. n.item["imsi"] \notin Missing /\ n.item["imsi"] = r.item["imsi"]
          BY <5>2, DeviceIs
        <5>4. Same(n.item, r.item)
          BY <5>3, SameIs DEF KeyFields, Identifiers
        <5> QED
          BY <1>1, <5>4
      <4> QED
        BY <4>2
    <3> QED
      BY <1>6, <2>4, <3>1, TitledNow
  <2>5. Pending(d) => \/ \E q \in todo : q # r /\ Of(q.item, d) /\ q.item.acct # Absent
                      \/ r.item.acct # Absent
    BY DEF Pending
  <2> QED
    BY <1>7, <2>1, <2>2, <2>3, <2>4, <2>5, LaterIs DEF Fresh
<1> QED
  BY <1>5, <1>7

LEMMA AddToLink ==
    ASSUME IInv, Found, pc = "add", UNCHANGED sonar, NEW r \in todo, NEW n \in inv, AddTo(r, n),
           ~Doomed', NEW d \in Devices, ByImsi(d)
    PROVE  /\ pc' \in {"add", "absorb"} /\ todo' = todo \ {r}
           /\ ByImsi(d)' /\ (Titled(d) /\ Later(r.item) => Titled(d)')
<1>1. TypeOK /\ InvInv /\ EntriesOwn /\ Apart /\ Merging /\ TodoOwn
  BY DEF IInv, InvInv, Merging, Doomed
<1> DEFINE m == Overwrite(n.item, r.item)
           stuck == IF Removable(n) THEN NotFiled ELSE n.filed
<1>2. Same(n.item, r.item) /\ Goes(m, inv \ {n}, stuck) /\ todo' = Became(n.item, m, todo \ {r})
  BY DEF AddTo
<1>3. \A q \in todo : ~q.own
  BY DEF Found
<1>4. Owners(n.item) = Owners(r.item)
  <2>1. ~Dead(r, inv)
    BY <1>3 DEF Dead
  <2> QED
    BY <1>1, <2>1, AddToLive
<1>5. n.item \in ItemType /\ ItemOwn(n.item, sonar) /\ n.item \in Held
  BY <1>1, EntryFacts, HeldIs
<1>6. r.item \in ItemType /\ ItemOwn(r.item, sonar) /\ r.item \in Held
  BY <1>1, <1>2, ResultFacts, HeldIs
<1>7. todo' = todo \ {r}
  BY <1>2, <1>3, NoneOwn
<1>8. /\ Of(m, d) <=> Of(n.item, d)
      /\ Of(m, d) <=> Of(r.item, d)
      /\ ImsiOrMac(m, d)
  BY <1>4, <1>5, <1>6, MergeByImsi DEF ByImsi
<1>9. Named(r.item, d) => Named(m, d)
  BY <1>5, <1>6, MergeNamed
<1>10. r.item.acct # Absent /\ Later(r.item) => Unmatched(m)
  <2>1. \A f \in {"acct", "linked"} : r.item[f] # Absent => m[f] = r.item[f]
    BY <1>5, <1>6, MergedFields DEF Fields, KeyFields
  <2>2. /\ r.item["acct"] # Absent => m["acct"] = r.item["acct"]
        /\ r.item["linked"] # Absent => m["linked"] = r.item["linked"]
    BY <2>1
  <2>3. FALSE # Absent
    BY MissingAssumption DEF Missing
  <2> QED
    BY <2>2, <2>3 DEF Later, Unmatched
<1> HIDE DEF stuck
<1>11. /\ pc' \in {"add", "absorb"}
       /\ \A x : x \in Taken' <=> (\E o \in inv \ {n} : x = o.item) \/ x = m
  BY <1>2, GoesTaken
<1>12. \A x : x \in Held' <=> \/ \E o \in inv \ {n} : x = o.item
                              \/ \E q \in todo \ {r} : x = q.item
                              \/ x = m
  <2>1. \A x : x \in Held' <=> \/ \E o \in inv \ {n} : x = o.item
                               \/ \E q \in todo' : x = q.item
                               \/ x = m
    BY <1>2, GoesHeld
  <2> QED
    BY <1>7, <2>1
<1>13. ByImsi(d)'
  <2>1. ASSUME NEW x \in Held'
        PROVE  ImsiOrMac(x, d)
    <3>1. CASE x \in Held
      BY <3>1 DEF ByImsi
    <3> QED
      BY <1>8, <1>12, <3>1, HeldIs
  <2> QED
    BY <2>1 DEF ByImsi, ImsiOrMac, Of, Blank, Fresh
<1>14. \A x : x \in Taken <=> \E o \in inv : x = o.item
  BY TakenIs
<1>15. ASSUME Titled(d), Later(r.item)
       PROVE  Titled(d)'
  <2>1. CASE ~Of(m, d)
    <3>1. Pending(d) => Pending(d)'
      BY <1>7, <1>8, <2>1 DEF Pending, Of
    <3>2. \A x : Of(x, d) => (x \in Taken' <=> x \in Taken)
      BY <1>8, <1>11, <1>14, <2>1
    <3> QED
      BY <1>15, <3>1, <3>2, TitledBeside
  <2>2. CASE \E q \in todo : q # r /\ Of(q.item, d) /\ q.item.acct # Absent
    <3>1. Pending(d)'
      BY <1>7, <2>2 DEF Pending, Of
    <3> QED
      BY <3>1 DEF Titled
  <2>3. CASE Fresh(r.item) /\ ~Pending(d)
    <3>1. m \in Taken' /\ n.item \in Taken
      BY <1>11, <1>14
    <3>2. \A k \in Taken' : k \in Taken \/ k = m
      BY <1>11, <1>14
    <3>3. \A k \in Taken : k \in Taken' \/ k = n.item
      BY <1>11, <1>14
    <3> QED
      BY <1>5, <1>6, <1>8, <1>15, <2>3, <3>1, <3>2, <3>3, TitledMerged
  <2>4. CASE Of(m, d) /\ Unmatched(r.item) /\ r.item.mac = Absent
    <3>1. ~Blank(n.item)
      BY <1>2, <2>4, NothingInCommon
    <3>2. n.item.imsi = d
      BY <1>5, <1>8, <2>4, <3>1 DEF ByImsi, ImsiOrMac
    <3>3. ASSUME NEW o \in inv \ {n}, Of(o.item, d)
          PROVE  Blank(o.item)
      <4>1. o.item.imsi # d
        BY <1>1, <3>2, OneEntry
      <4> QED
        BY <3>3, <4>1, HeldIs DEF ByImsi, ImsiOrMac
    <3>4. Unmatched(m) /\ m \in Taken'
      BY <1>10, <1>11, <1>15, <2>4 DEF Unmatched
    <3>5. \A x \in Taken' : Of(x, d) => x = m \/ Blank(x)
      BY <1>11, <3>3
    <3> HIDE DEF m
    <3> QED
      BY <2>4, <3>4, <3>5, TitledNow
  <2>5. Pending(d) => \/ \E q \in todo : q # r /\ Of(q.item, d) /\ q.item.acct # Absent
                      \/ r.item.acct # Absent
    BY DEF Pending
  <2> QED
    BY <1>15, <2>1, <2>2, <2>3, <2>4, <2>5, LaterIs DEF Fresh
<1> QED
  BY <1>7, <1>11, <1>13, <1>15

LEMMA AbsorbLink ==
    ASSUME IInv, Found, Absorb, ~Doomed', NEW d \in Devices, ByImsi(d)
    PROVE  /\ pc' \in {"add", "absorb"} /\ todo' = todo
           /\ ByImsi(d)' /\ (Titled(d) => Titled(d)')
<1>1. pc = "absorb" /\ UNCHANGED sonar /\ \E n \in inv : AbsorbFound(n)
  BY DEF Absorb, AbsorbFound
<1>2. PICK n \in inv : AbsorbFound(n)
  BY <1>1
<1>3. Merging /\ Owners(mine.item) = Owners(n.item)
  BY <1>1, <1>2, AbsorbFoundStep
<1>4. TypeOK /\ EntriesOwn
  BY DEF IInv, InvInv
<1>5. /\ n.item \in ItemType /\ ItemOwn(n.item, sonar)
      /\ mine.item \in ItemType /\ ItemOwn(mine.item, sonar)
  BY <1>1, <1>3, <1>4, EntryFacts DEF TypeOK, Merging, MineOwn
<1> DEFINE m == Overwrite(mine.item, n.item)
<1>6. Goes(m, inv \ {n}, mine.stuck) /\ todo' = Became(mine.item, m, todo)
  BY <1>2 DEF AbsorbFound
<1>7. todo' = todo
  BY <1>6, NoneOwn DEF Found
<1>8. /\ Of(m, d) <=> Of(mine.item, d)
      /\ Of(m, d) <=> Of(n.item, d)
      /\ ImsiOrMac(m, d)
  <2>1. mine.item \in Held /\ n.item \in Held
    BY <1>1, HeldIs
  <2> QED
    BY <1>3, <1>5, <2>1, MergeByImsi DEF ByImsi
<1>9. /\ pc' \in {"add", "absorb"}
      /\ \A x : x \in Taken' <=> (\E o \in inv \ {n} : x = o.item) \/ x = m
  BY <1>6, GoesTaken
<1>10. \A x : x \in Held' <=> \/ \E o \in inv \ {n} : x = o.item
                              \/ \E q \in todo : x = q.item
                              \/ x = m
  BY <1>6, <1>7, GoesHeld
<1>11. ByImsi(d)'
  <2>1. ASSUME NEW x \in Held'
        PROVE  ImsiOrMac(x, d)
    <3>1. CASE x \in Held
      BY <3>1 DEF ByImsi
    <3> QED
      BY <1>8, <1>10, <3>1, HeldIs
  <2> QED
    BY <2>1 DEF ByImsi, ImsiOrMac, Of, Blank, Fresh
<1>12. \A x : x \in Taken <=> (\E o \in inv : x = o.item) \/ x = mine.item
  BY <1>1, TakenIs
<1>13. CASE Pending(d)
  <2>1. Pending(d)'
    BY <1>7, <1>13 DEF Pending, Of
  <2> QED
    BY <1>7, <1>9, <1>11, <2>1 DEF Titled
<1>14. CASE ~Pending(d)
  <2>1. m \in Taken' /\ n.item \in Taken /\ mine.item \in Taken
    BY <1>9, <1>12
  <2>2. \A k \in Taken' : k \in Taken \/ k = m
    BY <1>9, <1>12
  <2>3. \A k \in Taken : k \in Taken' \/ k = mine.item \/ k = n.item
    BY <1>9, <1>12
  <2>4. Titled(d) => Titled(d)'
    BY <1>1, <1>5, <1>8, <1>14, <2>1, <2>2, <2>3, TitledMerged
  <2> QED
    BY <1>7, <1>9, <1>11, <2>4
<1> QED
  BY <1>13, <1>14

LEMMA AbsorbItselfLink ==
    ASSUME AbsorbItself, NEW d \in Devices, ByImsi(d)
    PROVE  /\ pc' \in {"add", "absorb"}
           /\ ByImsi(d)' /\ (Titled(d) => Titled(d)')
           /\ \A x : x \in Held' <=> x \in Held
<1>1. /\ pc = "absorb" /\ UNCHANGED <<sonar, todo>>
      /\ Goes(mine.item, inv, NotFiled)
  BY DEF AbsorbItself
<1>2. /\ pc' \in {"add", "absorb"}
      /\ \A x : x \in Taken' <=> (\E o \in inv : x = o.item) \/ x = mine.item
  BY <1>1, GoesTaken
<1>3. \A x : x \in Held' <=> x \in Held
  BY <1>1, GoesHeld, HeldIs
<1>4. ByImsi(d)'
  BY <1>3 DEF ByImsi, ImsiOrMac, Of, Blank, Fresh
<1>5. \A x : x \in Taken' <=> x \in Taken
  BY <1>1, <1>2, TakenIs
<1>6. Pending(d) => Pending(d)'
  BY <1>1 DEF Pending, Of
<1> QED
  BY <1>1, <1>2, <1>3, <1>4, <1>5, <1>6, TitledBeside

\* A process of which a read has failed promises nothing.
LEMMA LinkUnclean ==
    ASSUME NEW d, RecordsByImsi(d)', ~Clean'
    PROVE  LinkInv(d)'
BY DEF LinkInv, Clean, Told

LEMMA RecordsStill ==
    ASSUME UNCHANGED sonar, NEW d
    PROVE  RecordsOf(d)' = RecordsOf(d) /\ (RecordsByImsi(d) => RecordsByImsi(d)')
<1>1. RecordsOf(d)' = RecordsOf(d)
  BY DEF RecordsOf
<1> QED
  BY <1>1 DEF RecordsByImsi

\* Every step of add.
LEMMA LinkAdding ==
    ASSUME NEW d, LinkInv(d), pc \in {"add", "absorb"}, pc' \in {"add", "absorb"},
           UNCHANGED <<sonar, next, done>>,
           Clean => (Doomed \/ ByImsi(d))',
           "base" \in done /\ (Doomed \/ KnownIfRecorded(d)) => (Doomed \/ KnownIfRecorded(d))',
           Told => (Doomed \/ (Titled(d) /\ \A r \in todo : Later(r.item)))'
    PROVE  LinkInv(d)'
<1>1. (Reading' <=> Reading) /\ (Clean' <=> Clean) /\ (Told' <=> Told)
  BY DEF Reading, Clean, Told
<1>2. RecordsByImsi(d)'
  BY RecordsStill DEF LinkInv
<1>3. TakenToMatch(d)'
  BY DEF TakenToMatch
<1> QED
  BY <1>1, <1>2, <1>3 DEF LinkInv

\* A step that leaves the items as they are.
LEMMA LinkRests ==
    ASSUME NEW d, LinkInv(d), UNCHANGED <<sonar, inv, todo, mine>>, pc # "absorb", pc' # "absorb",
           done' = done \/ done' = {}, Clean' => Clean,
           Told => \A x : Named(x, d) => Named(x, d)',
           Told => TakenToMatch(d)'
    PROVE  LinkInv(d)'
<1>1. Held' = Held /\ Taken' = Taken /\ ~Doomed
  BY DEF Held, Taken, Items, Doomed
<1>2. RecordsOf(d)' = RecordsOf(d) /\ RecordsByImsi(d)'
  BY RecordsStill DEF LinkInv
<1>3. ByImsi(d) => ByImsi(d)'
  BY <1>1 DEF ByImsi, ImsiOrMac, Of, Blank, Fresh
<1>4. KnownIfRecorded(d) => KnownIfRecorded(d)'
  BY <1>1, <1>2 DEF KnownIfRecorded, Recorded
<1>5. Told => (Titled(d) => Titled(d)')
  BY <1>1 DEF Titled, Pending, Of, Fresh
<1>6. ("base" \in done' => "base" \in done) /\ (Told' => Told)
  BY DEF Told
<1> QED
  BY <1>1, <1>2, <1>3, <1>4, <1>5, <1>6 DEF LinkInv

LEMMA AddsLink ==
    ASSUME IInv, FoundInv, Adds, NEW d \in Devices, LinkInv(d)
    PROVE  LinkInv(d)'
<1>1. CASE Add
  <2>1. pc = "add" /\ UNCHANGED <<sonar, next, done>> /\ ~Doomed
    BY <1>1 DEF Add, Doomed
  <2>2. PICK r \in todo : AddNothing(r) \/ AddNew(r) \/ \E n \in inv : AddTo(r, n)
    BY <1>1 DEF Add
  <2>3. pc' \in {"add", "absorb"}
    <3>1. CASE AddNothing(r) \/ AddNew(r)
      BY <2>1, <3>1 DEF AddNothing, AddNew
    <3>2. CASE \E n \in inv : AddTo(r, n)
      BY <3>2, GoesIs DEF AddTo
    <3> QED
      BY <2>2, <3>1, <3>2
  <2>4. ASSUME Clean, ~Doomed'
        PROVE  /\ todo' \subseteq todo /\ ByImsi(d)'
               /\ Titled(d) /\ Later(r.item) => Titled(d)'
    <3>1. TypeOK /\ Found /\ ByImsi(d)
      BY <2>1, <2>4 DEF IInv, FoundInv, LinkInv
    <3>2. CASE AddNothing(r)
      <4>1. todo' \subseteq todo
        BY <3>2 DEF AddNothing
      <4> QED
        BY <2>1, <3>1, <3>2, <4>1, AddNothingLink
    <3>3. CASE AddNew(r)
      <4>1. todo' \subseteq todo
        BY <3>3 DEF AddNew
      <4> QED
        BY <2>1, <3>1, <3>3, <4>1, AddNewLink
    <3>4. CASE \E n \in inv : AddTo(r, n)
      BY <2>1, <2>4, <3>1, <3>4, AddToLink
    <3> QED
      BY <2>2, <3>2, <3>3, <3>4
  <2>5. Told => Clean
    BY DEF Told, Clean
  <2>6. Told => (Doomed \/ (Titled(d) /\ \A q \in todo : Later(q.item)))'
    BY <2>1, <2>4, <2>5 DEF LinkInv, Later
  <2>7. KnownIfRecorded(d) => Doomed' \/ KnownIfRecorded(d)'
    BY <1>1, <2>1, AddRecorded, RecordsStill DEF KnownIfRecorded
  <2> QED
    BY <2>1, <2>3, <2>4, <2>6, <2>7, LinkAdding
<1>2. CASE Absorb
  <2>1. pc = "absorb" /\ UNCHANGED <<sonar, next, done>> /\ \E n \in inv : AbsorbFound(n)
    BY <1>2 DEF Absorb, AbsorbFound
  <2>2. PICK n \in inv : AbsorbFound(n)
    BY <2>1
  <2>3. pc' \in {"add", "absorb"}
    BY <2>2, GoesIs DEF AbsorbFound
  <2>4. ASSUME Doomed
        PROVE  Doomed'
    <3>1. mine.stuck # {}
      BY <2>2, <2>4 DEF Doomed, AbsorbFound
    <3> QED
      BY <2>1, <2>2, <3>1, AbsorbFoundStep
  <2>5. ASSUME Clean, ~Doomed'
        PROVE  todo' = todo /\ ByImsi(d)' /\ (Titled(d) => Titled(d)')
    <3>1. Found /\ ByImsi(d)
      BY <2>4, <2>5 DEF FoundInv, LinkInv
    <3> QED
      BY <1>2, <2>5, <3>1, AbsorbLink
  <2>6. Told => Clean
    BY DEF Told, Clean
  <2>7. Told => (Doomed \/ (Titled(d) /\ \A q \in todo : Later(q.item)))'
    BY <2>4, <2>5, <2>6 DEF LinkInv, Later
  <2>8. Doomed \/ KnownIfRecorded(d) => Doomed' \/ KnownIfRecorded(d)'
    BY <1>2, <2>1, <2>4, AbsorbRecorded, RecordsStill DEF KnownIfRecorded
  <2> QED
    BY <2>1, <2>3, <2>5, <2>7, <2>8, LinkAdding
<1>3. CASE AbsorbItself
  <2>1. /\ pc = "absorb" /\ UNCHANGED <<sonar, next, todo, done>>
        /\ mine.stuck # {} /\ mine.stuck = Keys(mine.item)
    BY <1>3 DEF AbsorbItself, NotFiled
  <2>2. ~Doomed
    BY <2>1 DEF Doomed
  <2>3. pc' \in {"add", "absorb"} /\ \A x : x \in Held' <=> x \in Held
    <3>1. Goes(mine.item, inv, NotFiled)
      BY <1>3 DEF AbsorbItself
    <3> QED
      BY <2>1, <3>1, GoesIs, GoesHeld, HeldIs
  <2>4. Clean => ByImsi(d)' /\ (Titled(d) => Titled(d)')
    BY <1>3, <2>2, AbsorbItselfLink DEF LinkInv
  <2>5. Told => Clean
    BY DEF Told, Clean
  <2>6. Told => (Doomed \/ (Titled(d) /\ \A q \in todo : Later(q.item)))'
    BY <2>1, <2>2, <2>4, <2>5 DEF LinkInv, Later
  <2>7. KnownIfRecorded(d) => KnownIfRecorded(d)'
    BY <2>1, <2>3, RecordsStill DEF KnownIfRecorded, Recorded
  <2> QED
    BY <2>1, <2>2, <2>3, <2>4, <2>6, <2>7, LinkAdding
<1>4. CASE AddRaises
  <2>1. UNCHANGED sonar /\ ~Clean'
    BY <1>4 DEF AddRaises, Down, Clean, Reading
  <2> QED
    BY <2>1, RecordsStill, LinkUnclean DEF LinkInv
<1>5. CASE AddedAll
  <2>1. /\ pc = "add" /\ pc' = next /\ UNCHANGED <<sonar, inv, next, todo, mine, tasks, done>>
        /\ next \in {"inventory", "telrad", "baicells", "ready"}
    BY <1>5 DEF AddedAll, IInv, PlaceInv
  <2>2. Clean' => Clean
    BY <2>1 DEF Clean, Reading
  <2>3. \A x : Named(x, d) => Named(x, d)'
    BY <2>1, NamedAdding
  <2>4. TakenToMatch(d)'
    BY <2>1 DEF TakenToMatch
  <2> QED
    BY <2>1, <2>2, <2>3, <2>4, LinkRests
<1> QED
  BY <1>1, <1>2, <1>3, <1>4, <1>5 DEF Adds

\* A read hands its results to add.
LEMMA LinkRead ==
    ASSUME NEW d, LinkInv(d), todo = {}, pc \notin {"absorb", "match"}, pc' = "add",
           UNCHANGED <<sonar, inv, mine>>,
           Clean' => ByImsi(d) /\ \A r \in todo' : ImsiOrMac(r.item, d),
           "base" \in done' => KnownIfRecorded(d) \/ KnownIfRecorded(d)',
           Told' => /\ \A r \in todo' : Later(r.item)
                    /\ Titled(d) \/ Pending(d)'
    PROVE  LinkInv(d)'
<1>1. \A x : x \in Held' <=> (\E n \in inv : x = n.item) \/ (\E r \in todo' : x = r.item)
  BY DEF Held, Items
<1>2. \A x : x \in Held <=> \E n \in inv : x = n.item
  BY HeldIs
<1>3. Clean' => ByImsi(d)'
  <2>1. Clean' => \A x \in Held' : ImsiOrMac(x, d)
    BY <1>1, <1>2 DEF ByImsi
  <2> QED
    BY <2>1 DEF ByImsi, ImsiOrMac, Of, Blank, Fresh
<1>4. RecordsOf(d)' = RecordsOf(d) /\ RecordsByImsi(d)'
  BY RecordsStill DEF LinkInv
<1>5. KnownIfRecorded(d) => KnownIfRecorded(d)'
  BY <1>4, MoreRecorded DEF KnownIfRecorded
<1>6. ASSUME Titled(d), todo = {}
      PROVE  Titled(d)'
  <2>1. Taken' = Taken
    BY DEF Taken, Items
  <2>2. \A x : Named(x, d) => Named(x, d)'
    BY NamedAdding
  <2> QED
    BY <1>6, <2>1, <2>2 DEF Titled, Pending, Of, Fresh
<1>7. Pending(d)' => Titled(d)'
  BY DEF Titled
<1>8. TakenToMatch(d)'
  BY DEF TakenToMatch
<1> QED
  BY <1>3, <1>4, <1>5, <1>6, <1>7, <1>8 DEF LinkInv, Later

\* What is read of a device is of no other customer's.
LEMMA OfDevice ==
    ASSUME NEW d \in Devices, Alone(d), NEW e \in Devices, NEW x,
           \A f \in Identifiers : x[f] \in Missing \cup {e}, Of(x, d)
    PROVE  e = d
<1>1. PICK f \in Identifiers : x[f] \notin Missing /\ Whose(d) = Whose(x[f])
  BY OwnersIs DEF Of
<1> QED
  BY <1>1, AloneIs

LEMMA RecordByImsi ==
    ASSUME TypeOK, NEW d \in Devices, Alone(d), RecordsByImsi(d), NEW id \in DOMAIN sonar, NEW x,
           \A f \in Identifiers : x[f] = IF sonar[id][f] = None THEN Absent ELSE sonar[id][f],
           Of(x, d)
    PROVE  x.imsi = d
<1>1. PICK f \in Identifiers : x[f] \notin Missing /\ Whose(d) = Whose(x[f])
  BY OwnersIs DEF Of
<1>2. sonar[id][f] = x[f] /\ sonar[id][f] \in Devices
  BY <1>1, RecordFacts DEF Missing
<1>3. d \in IdentifiersIn(sonar[id])
  BY <1>1, <1>2, AloneIs, DeviceIs DEF IdentifiersIn, Identifiers
<1>4. sonar[id]["imsi"] = d
  BY <1>3 DEF RecordsByImsi, RecordsOf, RecordsIn
<1>5. x["imsi"] = d
  BY <1>4, DeviceIs DEF Identifiers
<1> QED
  BY <1>5

LEMMA ReadAccountsLink ==
    ASSUME IInv, FoundInv, ReadAccounts, NEW d \in Devices, Alone(d), LinkInv(d)
    PROVE  LinkInv(d)'
<1> DEFINE At(a) == {id \in DOMAIN sonar : sonar[id].acct = a}
           served == {a \in AcctIds : At(a) # {}}
<1>1. PICK first \in [served -> DOMAIN sonar] :
        /\ \A a \in served : first[a] \in At(a)
        /\ Receive({[FromRecord(first[a]) EXCEPT !.linked = TRUE,
                        !.acct = [id |-> a, name |-> Accounts[a]]] : a \in served},
                   {}, "inventory")
  BY DEF ReadAccounts
<1> DEFINE items == {AccountItem(a, first[a]) : a \in served}
<1>2. Receive(items, {}, "inventory")
  BY <1>1 DEF AccountItem
<1>3. TypeOK /\ inv = {} /\ todo = {} /\ pc = "accounts" /\ done = {}
  BY DEF IInv, PlaceInv, ReadAccounts, FoundInv, DoneInv
<1>4. \A a \in served : first[a] \in DOMAIN sonar
  BY <1>1
<1> HIDE DEF served
<1>5. ASSUME NEW i \in items, Of(i, d)
      PROVE  i.imsi = d
  <2>1. PICK a \in served : i = AccountItem(a, first[a])
    OBVIOUS
  <2> DEFINE id == first[a]
  <2>2. id \in DOMAIN sonar /\ i = AccountItem(a, id)
    BY <1>4, <2>1
  <2> HIDE DEF id
  <2>3. \A f \in Identifiers : i[f] = IF sonar[id][f] = None THEN Absent ELSE sonar[id][f]
    BY <2>2 DEF AccountItem, FromRecord, Bare, Identifiers
  <2> QED
    BY <1>3, <1>5, <2>2, <2>3, RecordByImsi DEF LinkInv
<1> HIDE DEF items
<1>6. /\ pc' = "add" /\ UNCHANGED <<sonar, inv, mine, tasks>> /\ done' = {}
      /\ todo' \subseteq Results(items)
  BY <1>2, <1>3 DEF Receive
<1>7. \A r \in todo' : ImsiOrMac(r.item, d)
  BY <1>5, <1>6 DEF Results, ImsiOrMac
<1>8. ByImsi(d)
  BY <1>3 DEF ByImsi, Held, Items
<1>9. "base" \notin done' /\ ~Told'
  BY <1>6 DEF Told
<1> QED
  BY <1>3, <1>6, <1>7, <1>8, <1>9, LinkRead

LEMMA ReadInventoryLink ==
    ASSUME IInv, FoundInv, ReadInventory, NEW d \in Devices, Alone(d), LinkInv(d)
    PROVE  LinkInv(d)'
<1> DEFINE items == {FromRecord(id) : id \in DOMAIN sonar}
<1>1. Receive(items, {"base"}, "ready") /\ pc = "inventory"
  BY DEF ReadInventory
<1>2. TypeOK /\ todo = {} /\ done = {} /\ ByImsi(d)
  BY <1>1 DEF FoundInv, DoneInv, LinkInv, Clean, Reading, Doomed, IInv, PlaceInv
<1>3. /\ pc' = "add" /\ UNCHANGED <<sonar, inv, mine, tasks>> /\ todo' \subseteq Results(items)
      /\ (todo' = Results(items) /\ done' = {"base"}) \/ done' = {}
  BY <1>1, <1>2 DEF Receive
<1>4. "base" \in done' => KnownIfRecorded(d)'
  <2>1. ASSUME "base" \in done', RecordsOf(d) # {}
        PROVE  Recorded(d)'
    BY <1>3, <2>1, InventoryRecorded
  <2> QED
    BY <1>3, <2>1, RecordsStill DEF KnownIfRecorded
<1>5. ASSUME NEW i \in items, Of(i, d)
      PROVE  i.imsi = d
  <2>1. PICK id \in DOMAIN sonar : i = FromRecord(id)
    OBVIOUS
  <2>2. \A f \in Identifiers : i[f] = IF sonar[id][f] = None THEN Absent ELSE sonar[id][f]
    BY <2>1 DEF FromRecord, Bare, Identifiers
  <2> QED
    BY <1>2, <1>5, <2>1, <2>2, RecordByImsi DEF LinkInv
<1> HIDE DEF items
<1>6. \A r \in todo' : ImsiOrMac(r.item, d)
  BY <1>3, <1>5 DEF Results, ImsiOrMac
<1>7. ~Told'
  BY <1>3 DEF Told
<1> QED
  BY <1>1, <1>2, <1>3, <1>4, <1>6, <1>7, LinkRead

\* Of a read that goes on when Sonar's inventory has been read.
LEMMA LaterRead ==
    ASSUME IInv, pc \in {"ready", "telrad", "noted"}, pc' = "add", next' # "inventory",
           UNCHANGED <<sonar, inv, mine>>,
           NEW d \in Devices, Alone(d), LinkInv(d),
           done' = {} \/ "base" \in done,
           "base" \in done' =>
               /\ \A r \in todo' : Later(r.item) /\ ImsiOrMac(r.item, d)
               /\ Told' => Told \/ Pending(d)'
    PROVE  LinkInv(d)'
<1>1. todo = {} /\ ~Doomed
  BY DEF IInv, PlaceInv, Doomed
<1>2. "base" \in done' => ByImsi(d) /\ KnownIfRecorded(d)
  BY <1>1 DEF LinkInv, Clean
<1>3. Told => Titled(d)
  BY <1>1 DEF LinkInv
<1>4. (Clean' => "base" \in done') /\ (Told' => "base" \in done')
  BY DEF Clean, Reading, Told
<1> QED
  BY <1>1, <1>2, <1>3, <1>4, LinkRead

\* Before that it promises nothing.
LEMMA EarlyRead ==
    ASSUME pc' = "add", next' # "inventory", UNCHANGED sonar, NEW d, LinkInv(d),
           "base" \notin done'
    PROVE  LinkInv(d)'
<1>1. ~Clean'
  BY DEF Clean, Reading
<1> QED
  BY <1>1, RecordsStill, LinkUnclean DEF LinkInv

LEMMA SubscriberLater ==
    ASSUME NEW e \in Devices, NEW x,
           x = [Bare EXCEPT !.imei = e, !.imsi = e, !.acct = [id |-> None, name |-> Raemis[e]]]
    PROVE  /\ Later(x) /\ x.acct # Absent /\ Of(x, e)
           /\ \A d \in Devices : Alone(d) => ImsiOrMac(x, d)
<1> DEFINE acct == [id |-> None, name |-> Raemis[e]]
<1>1. acct \in Acct /\ acct.id = None
  BY DevicesAssumption DEF Acct
<1>2. acct # Absent
  BY <1>1, MissingAssumption DEF Missing
<1>3. /\ x["imsi"] = e /\ x["imei"] = e /\ x["mac"] = Absent
      /\ x.acct = acct /\ x.id = Absent /\ x.linked = FALSE
  BY DEF Bare
<1> HIDE DEF acct
<1>4. Whose(e) \in Owners(x)
  BY <1>3, DeviceIs, OwnersIs DEF Identifiers
<1>5. \A f \in Identifiers : x[f] \in Missing \cup {e}
  BY <1>3 DEF Identifiers, Missing
<1>6. \A d \in Devices : Alone(d) /\ Of(x, d) => x.imsi = d
  BY <1>3, <1>5, OfDevice
<1> QED
  BY <1>1, <1>2, <1>3, <1>4, <1>6 DEF Later, Of, ImsiOrMac

LEMMA ReadSubscribersLink ==
    ASSUME IInv, FoundInv, ReadSubscribers, NEW d \in Devices, Alone(d), LinkInv(d)
    PROVE  LinkInv(d)'
<1> DEFINE items == {[Bare EXCEPT !.imei = e, !.imsi = e,
                          !.acct = [id |-> None, name |-> Raemis[e]]] : e \in Devices}
<1>1. Receive(items, {"subscribers"}, "ready") /\ pc = "ready"
  BY DEF ReadSubscribers
<1>2. ASSUME NEW i \in items
      PROVE  Later(i) /\ ImsiOrMac(i, d)
  <2>1. PICK e \in Devices : i = [Bare EXCEPT !.imei = e, !.imsi = e,
                                      !.acct = [id |-> None, name |-> Raemis[e]]]
    OBVIOUS
  <2> QED
    BY <2>1, SubscriberLater
<1>3. \E i \in items : Of(i, d) /\ i.acct # Absent
  <2>1. PICK i : i = [Bare EXCEPT !.imei = d, !.imsi = d,
                          !.acct = [id |-> None, name |-> Raemis[d]]]
    OBVIOUS
  <2>2. Of(i, d) /\ i.acct # Absent
    BY <2>1, SubscriberLater
  <2> QED
    BY <2>1, <2>2
<1> HIDE DEF items
<1>4. /\ pc' = "add" /\ next' = "ready" /\ UNCHANGED <<sonar, inv, mine>>
      /\ todo' \subseteq Results(items)
      /\ done' = {} \/ (done' = done \cup {"subscribers"} /\ todo' = Results(items))
  BY <1>1 DEF Receive
<1>5. \A r \in todo' : Later(r.item) /\ ImsiOrMac(r.item, d)
  <2>1. \A r \in todo' : r.item \in items
    BY <1>4 DEF Results
  <2> QED
    BY <1>2, <2>1
<1>6. todo' = Results(items) => Pending(d)'
  <2>1. PICK i \in items : Of(i, d) /\ i.acct # Absent
    BY <1>3
  <2>2. [item |-> i, own |-> FALSE] \in Results(items) /\ [item |-> i, own |-> FALSE].item = i
    BY DEF Results
  <2> QED
    BY <2>1, <2>2 DEF Pending, Of
<1>7. "base" \in done' => "base" \in done /\ Pending(d)'
  BY <1>4, <1>6
<1>8. CASE "base" \in done'
  BY <1>1, <1>4, <1>5, <1>7, <1>8, LaterRead
<1>9. CASE "base" \notin done'
  BY <1>4, <1>9, EarlyRead
<1> QED
  BY <1>8, <1>9

LEMMA ReadSessionsLink ==
    ASSUME IInv, FoundInv, ReadSessions, NEW d \in Devices, Alone(d), LinkInv(d)
    PROVE  LinkInv(d)'
<1> DEFINE items == {[Bare EXCEPT !.imsi = e, !.ip = e] : e \in Attached}
<1>1. Receive(items, {}, "telrad") /\ pc = "ready"
  BY DEF ReadSessions
<1>2. ASSUME NEW i \in items
      PROVE  Later(i) /\ ImsiOrMac(i, d)
  <2>1. PICK e \in Attached : i = [Bare EXCEPT !.imsi = e, !.ip = e]
    OBVIOUS
  <2>2. /\ i["imsi"] = e /\ i["imei"] = Absent /\ i["mac"] = Absent
        /\ i.acct = Absent /\ i.id = Absent /\ i.linked = FALSE
    BY <2>1 DEF Bare
  <2>3. \A f \in Identifiers : i[f] \in Missing \cup {e}
    BY <2>2 DEF Identifiers, Missing
  <2>4. e \in Devices
    BY DevicesAssumption
  <2>5. Of(i, d) => i.imsi = d
    BY <2>2, <2>3, <2>4, OfDevice
  <2> QED
    BY <2>2, <2>5 DEF Later, ImsiOrMac
<1> HIDE DEF items
<1>3. /\ pc' = "add" /\ next' = "telrad" /\ UNCHANGED <<sonar, inv, mine>>
      /\ todo' \subseteq Results(items)
      /\ done' = {} \/ done' = done
  BY <1>1 DEF Receive
<1>4. \A r \in todo' : Later(r.item) /\ ImsiOrMac(r.item, d)
  <2>1. \A r \in todo' : r.item \in items
    BY <1>3 DEF Results
  <2> QED
    BY <1>2, <2>1
<1>5. Told' => Told
  BY <1>3 DEF Told
<1>6. CASE "base" \in done'
  BY <1>1, <1>3, <1>4, <1>5, <1>6, LaterRead
<1>7. CASE "base" \notin done'
  BY <1>3, <1>7, EarlyRead
<1> QED
  BY <1>6, <1>7

\* A whole read of a device: all of it, only the MAC, or nothing.
LEMMA WholeLater ==
    ASSUME NEW reader \in Readers, NEW e \in Devices, NEW d \in Devices, Alone(d)
    PROVE  Later(Whole(reader, e)) /\ ImsiOrMac(Whole(reader, e), d)
<1> DEFINE x == Whole(reader, e)
<1>0. /\ ReadOf(x, reader, Whose(e))
      /\ \A f \in Identifiers : x[f] = IF f \in Says(reader, e) THEN Said(e, f) ELSE Unread(reader)
  BY WholeIs
<1> HIDE DEF x
<1>1. /\ x.id = Absent /\ x.acct = Absent /\ x.linked = FALSE
      /\ \A f \in Identifiers : x[f] = IF f \in Says(reader, e) THEN Said(e, f) ELSE Unread(reader)
  BY <1>0 DEF ReadOf
<1>2. \A f \in Identifiers : x[f] \in Missing \cup {e}
  BY <1>1, SaidIs, UnreadIs DEF Missing
<1>3. ASSUME Of(x, d)
      PROVE  x.imsi = d \/ Blank(x)
  <2>1. e = d
    BY <1>2, <1>3, OfDevice
  <2>2. CASE Says(reader, e) = Identifiers
    <3>1. x["imsi"] = d
      BY <1>1, <2>1, <2>2, AloneIs DEF Identifiers
    <3> QED
      BY <3>1
  <2>3. CASE reader = "snmp" /\ Says(reader, e) = {"mac"}
    <3>1. x["imei"] = Absent /\ x["imsi"] = Absent
      BY <1>1, <2>3 DEF Identifiers, Unread
    <3> QED
      BY <1>1, <3>1 DEF Blank, Fresh
  <2>4. CASE Says(reader, e) = {}
    <3>1. \A f \in Identifiers : x[f] \in Missing
      BY <1>1, <2>4, UnreadIs DEF Missing
    <3> QED
      BY <1>3, <3>1, OwnersIs DEF Of
  <2> QED
    BY <2>2, <2>3, <2>4 DEF Says
<1> QED
  BY <1>1, <1>3 DEF Later, ImsiOrMac, x

LEMMA ScanLink ==
    ASSUME IInv, pc \in {"telrad", "noted", "ready"}, NEW reader \in Readers, NEW scan, NEW after,
           NEW then, then # "inventory", Scan(reader, scan, after, then),
           scan \cap {"base", "subscribers"} = {},
           NEW d \in Devices, Alone(d), LinkInv(d)
    PROVE  LinkInv(d)'
<1>1. /\ pc' = "add" /\ next' = then /\ UNCHANGED <<sonar, inv, mine, tasks>>
      /\ \/ /\ todo' = Got(reader, Asked(reader))
            /\ done' = IF after \subseteq done THEN done \cup scan ELSE done
         \/ done' = {}
  BY ScanIs
<1>2. ("base" \in done' => "base" \in done) /\ (Told' => Told)
  BY <1>1 DEF Told
<1>3. ASSUME "base" \in done', NEW r \in todo'
      PROVE  Later(r.item) /\ ImsiOrMac(r.item, d)
  <2>1. PICK n \in Asked(reader) : r = [item |-> Whole(reader, n.item.ip), own |-> FALSE]
    BY <1>1, <1>3 DEF Got, Results
  <2>2. n.item.ip \in Devices
    BY AskedIs DEF IInv
  <2> QED
    BY <2>1, <2>2, WholeLater
<1>4. CASE "base" \in done'
  BY <1>1, <1>2, <1>3, <1>4, LaterRead
<1>5. CASE "base" \notin done'
  BY <1>1, <1>5, EarlyRead
<1> QED
  BY <1>4, <1>5

LEMMA ScansLink ==
    ASSUME IInv, ScanTelrads \/ ScanBaicells \/ ScanSnmp, NEW d \in Devices, Alone(d), LinkInv(d)
    PROVE  LinkInv(d)'
<1>1. CASE ScanTelrads
  BY <1>1, ScanLink DEF ScanTelrads, Readers
<1>2. CASE ScanBaicells
  BY <1>2, ScanLink DEF ScanBaicells, Readers
<1>3. CASE ScanSnmp
  BY <1>3, ScanLink DEF ScanSnmp, Readers
<1> QED
  BY <1>1, <1>2, <1>3

\* The model of an item tells nothing of its name.
LEMMA NoteBaicellsLink ==
    ASSUME IInv, NoteBaicells, NEW d \in Devices, LinkInv(d)
    PROVE  LinkInv(d)'
<1>1. /\ pc = "baicells" /\ pc' = "noted" /\ UNCHANGED <<sonar, todo, mine, done>>
      /\ inv' = {Noted(n) : n \in inv}
  BY NoteIs DEF NoteBaicells
<1>2. TypeOK /\ EntriesOwn /\ todo = {} /\ ~Doomed /\ ~Doomed'
  BY <1>1 DEF IInv, InvInv, PlaceInv, Doomed
<1>3. ASSUME NEW n \in inv
      PROVE  LET x == Noted(n).item
             IN /\ (Of(x, d) <=> Of(n.item, d)) /\ (Has(x, "id") <=> Has(n.item, "id"))
                /\ x.id = n.item.id /\ x.acct = n.item.acct /\ x.linked = n.item.linked
                /\ x.imei = n.item.imei /\ x.imsi = n.item.imsi
  <2> DEFINE x == Noted(n).item
  <2>1. Owners(x) = Owners(n.item) /\ (Has(x, "id") <=> Has(n.item, "id"))
    BY <1>2, NotedSame
  <2>2. \A f \in {"id", "acct", "linked", "imei", "imsi"} : x[f] = n.item[f]
    BY <1>2, NotedIs DEF Fields, KeyFields, Identifiers
  <2> HIDE DEF x
  <2>3. /\ x["id"] = n.item["id"] /\ x["acct"] = n.item["acct"]
        /\ x["linked"] = n.item["linked"] /\ x["imei"] = n.item["imei"]
        /\ x["imsi"] = n.item["imsi"]
    BY <2>2
  <2> QED
    BY <2>1, <2>3 DEF Of, x
<1>4. \A x : x \in Held <=> \E n \in inv : x = n.item
  BY <1>1, <1>2, HeldIs
<1>5. \A x : x \in Held' <=> \E n \in inv : x = Noted(n).item
  BY <1>1, <1>2 DEF Held, Items
<1>6. /\ \A x : x \in Taken <=> \E n \in inv : x = n.item
      /\ \A x : x \in Taken' <=> \E n \in inv : x = Noted(n).item
  BY <1>1, TakenIs DEF Taken, Items
<1>7. ByImsi(d) => ByImsi(d)'
  <2>1. ASSUME ByImsi(d), NEW n \in inv
        PROVE  ImsiOrMac(Noted(n).item, d)
    BY <1>3, <1>4, <2>1 DEF ByImsi, ImsiOrMac, Blank, Fresh
  <2>2. ByImsi(d) => \A x \in Held' : ImsiOrMac(x, d)
    BY <1>5, <2>1
  <2> QED
    BY <2>2 DEF ByImsi, ImsiOrMac, Of, Blank, Fresh
<1>8. KnownIfRecorded(d) => KnownIfRecorded(d)'
  <2>1. Recorded(d) => Recorded(d)'
    BY <1>3, <1>4, <1>5 DEF Recorded, Of
  <2> QED
    BY <1>1, <2>1, RecordsStill DEF KnownIfRecorded
<1>9. ASSUME Titled(d)
      PROVE  Titled(d)'
  <2>1. /\ \E n \in inv : Of(n.item, d) /\ Named(n.item, d)
        /\ \A n \in inv : Of(n.item, d) => Named(n.item, d) \/ Fresh(n.item)
    BY <1>2, <1>6, <1>9 DEF Titled, Pending
  <2>2. ASSUME NEW n \in inv, NEW x, x = Noted(n).item
        PROVE  /\ Of(x, d) <=> Of(n.item, d)
               /\ Named(n.item, d) => Named(x, d)'
               /\ Fresh(n.item) => Fresh(x)
    <3>1. /\ Of(x, d) <=> Of(n.item, d)
          /\ x.id = n.item.id /\ x.acct = n.item.acct /\ x.linked = n.item.linked
      BY <1>3, <2>2
    <3>2. pc # "match" /\ pc' # "match" /\ sonar' = sonar
      BY <1>1
    <3> QED
      BY <3>1, <3>2
         DEF Named, Unmatched, Matched, InSonar, Has, Missing, Namesakes, AcctIds, Fresh
  <2>3. \E x \in Taken' : Of(x, d) /\ Named(x, d)'
    <3>1. PICK n \in inv : Of(n.item, d) /\ Named(n.item, d)
      BY <2>1
    <3>2. PICK x : x = Noted(n).item
      OBVIOUS
    <3> QED
      BY <1>6, <2>2, <3>1, <3>2
  <2>4. ASSUME NEW x \in Taken', Of(x, d)
        PROVE  Named(x, d)' \/ Fresh(x)
    <3>1. PICK n \in inv : x = Noted(n).item
      BY <1>6
    <3> QED
      BY <2>1, <2>2, <2>4, <3>1
  <2> QED
    BY <2>3, <2>4 DEF Titled, Of, Fresh
<1>10. /\ TakenToMatch(d)' /\ RecordsByImsi(d)'
       /\ (Clean' <=> Clean) /\ (Told' <=> Told)
  BY <1>1, RecordsStill DEF TakenToMatch, LinkInv, Clean, Reading, Told
<1> QED
  BY <1>1, <1>2, <1>7, <1>8, <1>9, <1>10 DEF LinkInv

\* A step of a script or of a method that writes no record and changes no item.
LEMMA LinkBeside ==
    ASSUME IInv, NEW d, LinkInv(d), UNCHANGED <<sonar, inv, todo, mine>>,
           pc \notin {"add", "absorb"}, pc' \notin {"inventory", "add", "absorb", "match"},
           done' = done \/ done' = {}, pc = "match" => tasks = {}, pc' = "matched" => pc = "match"
    PROVE  LinkInv(d)'
<1>1. Clean' => Clean
  BY DEF Clean, Reading
<1>2. ASSUME NEW x, Named(x, d)
      PROVE  Named(x, d)'
  <2>1. Matched(x, d) => sonar[x.id].acct = x.acct.id
    BY DEF Matched
  <2> QED
    BY <1>2, <2>1 DEF Named, Unmatched, Matched, InSonar, Has, Missing, Namesakes, AcctIds
<1>3. TakenToMatch(d) => TakenToMatch(d)'
  BY DEF TakenToMatch, Items, Of, Has, InSonar, Missing
<1>4. Told => TakenToMatch(d)'
  BY <1>3 DEF LinkInv
<1> QED
  BY <1>1, <1>2, <1>4, LinkRests

\* A task that changes no item.
LEMMA TaskLink ==
    ASSUME IInv, NEW n \in tasks, TaskEnds(n, n.item), pc \in {"create", "match", "link", "update"},
           UNCHANGED done, sonar' \in Seq(Record), DOMAIN sonar' = DOMAIN sonar,
           \A id \in DOMAIN sonar : Owners(sonar'[id]) = Owners(sonar[id]),
           NEW d \in Devices, Alone(d), LinkInv(d), RecordsByImsi(d)',
           \A x \in Items : Matched(x, d) => Matched(x, d)'
    PROVE  LinkInv(d)'
<1>1. /\ UNCHANGED <<inv, pc, next, todo, mine, done>> /\ TypeOK
  BY TaskIsEntry DEF TaskEnds, IInv, InvInv
<1>2. RecordsOf(d)' = RecordsOf(d)
  <2>1. \A id : id \in RecordsOf(d)' <=> id \in RecordsOf(d)
    BY <1>1, RecordsWritten
  <2> QED
    BY <2>1
<1>3. /\ Held' = Held /\ Taken' = Taken /\ Items' = Items /\ Taken = Items /\ ~Doomed
      /\ (Clean' <=> Clean) /\ (Told' <=> Told)
  BY <1>1 DEF Held, Taken, Items, Doomed, Clean, Reading, Told
<1>4. ByImsi(d) => ByImsi(d)'
  BY <1>1, <1>3 DEF ByImsi, ImsiOrMac, Of, Blank, Fresh
<1>5. KnownIfRecorded(d) => KnownIfRecorded(d)'
  BY <1>2, <1>3 DEF KnownIfRecorded, Recorded
<1>6. Titled(d) => Titled(d)'
  <2>1. \A x \in Items : Named(x, d) => Named(x, d)'
    BY DEF Named, Unmatched
  <2> QED
    BY <1>1, <1>3, <2>1 DEF Titled, Pending, Of, Fresh
<1>7. TakenToMatch(d) => TakenToMatch(d)'
  BY <1>1, <1>3 DEF TakenToMatch, Of, Has, InSonar, Missing
<1> QED
  BY <1>1, <1>3, <1>4, <1>5, <1>6, <1>7 DEF LinkInv

\* Of the entries one has a record.
LEMMA RecordsApart ==
    ASSUME Apart, NEW n \in inv, NEW o \in inv, Has(n.item, "id"), n.item.id = o.item.id
    PROVE  n = o
<1>1. <<"id", n.item.id>> \in IdKeys(n.item) /\ <<"id", n.item.id>> \in IdKeys(o.item)
  BY KeyOf DEF IdKeys, Has, KeyFields
<1> QED
  BY <1>1 DEF Apart

LEMMA AssignLink ==
    ASSUME IInv, NEW n \in tasks, Assign(n), NEW d \in Devices, Alone(d), LinkInv(d)
    PROVE  LinkInv(d)'
<1>1. TaskEnds(n, n.item) /\ pc \in {"match", "link"}
  BY DEF Assign
<1>2. UNCHANGED <<inv, pc>> /\ tasks' = tasks \ {n} /\ n \in inv
  BY <1>1, TaskIsEntry DEF TaskEnds, IInv, InvInv
<1>3. CASE Fault /\ done' = {} /\ UNCHANGED sonar
  <2>1. ~Clean'
    BY <1>1, <1>2, <1>3 DEF Clean, Reading
  <2> QED
    BY <1>3, <2>1, RecordsStill, LinkUnclean DEF LinkInv
<1>4. CASE /\ sonar' = [sonar EXCEPT ![n.item.id].acct = n.item.acct.id]
           /\ Fine /\ UNCHANGED done
  <2>1. /\ sonar' \in Seq(Record) /\ DOMAIN sonar' = DOMAIN sonar
        /\ \A id \in DOMAIN sonar : Owners(sonar'[id]) = Owners(sonar[id])
    BY <1>4, AssignWrites
  <2>2. /\ TypeOK /\ Has(n.item, "id") /\ n.item \in ItemType /\ EntriesOwn /\ Apart
    BY <1>1, TaskFacts DEF IInv, TaskInv, InvInv
  <2>3. \A id \in DOMAIN sonar : /\ sonar[id] \in Record
                                 /\ sonar'[id].imsi = sonar[id].imsi
                                 /\ id # n.item.id => sonar'[id] = sonar[id]
                                 /\ id = n.item.id => sonar'[id].acct = n.item.acct.id
    <3>1. \A id \in DOMAIN sonar : sonar[id] \in Record
      BY <2>2 DEF TypeOK
    <3> QED
      BY <1>4, <3>1 DEF Record
  <2>4. RecordsByImsi(d)'
    <3>1. \A id : id \in RecordsOf(d)' <=> id \in RecordsOf(d)
      BY <2>1, <2>2, RecordsWritten
    <3>2. RecordsOf(d) \subseteq DOMAIN sonar
      BY DEF RecordsOf, RecordsIn
    <3> QED
      BY <2>3, <3>1, <3>2 DEF LinkInv, RecordsByImsi
  <2>5. ASSUME NEW x \in Items, Matched(x, d)
        PROVE  Matched(x, d)'
    <3>1. PICK o \in inv : x = o.item
      BY DEF Items
    <3>2. InSonar(x) /\ Has(x, "id") /\ x.acct.id \in Namesakes(d) /\ x.id \in DOMAIN sonar
      <4>1. x \in ItemType
        BY <2>2, <3>1, EntryFacts
      <4> QED
        BY <2>5, <4>1 DEF Matched, Has, ItemType, Optional
    <3>3. sonar'[x.id].acct = x.acct.id \/ (pc' = "match" /\ \E p \in tasks' : p.item = x)
      <4>1. CASE x.id = n.item.id
        <5>1. o = n
          BY <1>2, <2>2, <3>1, <3>2, <4>1, RecordsApart
        <5> QED
          BY <2>3, <3>1, <3>2, <4>1, <5>1
      <4>2. CASE x.id # n.item.id /\ sonar[x.id].acct = x.acct.id
        BY <2>3, <3>2, <4>2
      <4>3. CASE x.id # n.item.id /\ sonar[x.id].acct # x.acct.id
        <5>1. pc = "match" /\ \E p \in tasks : p.item = x
          BY <2>5, <4>3 DEF Matched
        <5> QED
          BY <1>2, <4>3, <5>1
      <4> QED
        BY <4>1, <4>2, <4>3
    <3> QED
      BY <3>2, <3>3 DEF Matched, InSonar, Has, Missing, Namesakes, AcctIds
  <2> QED
    BY <1>1, <1>4, <2>1, <2>4, <2>5, TaskLink
<1> QED
  BY <1>3, <1>4 DEF Assign

LEMMA UpdateItemLink ==
    ASSUME IInv, NEW n \in tasks, UpdateItem(n), NEW d \in Devices, Alone(d), LinkInv(d)
    PROVE  LinkInv(d)'
<1>1. TaskEnds(n, n.item) /\ pc = "update"
  BY DEF UpdateItem
<1>2. UNCHANGED <<inv, pc>> /\ tasks' = tasks \ {n} /\ n \in inv
  BY <1>1, TaskIsEntry DEF TaskEnds, IInv, InvInv
<1> DEFINE New(f) == IF Has(n.item, f) THEN n.item[f] ELSE sonar[n.item.id][f]
           r == [sonar[n.item.id] EXCEPT !.mac = New("mac"), !.imei = New("imei"),
                                         !.imsi = New("imsi")]
<1>3. CASE Fault /\ done' = {} /\ UNCHANGED sonar
  <2>1. ~Clean'
    BY <1>1, <1>2, <1>3 DEF Clean, Reading
  <2> QED
    BY <1>3, <2>1, RecordsStill, LinkUnclean DEF LinkInv
<1>4. CASE sonar' = [sonar EXCEPT ![n.item.id] = r] /\ Fine /\ UNCHANGED done
  <2>1. /\ sonar' \in Seq(Record) /\ DOMAIN sonar' = DOMAIN sonar
        /\ \A id \in DOMAIN sonar : Owners(sonar'[id]) = Owners(sonar[id])
    BY <1>4, UpdateItemWrites
  <2>2. /\ TypeOK /\ Has(n.item, "id") /\ n.item \in ItemType /\ ItemOwn(n.item, sonar)
    BY <1>1, TaskFacts DEF IInv, TaskInv
  <2>3. n.item.id \in DOMAIN sonar
    BY <2>2 DEF Has, ItemType, Optional
  <2>4. r.acct = sonar[n.item.id].acct /\ r.imsi = New("imsi")
    <3>1. sonar[n.item.id] \in Record
      BY <2>2, <2>3 DEF TypeOK
    <3> HIDE DEF New
    <3> QED
      BY <3>1 DEF Record
  <2> HIDE DEF r
  <2>5. \A id \in DOMAIN sonar : /\ sonar'[id].acct = sonar[id].acct
                                 /\ id # n.item.id => sonar'[id] = sonar[id]
                                 /\ id = n.item.id => sonar'[id].imsi = New("imsi")
    BY <1>4, <2>3, <2>4
  <2> HIDE DEF New
  <2>6. RecordsByImsi(d)'
    <3>1. \A id : id \in RecordsOf(d)' <=> id \in RecordsOf(d)
      BY <2>1, <2>2, RecordsWritten
    <3>2. \A id \in RecordsOf(d) : id \in DOMAIN sonar /\ Whose(d) \in Owners(sonar[id])
      BY <2>2, RecordsByOwner DEF RecordsOf, TypeOK
    <3>3. \A id \in RecordsOf(d) : sonar[id].imsi = d
      BY DEF LinkInv, RecordsByImsi
    <3>4. ASSUME n.item.id \in RecordsOf(d)
          PROVE  New("imsi") = d
      <4>1. Of(n.item, d) /\ OneCustomer(n.item)
        BY <2>2, <3>2, <3>4 DEF ItemOwn, Of
      <4>2. ASSUME Has(n.item, "imsi")
            PROVE  n.item["imsi"] = d
        <5>1. n.item["imsi"] \in Devices /\ "imsi" \in Identifiers
          BY <2>2, <4>2 DEF Has, ItemType, Optional, Identifiers
        <5> QED
          BY <4>1, <5>1, OnlyItsDevice
      <4>3. sonar[n.item.id]["imsi"] = d
        BY <3>3, <3>4
      <4> QED
        BY <4>2, <4>3 DEF New
    <3>5. \A id \in RecordsOf(d) : sonar'[id].imsi = d
      BY <2>5, <3>2, <3>3, <3>4
    <3> QED
      BY <3>1, <3>5 DEF RecordsByImsi
  <2>7. ASSUME NEW x \in Items, Matched(x, d)
        PROVE  Matched(x, d)'
    <3>1. x \in ItemType
      BY <2>2 DEF Items, TypeOK
    <3>2. InSonar(x) /\ Has(x, "id") /\ x.acct.id \in Namesakes(d) /\ x.id \in DOMAIN sonar
      BY <2>7, <3>1 DEF Matched, Has, ItemType, Optional
    <3>3. sonar'[x.id].acct = x.acct.id
      BY <1>1, <2>5, <2>7, <3>2 DEF Matched
    <3> QED
      BY <3>2, <3>3 DEF Matched, InSonar, Has, Missing, Namesakes, AcctIds
  <2> QED
    BY <1>1, <1>4, <2>1, <2>6, <2>7, TaskLink
<1> QED
  BY <1>3, <1>4 DEF UpdateItem

\* The record create_item makes has the IMSI of the item.
LEMMA CreatedByImsi ==
    ASSUME TypeOK, RecordsOwn, NEW x \in ItemType, ItemOwn(x, sonar), Creatable(x),
           sonar' = Append(sonar, NewRecord(x)), NEW d \in Devices, Alone(d), RecordsByImsi(d)
    PROVE  RecordsByImsi(d)'
<1> DEFINE k == Len(sonar) + 1
<1>1. /\ sonar' \in Seq(Record) /\ DOMAIN sonar \subseteq DOMAIN sonar' /\ k \notin DOMAIN sonar
      /\ \A id \in DOMAIN sonar : Owners(sonar'[id]) = Owners(sonar[id])
      /\ Owners(sonar'[k]) = Owners(x)
  BY Appended
<1>2. /\ DOMAIN sonar' \ DOMAIN sonar \subseteq {k} /\ sonar'[k] = NewRecord(x)
      /\ \A id \in DOMAIN sonar : sonar'[id] = sonar[id]
  BY DEF TypeOK
<1> HIDE DEF k
<1>3. \A id : id \in RecordsOf(d)' <=>
          id \in RecordsOf(d)
          \/ (id \in DOMAIN sonar' \ DOMAIN sonar /\ Whose(d) \in Owners(sonar'[id]))
  BY <1>1, RecordsWritten
<1>4. \A id \in RecordsOf(d) : id \in DOMAIN sonar
  BY DEF RecordsOf, RecordsIn
<1>5. ASSUME Of(x, d)
      PROVE  sonar'[k].imsi = d
  <2>1. x["imsi"] \notin Missing /\ x["imsi"] \in Devices \cup Missing /\ "imsi" \in Identifiers
    <3>1. "imsi" \in Identifiers /\ x["imsi"] \in Devices \cup Missing
      BY DEF ItemType, Optional, Identifiers
    <3>2. x["imsi"] \notin {Absent, None}
      BY DEF Creatable
    <3>3. x["imsi"] # Empty
      BY <1>5, <3>1, NothingEmpty DEF Of
    <3> QED
      BY <3>1, <3>2, <3>3 DEF Missing
  <2>2. x["imsi"] = d
    BY <1>5, <2>1, OnlyItsDevice DEF ItemOwn
  <2> QED
    BY <1>2, <2>1, <2>2 DEF NewRecord, Field
<1>6. ASSUME NEW id \in RecordsOf(d)'
      PROVE  sonar'[id].imsi = d
  <2>1. CASE id \in RecordsOf(d)
    BY <1>2, <1>4, <2>1 DEF RecordsByImsi
  <2>2. CASE id \in DOMAIN sonar' \ DOMAIN sonar /\ Whose(d) \in Owners(sonar'[id])
    BY <1>1, <1>2, <1>5, <2>2 DEF Of
  <2> QED
    BY <1>3, <1>6, <2>1, <2>2
<1> QED
  BY <1>6 DEF RecordsByImsi

LEMMA CreateItemFailsLink ==
    ASSUME IInv, NEW n \in tasks, CreateItemFails(n), NEW d \in Devices, Alone(d), LinkInv(d)
    PROVE  LinkInv(d)'
<1>1. /\ pc = "create" /\ UNCHANGED pc /\ done' = {}
      /\ sonar' = sonar \/ sonar' = Append(sonar, NewRecord(n.item))
  BY DEF CreateItemFails, TaskEnds
<1>2. /\ TypeOK /\ RecordsOwn /\ n.item \in ItemType /\ ItemOwn(n.item, sonar)
      /\ Creatable(n.item)
  BY <1>1, TaskFacts DEF IInv, TaskInv
<1>3. RecordsByImsi(d)'
  BY <1>1, <1>2, CreatedByImsi, RecordsStill DEF LinkInv
<1>4. ~Clean'
  BY <1>1 DEF Clean, Reading
<1> QED
  BY <1>3, <1>4, LinkUnclean

LEMMA CreateItemLink ==
    ASSUME IInv, NEW n \in tasks, CreateItem(n), NEW d \in Devices, Alone(d), LinkInv(d)
    PROVE  LinkInv(d)'
<1>0. PICK k : k = Len(sonar) + 1
  OBVIOUS
<1> DEFINE i == [n.item EXCEPT !.id = k]
           e == [n EXCEPT !.item = i]
<1>1. /\ pc = "create" /\ UNCHANGED <<pc, next, todo, mine, done>>
      /\ inv' = (inv \ {n}) \cup {e} /\ sonar' = Append(sonar, NewRecord(n.item))
  BY <1>0 DEF CreateItem, TaskEnds
<1>2. /\ TypeOK /\ RecordsOwn /\ n.item \in ItemType /\ ItemOwn(n.item, sonar)
      /\ Creatable(n.item) /\ todo = {}
      /\ n \in inv /\ n = [item |-> n.item, filed |-> n.filed]
  BY <1>1, TaskFacts DEF IInv, InvInv, EntriesOwn, TaskInv, PlaceInv, TypeOK
<1>3. /\ sonar' \in Seq(Record) /\ DOMAIN sonar \subseteq DOMAIN sonar' /\ k \notin Missing
      /\ \A id \in DOMAIN sonar : Owners(sonar'[id]) = Owners(sonar[id])
      /\ Owners(sonar'[k]) = Owners(n.item)
  BY <1>0, <1>1, <1>2, Appended
<1>4. /\ DOMAIN sonar' \ DOMAIN sonar \subseteq {k}
      /\ \A id \in DOMAIN sonar : sonar'[id] = sonar[id]
  BY <1>0, <1>1, <1>2 DEF TypeOK
<1>5. /\ e.item = i /\ i.id = k
      /\ \A f \in Identifiers \cup {"acct", "linked"} : i[f] = n.item[f]
  BY <1>2 DEF ItemType, Identifiers
<1> HIDE DEF e, i
<1>6. /\ Owners(e.item) = Owners(n.item) /\ Has(e.item, "id")
      /\ e.item.imsi = n.item.imsi
      /\ Unmatched(n.item) => Unmatched(e.item)
  <2>1. Owners(e.item) = Owners(n.item)
    BY <1>5, SameFieldsOwners
  <2>2. /\ e.item["imsi"] = n.item["imsi"] /\ e.item["acct"] = n.item["acct"]
        /\ e.item["linked"] = n.item["linked"]
    BY <1>5 DEF Identifiers
  <2> QED
    BY <1>3, <1>5, <2>1, <2>2 DEF Has, Unmatched
<1>7. RecordsByImsi(d)'
  BY <1>1, <1>2, CreatedByImsi DEF LinkInv
<1>8. /\ (Clean' <=> Clean) /\ (Told' <=> Told) /\ ~Doomed
  BY <1>1 DEF Clean, Reading, Told, Doomed
<1>9. \A x : x \in Held <=> \E o \in inv : x = o.item
  BY <1>1, <1>2, HeldIs
<1>10. \A x : x \in Held' <=> \E o \in (inv \ {n}) \cup {e} : x = o.item
  BY <1>1, <1>2 DEF Held, Items
<1>15. ~Blank(n.item)
  BY <1>2 DEF Creatable, Blank
<1>11. ByImsi(d) => ByImsi(d)'
  <2>1. ASSUME ByImsi(d), NEW x \in Held'
        PROVE  ImsiOrMac(x, d)
    <3>1. CASE x = e.item
      <4>1. n.item \in Held
        BY <1>2, <1>9
      <4> QED
        BY <1>6, <1>15, <2>1, <3>1, <4>1 DEF ByImsi, ImsiOrMac, Of
    <3>2. CASE x \in Held
      BY <2>1, <3>2 DEF ByImsi
    <3> QED
      BY <1>9, <1>10, <3>1, <3>2
  <2> QED
    BY <2>1 DEF ByImsi, ImsiOrMac, Of, Blank, Fresh
<1>12. KnownIfRecorded(d) => KnownIfRecorded(d)'
  <2>1. CASE Of(n.item, d)
    BY <1>6, <1>10, <2>1 DEF KnownIfRecorded, Recorded, Of
  <2>2. CASE ~Of(n.item, d)
    <3>1. \A id : id \in RecordsOf(d)' <=>
              id \in RecordsOf(d)
              \/ (id \in DOMAIN sonar' \ DOMAIN sonar /\ Whose(d) \in Owners(sonar'[id]))
      BY <1>2, <1>3, RecordsWritten
    <3>2. RecordsOf(d)' = RecordsOf(d)
      BY <1>3, <1>4, <2>2, <3>1 DEF Of
    <3>3. Recorded(d) => Recorded(d)'
      BY <1>9, <1>10, <2>2 DEF Recorded, Of
    <3> QED
      BY <3>2, <3>3 DEF KnownIfRecorded
  <2> QED
    BY <2>1, <2>2
<1>13. ByImsi(d) /\ Titled(d) => Titled(d)'
  <2>1. \A x : x \in Taken <=> \E o \in inv : x = o.item
    BY <1>1, TakenIs
  <2>2. \A x : x \in Taken' <=> \E o \in (inv \ {n}) \cup {e} : x = o.item
    BY <1>1 DEF Taken, Items
  <2>3. ASSUME NEW o \in inv, Named(o.item, d)
        PROVE  Named(o.item, d)'
    <3>1. CASE Unmatched(o.item)
      BY <3>1 DEF Named, Unmatched
    <3>2. CASE Matched(o.item, d)
      <4>1. o.item \in ItemType
        BY <1>2 DEF TypeOK
      <4>2. o.item.id \in DOMAIN sonar
        BY <3>2, <4>1 DEF Matched, Has, ItemType, Optional
      <4>3. sonar'[o.item.id].acct = o.item.acct.id
        BY <1>1, <1>4, <3>2, <4>2 DEF Matched
      <4> QED
        BY <3>2, <4>3 DEF Named, Matched, InSonar, Has, Missing, Namesakes, AcctIds
    <3> QED
      BY <2>3, <3>1, <3>2 DEF Named
  <2>4. ~Matched(n.item, d)
    BY <1>2 DEF Matched, Creatable
  <2>5. ASSUME ByImsi(d), Titled(d)
        PROVE  Titled(d)'
    <3>1. /\ \E x \in Taken : Of(x, d) /\ Named(x, d)
          /\ \A x \in Taken : Of(x, d) => Named(x, d) \/ Fresh(x)
      BY <1>2, <2>5 DEF Titled, Pending
    <3>2. ASSUME Of(n.item, d)
          PROVE  Unmatched(n.item)
      <4>1. PICK o \in inv : Of(o.item, d) /\ Named(o.item, d)
        BY <2>1, <3>1
      <4>2. ~Fresh(o.item)
        BY <4>1 DEF Named, Unmatched, Matched, InSonar, Has, Missing, Fresh
      <4>3. o.item.imsi = d /\ n.item.imsi = d
        BY <1>2, <1>9, <1>15, <2>5, <3>2, <4>1, <4>2 DEF ByImsi, ImsiOrMac, Blank
      <4>4. o = n
        BY <1>2, <4>3, OneEntry DEF IInv, InvInv
      <4> QED
        BY <2>4, <4>1, <4>4 DEF Named
    <3>3. Of(e.item, d) => Named(e.item, d)'
      BY <1>6, <3>2 DEF Of, Named, Unmatched
    <3>4. \E x \in Taken' : Of(x, d) /\ Named(x, d)'
      <4>1. PICK o \in inv : Of(o.item, d) /\ Named(o.item, d)
        BY <2>1, <3>1
      <4>2. CASE o = n
        BY <1>6, <2>2, <3>3, <4>1, <4>2 DEF Of
      <4>3. CASE o # n
        BY <2>2, <2>3, <4>1, <4>3
      <4> QED
        BY <4>2, <4>3
    <3>5. \A x \in Taken' : Of(x, d) => Named(x, d)' \/ Fresh(x)
      BY <2>1, <2>2, <2>3, <3>1, <3>3
    <3> QED
      BY <3>4, <3>5 DEF Titled, Of, Fresh
  <2> QED
    BY <2>5
<1>14. TakenToMatch(d)'
  BY <1>1 DEF TakenToMatch
<1> QED
  BY <1>1, <1>2, <1>7, <1>8, <1>11, <1>12, <1>13, <1>14 DEF LinkInv, Clean, Told

\* The first account found is the device's when it is so by name.
LEMMA NamesakeIsFirst ==
    ASSUME NEW d, FirstIsNamesake(d), NEW x, x.acct.name = Raemis[d]
    PROVE  Candidates(x, AcctIds) # {} /\ Accounts[First(x, AcctIds)] = x.acct.name
<1>1. Candidates(x, AcctIds) = {a \in AcctIds : <<Accounts[a], Raemis[d]>> \in Contains}
  BY DEF Candidates
<1>2. PICK a \in Candidates(x, AcctIds) \cap Namesakes(d) : \A b \in Candidates(x, AcctIds) : a <= b
  BY <1>1 DEF FirstIsNamesake
<1>3. First(x, AcctIds) \in Candidates(x, AcctIds) /\ \A b \in Candidates(x, AcctIds) : First(x, AcctIds) <= b
  BY <1>2 DEF First
<1>4. Candidates(x, AcctIds) \subseteq Nat
  BY AccountsAssumption DEF Candidates, AcctIds
<1>5. First(x, AcctIds) = a
  BY <1>2, <1>3, <1>4
<1> QED
  BY <1>2, <1>5 DEF Namesakes

LEMMA MatchNamesLink ==
    ASSUME IInv, MatchNames, NEW d \in Devices, Alone(d), FirstIsNamesake(d), LinkInv(d)
    PROVE  LinkInv(d)'
<1>0. PICK seen \in SUBSET AcctIds :
        /\ GetAccounts(seen)
        /\ LET chosen == {n \in inv : Linkable(n.item, seen)}
               linked == {Link(n, seen) : n \in chosen}
           IN Gather(linked, "match") /\ inv' = (inv \ chosen) \cup linked
  BY DEF MatchNames
<1> DEFINE chosen == {n \in inv : Linkable(n.item, seen)}
<1>1. /\ inv' = (inv \ chosen) \cup {Link(n, seen) : n \in chosen}
      /\ tasks' = {Link(n, seen) : n \in chosen}
      /\ pc = "ready" /\ pc' = "match" /\ UNCHANGED <<sonar, todo, mine>>
      /\ (seen = AcctIds /\ UNCHANGED done) \/ done' = {}
  BY <1>0 DEF Gather, GetAccounts
<1>18. CASE done' = {}
  <2>1. ~Clean'
    BY <1>1, <1>18 DEF Clean, Reading
  <2> QED
    BY <1>1, <2>1, RecordsStill, LinkUnclean DEF LinkInv
<1> SUFFICES ASSUME seen = AcctIds, UNCHANGED done
             PROVE  LinkInv(d)'
  BY <1>1, <1>18
<1>2. TypeOK /\ EntriesOwn /\ todo = {} /\ ~Doomed /\ ~Doomed'
  BY <1>1 DEF IInv, InvInv, PlaceInv, Doomed
<1>3. ASSUME NEW n \in chosen
      PROVE  LET i == Link(n, seen).item
             IN /\ Owners(i) = Owners(n.item) /\ i.imsi = n.item.imsi
                /\ Has(i, "id") /\ InSonar(i)
                /\ Of(i, d) => Accounts[i.acct.id] = Raemis[d] /\ i.acct.id \in AcctIds
  <2>1. /\ n = [item |-> n.item, filed |-> n.filed]
        /\ n.item \in ItemType /\ ItemOwn(n.item, sonar)
        /\ Removable(n) \/ Stale(n)
    BY <1>2 DEF EntriesOwn, TypeOK
  <2> DEFINE i == Link(n, seen).item
  <2>2. /\ i \in ItemType /\ ItemOwn(i, sonar) /\ Has(i, "id") /\ InSonar(i)
        /\ \E o \in Owners(i) : Accounts[i.acct.id] \in o
        /\ \A f \in {"id"} \cup Identifiers : i[f] = n.item[f]
    BY <2>1, ItemLinked
  <2> HIDE DEF i
  <2>3. Owners(i) = Owners(n.item) /\ i["imsi"] = n.item["imsi"]
    BY <2>2, SameFieldsOwners DEF Identifiers
  <2>4. ASSUME Of(i, d)
        PROVE  Accounts[i.acct.id] = Raemis[d] /\ i.acct.id \in AcctIds
    <3>1. i.acct \in Acct /\ i.acct.id # None
      BY <2>2 DEF InSonar, Has, ItemType, Missing
    <3>2. \A c, b \in Owners(i) : c = b
      BY <2>2, OwnersIs DEF ItemOwn
    <3>3. Accounts[i.acct.id] \in Whose(d)
      BY <2>2, <2>4, <3>2 DEF Of
    <3> QED
      BY <3>1, <3>3, AloneName DEF Acct
  <2> QED
    BY <2>2, <2>3, <2>4 DEF i
<1>4. \A n \in inv \ chosen : ~Linkable(n.item, seen)
  OBVIOUS
<1>5. chosen \subseteq inv
  OBVIOUS
<1> HIDE DEF chosen
<1>6. \A x : x \in Held <=> \E n \in inv : x = n.item
  BY <1>1, <1>2, HeldIs
<1>7. \A x : x \in Held' <=> \E o \in (inv \ chosen) \cup {Link(n, seen) : n \in chosen} : x = o.item
  BY <1>1, <1>2 DEF Held, Items
<1>8. ByImsi(d) => ByImsi(d)'
  <2>1. ASSUME ByImsi(d), NEW x \in Held'
        PROVE  ImsiOrMac(x, d)
    <3>1. CASE x \in Held
      BY <2>1, <3>1 DEF ByImsi
    <3>2. CASE \E n \in chosen : x = Link(n, seen).item
      <4>1. PICK n \in chosen : x = Link(n, seen).item
        BY <3>2
      <4>2. n.item \in Held /\ (Of(x, d) => Of(n.item, d)) /\ x.imsi = n.item.imsi
        BY <1>3, <1>5, <1>6, <4>1 DEF Of
      <4>3. Has(n.item, "id")
        BY <4>1 DEF Linkable, Nameless, chosen
      <4>4. ~Blank(n.item)
        BY <4>3 DEF Blank, Fresh, Has, Missing
      <4> QED
        BY <2>1, <4>2, <4>4 DEF ByImsi, ImsiOrMac
    <3> QED
      BY <1>6, <1>7, <3>1, <3>2
  <2> QED
    BY <2>1 DEF ByImsi, ImsiOrMac, Of, Blank, Fresh
<1>9. KnownIfRecorded(d) => KnownIfRecorded(d)'
  BY <1>1, MatchNamesRecorded, RecordsStill DEF KnownIfRecorded
<1>10. \A x : x \in Taken <=> \E n \in inv : x = n.item
  BY <1>1, TakenIs
<1>11. \A x : x \in Taken' <=> \E o \in (inv \ chosen) \cup {Link(n, seen) : n \in chosen} : x = o.item
  BY <1>1 DEF Taken, Items
<1>12. ASSUME NEW n \in chosen, Of(Link(n, seen).item, d)
       PROVE  Named(Link(n, seen).item, d)'
  <2>1. Link(n, seen) \in tasks' /\ Link(n, seen).item.acct.id \in Namesakes(d)
    BY <1>1, <1>3, <1>12 DEF Namesakes
  <2> QED
    BY <1>1, <1>3, <2>1 DEF Named, Matched, InSonar, Has, Missing, Namesakes, AcctIds
<1>13. ASSUME NEW x, Named(x, d)
       PROVE  Named(x, d)'
  BY <1>1, <1>13, NamedAdding
<1>14. Titled(d) => Titled(d)'
  <2>1. ASSUME Titled(d)
        PROVE  Titled(d)'
    <3>1. /\ \E x \in Taken : Of(x, d) /\ Named(x, d)
          /\ \A x \in Taken : Of(x, d) => Named(x, d) \/ Fresh(x)
      BY <1>2, <2>1 DEF Titled, Pending
    <3>2. \E x \in Taken' : Of(x, d) /\ Named(x, d)'
      <4>1. PICK n \in inv : Of(n.item, d) /\ Named(n.item, d)
        BY <1>10, <3>1
      <4>2. CASE n \in chosen
        BY <1>3, <1>11, <1>12, <4>1, <4>2 DEF Of
      <4>3. CASE n \notin chosen
        BY <1>11, <1>13, <4>1, <4>3
      <4> QED
        BY <4>2, <4>3
    <3>3. ASSUME NEW x \in Taken', Of(x, d)
          PROVE  Named(x, d)' \/ Fresh(x)
      <4>1. CASE \E n \in chosen : x = Link(n, seen).item
        BY <1>12, <3>3, <4>1
      <4>2. CASE \E n \in inv \ chosen : x = n.item
        BY <1>10, <1>13, <3>1, <3>3, <4>2
      <4> QED
        BY <1>11, <4>1, <4>2
    <3> QED
      BY <3>2, <3>3 DEF Titled, Of, Fresh
  <2> QED
    BY <2>1
<1>15. ASSUME Told, NEW n \in inv \ chosen, Of(n.item, d), Has(n.item, "id")
       PROVE  InSonar(n.item)
  <2>1. Unmatched(n.item) \/ Matched(n.item, d)
    <3>1. Named(n.item, d) \/ Fresh(n.item)
      BY <1>2, <1>10, <1>15 DEF LinkInv, Titled, Pending
    <3>2. ~Fresh(n.item)
      BY <1>15 DEF Fresh, Has, Missing
    <3> QED
      BY <3>1, <3>2 DEF Named
  <2>2. n.item \in ItemType /\ ItemOwn(n.item, sonar)
    BY <1>2, EntryFacts
  <2>3. ASSUME Unmatched(n.item)
        PROVE  FALSE
    <3>1. n.item.acct \in Acct /\ n.item.acct.id = None
      BY <2>2, <2>3 DEF Unmatched, ItemType
    <3>2. Has(n.item, "acct")
      BY <3>1, MissingAssumption DEF Has
    <3>3. n.item.acct.name = Raemis[d]
      <4>1. Group(n.item.acct.name) = Whose(d)
        BY <1>15, <2>2, <3>1, <3>2 DEF ItemOwn, Of
      <4>2. n.item.acct.name \in Group(n.item.acct.name)
        BY DEF Group
      <4> QED
        BY <4>1, <4>2, AloneName
    <3>4. ~Nameless(n.item)
      BY <1>15, <2>3, <3>1, <3>2 DEF Nameless, Unmatched
    <3>5. Linkable(n.item, seen)
      BY <3>3, <3>4, NamesakeIsFirst DEF Linkable
    <3> QED
      BY <1>4, <3>5
  <2> QED
    BY <2>1, <2>3 DEF Matched
<1>16. Told => TakenToMatch(d)'
  <2>1. ASSUME Told, NEW x \in Items', Of(x, d), Has(x, "id")
        PROVE  InSonar(x)
    <3>1. x \in Taken'
      BY <2>1 DEF Taken
    <3>2. CASE \E n \in chosen : x = Link(n, seen).item
      BY <1>3, <3>2
    <3>3. CASE \E n \in inv \ chosen : x = n.item
      BY <1>15, <2>1, <3>3
    <3> QED
      BY <1>11, <3>1, <3>2, <3>3
  <2> QED
    BY <2>1 DEF TakenToMatch, Of, Has, InSonar, Missing
<1>17. (Clean' <=> Clean) /\ (Told' <=> Told) /\ RecordsByImsi(d)'
  BY <1>1, RecordsStill DEF Clean, Reading, Told, LinkInv
<1> QED
  BY <1>1, <1>2, <1>8, <1>9, <1>14, <1>16, <1>17 DEF LinkInv

LEMMA WritesLink ==
    ASSUME IInv, Writes, NEW d \in Devices, Alone(d), FirstIsNamesake(d), LinkInv(d)
    PROVE  LinkInv(d)'
<1>1. CASE CreateMissing \/ LinkToAccounts \/ UpdateNeeded \/ Return
  <2>1. /\ UNCHANGED <<sonar, inv, todo, mine>> /\ (done' = done \/ done' = {})
        /\ pc \in {"ready", "created", "matched"} /\ pc' \in {"create", "link", "update", "ready"}
    BY <1>1 DEF CreateMissing, LinkToAccounts, UpdateNeeded, Return, Gather
  <2> QED
    BY <2>1, LinkBeside
<1>2. CASE Gathered
  <2>1. /\ UNCHANGED <<sonar, inv, todo, mine, done>> /\ tasks = {}
        /\ pc \in {"create", "match", "link", "update"} /\ pc' \in {"created", "matched", "ready"}
        /\ pc' = "matched" => pc = "match"
    BY <1>2 DEF Gathered
  <2> QED
    BY <2>1, LinkBeside
<1> QED
  BY <1>1, <1>2, MatchNamesLink, CreateItemLink, CreateItemFailsLink, AssignLink, UpdateItemLink
  DEF Writes

LEMMA ReadsLink ==
    ASSUME IInv, FoundInv, Reads, NEW d \in Devices, Alone(d), LinkInv(d)
    PROVE  LinkInv(d)'
<1>1. CASE Start
  <2>1. /\ UNCHANGED <<sonar, inv, todo, mine, done>> /\ pc = "down" /\ pc' = "accounts"
    BY <1>1 DEF Start
  <2> QED
    BY <2>1, LinkBeside
<1> QED
  BY <1>1, ReadAccountsLink, ReadInventoryLink, ReadSubscribersLink, ReadSessionsLink, ScansLink,
     NoteBaicellsLink DEF Reads

LEMMA DownLink ==
    ASSUME Down, NEW d, LinkInv(d)
    PROVE  LinkInv(d)'
<1>1. UNCHANGED sonar /\ ~Clean'
  BY DEF Down, Clean, Reading
<1> QED
  BY <1>1, RecordsStill, LinkUnclean DEF LinkInv

LEMMA NameInitially == Init => NameInv
<1> SUFFICES ASSUME Init, NEW d \in Devices, KnownByImsi(d)
             PROVE  LinkInv(d)
  BY DEF NameInv
<1>1. sonar \in Known /\ pc = "down" /\ done = {}
  BY DEF Init
<1>2. RecordsByImsi(d)
  BY <1>1 DEF KnownByImsi, RecordsByImsi, RecordsOf
<1> QED
  BY <1>1, <1>2 DEF LinkInv, Clean, Reading, Told

LEMMA NameInductive == IInv /\ FoundInv /\ NameInv /\ [Next]_vars => NameInv'
<1> SUFFICES ASSUME IInv, FoundInv, [Next]_vars,
                    NEW d \in Devices, Alone(d), FirstIsNamesake(d), LinkInv(d)
             PROVE  LinkInv(d)'
  BY DEF NameInv, Alone, Whose, Group, KnownByImsi, FirstIsNamesake, Namesakes, AcctIds
<1>1. CASE Reads
  BY <1>1, ReadsLink
<1>2. CASE Adds
  BY <1>2, AddsLink
<1>3. CASE Writes
  BY <1>3, WritesLink
<1>4. CASE Exit \/ Killed
  BY <1>4, DownLink DEF Exit, Killed
<1>5. CASE UNCHANGED vars
  <2>1. UNCHANGED <<sonar, inv, pc, next, todo, mine, tasks, done, faults>>
    BY <1>5 DEF vars
  <2>2. /\ Held' = Held /\ Taken' = Taken /\ Items' = Items /\ (Doomed' <=> Doomed)
        /\ (Clean' <=> Clean) /\ (Told' <=> Told) /\ RecordsOf(d)' = RecordsOf(d)
    BY <2>1 DEF Held, Taken, Items, Doomed, Clean, Reading, Told, RecordsOf
  <2>3. RecordsByImsi(d)' /\ (ByImsi(d) => ByImsi(d)')
    BY <2>1, <2>2, RecordsStill DEF LinkInv, ByImsi, ImsiOrMac, Of, Blank, Fresh
  <2>4. KnownIfRecorded(d) => KnownIfRecorded(d)'
    BY <2>2 DEF KnownIfRecorded, Recorded
  <2>5. \A x : Named(x, d) => Named(x, d)'
    BY <2>1 DEF Named, Unmatched, Matched, InSonar, Has, Missing, Namesakes, AcctIds
  <2>6. Titled(d) => Titled(d)'
    BY <2>1, <2>2, <2>5 DEF Titled, Pending, Of, Fresh
  <2>7. TakenToMatch(d) => TakenToMatch(d)'
    BY <2>1, <2>2 DEF TakenToMatch, Of, Has, InSonar, Missing
  <2> QED
    BY <2>1, <2>2, <2>3, <2>4, <2>6, <2>7 DEF LinkInv, Later
<1> QED
  BY <1>1, <1>2, <1>3, <1>4, <1>5 DEF Next

LEMMA NamesHaveRecords == IInv /\ NameInv => NamesakesAreLinked
<1> SUFFICES ASSUME IInv, NameInv, pc = "matched", Told,
                    NEW d \in Devices, Alone(d), KnownByImsi(d), FirstIsNamesake(d),
                    RecordsOf(d) # {}
             PROVE  AtNamesake(d)
  BY DEF NamesakesAreLinked, Told
<1>1. /\ ~Doomed /\ todo = {} /\ TypeOK /\ EntriesOwn /\ LinkInv(d) /\ "base" \in done
  BY DEF IInv, PlaceInv, Doomed, InvInv, NameInv, Told
<1>2. PICK x \in Held : Has(x, "id") /\ Of(x, d)
  BY <1>1 DEF LinkInv, KnownIfRecorded, Recorded, Of
<1>3. PICK n \in inv : x = n.item
  BY <1>1, <1>2, HeldIs
<1>4. x \in ItemType /\ ItemOwn(x, sonar) /\ x \in Items /\ x \in Taken
  BY <1>1, <1>3, EntryFacts, TakenIs DEF Items
<1>5. InSonar(x)
  BY <1>1, <1>2, <1>4 DEF LinkInv, TakenToMatch
<1>6. Matched(x, d)
  <2>1. Named(x, d) \/ Fresh(x)
    BY <1>1, <1>2, <1>4 DEF LinkInv, Titled, Pending
  <2> QED
    BY <1>2, <1>5, <2>1 DEF Named, Unmatched, InSonar, Fresh, Has, Missing
<1>7. x.id \in RecordsOf(d)
  <2>1. x.id \in DOMAIN sonar
    BY <1>2, <1>4 DEF Has, ItemType, Optional
  <2>2. Whose(d) \in Owners(sonar[x.id])
    BY <1>2, <1>4 DEF ItemOwn, Of
  <2> QED
    BY <1>1, <2>1, <2>2, RecordsByOwner DEF RecordsOf, TypeOK
<1> QED
  BY <1>6, <1>7 DEF Matched, AtNamesake

-----------------------------------------------------------------------------
(* The theorems. *)

\* The variables have their types, in every inventory of any devices and accounts: tasks are
\* always on items that are in the set.
THEOREM TypeCorrect == Spec => []TypeOK
<1>1. IInv => TypeOK
  BY DEF IInv
<1> QED
  BY <1>1, Initial, Inductive, PTL DEF Spec

\* Whatever is read, half read, created twice, linked by somebody else or lost: no item of
\* the inventory and no record of Sonar mixes devices of two customers, but of two between
\* whose devices an address passes on while it is read (Torn).  With Torn empty it mixes none;
\* with any other, what it mixes does not reach a device of somebody else.
THEOREM NoMixture == Spec => []OneDeviceEach
<1>1. IInv => OneDeviceEach
  BY DEF IInv, InvInv, RecordsOwn, EntriesOwn, OneDeviceEach, Items, ItemOwn
<1> QED
  BY <1>1, Initial, Inductive, PTL DEF Spec

\* However records are updated, from items merged of whatever was read, of one device or half
\* of another's, no record passes from one customer to another, but among those of Torn.
THEOREM NoRecordPasses == Spec => RecordsStayTheirs
<1>1. IInv /\ [Next]_vars => \A id \in DOMAIN sonar : Owners(sonar'[id]) = Owners(sonar[id])
  BY OwnersStay
<1> QED
  BY <1>1, Initial, Inductive, PTL DEF Spec, RecordsStayTheirs

\* match_names_and_link puts a device only at the address of an account that has the name
\* Raemis gives the device, between which and the item several merges may lie, or one of
\* the names among which addresses pass on if the device's is of them.
THEOREM OnlyExactMatches == Spec => MatchedByExactName
<1>1. IInv /\ [Next]_vars => (pc = "match" => \A id \in DOMAIN sonar, a \in AcctIds :
                                 PutAt(id, a) => \E o \in Owners(sonar[id]) : Accounts[a] \in o)
  BY MatchesAreExact
<1> QED
  BY <1>1, Initial, Inductive, PTL DEF Spec, MatchedByExactName

\* What link_to_accounts adds to that is only what somebody else had linked, of the same
\* customer, before any process of the model started.
THEOREM OnlyKnownLinks == Spec => LinkedByExactName
<1>1. IInv /\ [Next]_vars => (pc # "match" => \A id \in DOMAIN sonar, a \in AcctIds : PutAt(id, a) =>
                                 \/ \E o \in Owners(sonar[id]) : Accounts[a] \in o
                                 \/ BeenAt(Owners(sonar[id]), a))
  BY LinksAreJustified
<1> QED
  BY <1>1, Initial, Inductive, PTL DEF Spec, LinkedByExactName

\* What a process has seen of a device, in a full scan that met no failure, it does not lose in
\* any number of merges: each scan recognises the device by what those before it in
\* run_full_scan have brought, so every device that is attached, has a name of its own and says
\* what parses is in Sonar when create_missing is done.
THEOREM SeenIsInSonar == Spec => []FoundAreCreated
<1>1. IInv /\ FoundInv => FoundAreCreated
  BY FoundHaveRecords
<1>2. Init => IInv /\ FoundInv
  BY Initial, FoundInitially
<1>3. IInv /\ FoundInv /\ [Next]_vars => IInv' /\ FoundInv'
  BY Inductive, FoundInductive
<1> QED
  BY <1>1, <1>2, <1>3, PTL DEF Spec

\* Each failed create, killed process or short read of Sonar makes one duplicate of a device
\* at the most: the next process that reads all of Sonar's inventory, in whatever order it
\* merges what it reads, creates none.
THEOREM DuplicatesArePaidFor == Spec => []FewDuplicates
<1>1. DupInv => FewDuplicates
  BY DEF DupInv, Counted, FewDuplicates
<1>2. Init => IInv /\ DupInv
  BY Initial, CountInitially
<1>3. IInv /\ DupInv /\ [Next]_vars => IInv' /\ DupInv'
  BY Inductive, DupInductive
<1> QED
  BY <1>1, <1>2, <1>3, PTL DEF Spec

\* The name Raemis gives a device survives every merge until the names are matched, in whatever
\* order Sonar's records, Raemis's subscribers and the scans are added, and the item that has it
\* is the one with the device's record: when the tasks of match_names_and_link are done and
\* nothing has failed, the device is at the address of its namesake among the accounts.
THEOREM NamesAreMatched == Spec => []NamesakesAreLinked
<1>1. IInv /\ NameInv => NamesakesAreLinked
  BY NamesHaveRecords
<1>2. Init => IInv /\ FoundInv /\ NameInv
  BY Initial, FoundInitially, NameInitially
<1>3. IInv /\ FoundInv /\ NameInv /\ [Next]_vars => IInv' /\ FoundInv' /\ NameInv'
  BY Inductive, FoundInductive, NameInductive
<1> QED
  BY <1>1, <1>2, <1>3, PTL DEF Spec
=============================================================================
