--------------------------- MODULE DeviceScanProofs ---------------------------
(***************************************************************************)
(* Proofs about DeviceScan, for any devices, addresses and inventories,    *)
(* any number of requests that go wrong and of addresses that pass on.     *)
(*                                                                         *)
(* A read has its values from the devices that have answered it, its from. *)
(* When these are two, both are noted as torn (FromTorn).  Two items that  *)
(* add merges share an identifier: they know of the same device, or, one   *)
(* of them being torn, only of devices that are noted as torn, since all   *)
(* that a torn item knows of are (OwnItem).                                *)
(*                                                                         *)
(* Nothing is forgotten but by a later item that has a field and has it    *)
(* empty.  That every empty field of every item is excused (EmptyInv) is   *)
(* shown from the requests on: for a Baicells also that what was asked and *)
(* not said is (UnreadIsExcused), as its scraper empties that at the end.  *)
(*                                                                         *)
(* Of a device that answers everything, all is being read, or is to be     *)
(* added, or is in an item (Owed) from the moment its reader starts.  A    *)
(* whole item stays whole in every merge, since nothing empty is excused   *)
(* in a later one and all that it can meet is of the same device.          *)
(***************************************************************************)
EXTENDS DeviceScan, FiniteSetTheorems, SequenceTheorems, WellFoundedInduction, TLAPS

-----------------------------------------------------------------------------
(* The inductive invariant. *)

Fields == Read \cup {"model", "ip"}

\* The devices an item knows something of.
Its(i) == {i[f] : f \in Read} \ Missing

Torn(d) == Happened("torn", d, "ip")

OfOneDevice(i) == (\A d, e \in Its(i) : d = e) /\ RightModel(i)

OwnItem(i) == DOMAIN i = Fields /\ (OfOneDevice(i) \/ \A d \in Its(i) : Torn(d))

ItemsAreOwn == \A i \in inv : OwnItem(i)

ResultsAreOwn == \A r \in todo : DOMAIN r = {"item", "own"} /\ OwnItem(r.item)

Readers == {"telrad", "baicells", "snmp", "12300", "12000", "bec", "none"}

\* The model noted is that of the device that answers, or the device is an exception.
ModelFits(t) == \A d \in t.from :
    \/ t.got.model \in {Absent, Kind[d]}
    \/ d \in GdmBanner /\ Happened("lost", d, "test")
    \/ Torn(d)

FromTorn(t) == IsFiniteSet(t.from) /\ \A d, e \in t.from : d # e => Torn(d)

\* The requests that are left to each reader, and what it knows before it has an answer.
InPlace(t) ==
    /\ t.reader = "snmp" => /\ t.got = Bare
                            /\ \/ t.left = SnmpFirst /\ t.from = {} /\ t.banner = None
                               \/ t.left = <<{"test"}>>
    /\ t.reader # "snmp" => t.left \in Seq(SUBSET Read)
    /\ t.reader = "none" => t.left = <<>>

\* What a reader can say of a device's kind.
ByReader(t) ==
    /\ t.reader = "telrad" => t.got.model \in {Absent, "12300"}
    /\ t.reader = "12000" => t.got.model \in {Absent, "12000"}
    /\ t.reader = "baicells" => /\ t.got.model \in {Absent, "baicells"}
                                /\ \A d \in t.from : Kind[d] = "baicells"
                                /\ t.of.model = "baicells"
    /\ t.reader \in {"12300", "bec"} => t.got.model = Absent \/ t.from # {}

TaskIsOwn(t) ==
    /\ DOMAIN t = {"at", "of", "reader", "left", "got", "banner", "from"}
    /\ t.reader \in Readers
    /\ OwnItem(t.of)
    /\ DOMAIN t.got = Fields
    /\ t.banner # None => t.banner \in t.from
    /\ FromTorn(t) /\ InPlace(t) /\ ByReader(t)
    /\ (t.left = <<>> /\ t.got = t.of) \/ (Its(t.got) \subseteq t.from /\ ModelFits(t))

TasksAreOwn == \A t \in tasks : TaskIsOwn(t) /\ (pc = "baicells" => t.reader = "baicells")

IInv == IsFiniteSet(inv) /\ ItemsAreOwn /\ ResultsAreOwn /\ TasksAreOwn

-----------------------------------------------------------------------------
(* The same for what is forgotten. *)

Excused(d, f) ==
    \/ Happened("unusable", d, f) \/ Torn(d)
    \/ /\ Kind[d] = "baicells"
       /\ Happened("lost", d, f) \/ Happened("moved", d, "ip")

EmptyIsExcused(i) == \A d \in Ids(i), f \in Read : i[f] = None => Excused(d, f)

Asked(left) == {f \in Read : \A k \in 1..Len(left) : f \notin left[k]}

\* What a Baicells was asked and has not said is lost to any that has answered or may
\* still answer.
UnreadIsExcused(t) ==
    t.reader = "baicells" /\ t.left # <<>> =>
        \A f \in Asked(t.left) : t.got[f] = Absent =>
            \A d \in t.from \cup {holder[t.at]} :
                d \in Devices /\ Kind[d] = "baicells" => Excused(d, f)

\* What came back empty came from a device, as all that is read after it or does.
EmptyCameBack(t) ==
    t.left # <<>> =>
        \A f \in Read : t.got[f] = None => t.from # {} /\ \A d \in t.from : Excused(d, f)

TaskIsExcused(t) ==
    /\ t.from \subseteq Devices
    /\ EmptyIsExcused(t.of)
    /\ t.left = <<>> => EmptyIsExcused(t.got)
    /\ UnreadIsExcused(t) /\ EmptyCameBack(t)

\* The addresses asked are those Raemis gave.
Placed(i) == i.ip \in Addresses \cup Missing

PlaceInv == /\ \A i \in inv : Placed(i)
            /\ \A r \in todo : Placed(r.item)
            /\ \A t \in tasks : t.at \in Addresses /\ Placed(t.of) /\ Placed(t.got)

EmptyInv == /\ \A i \in inv : EmptyIsExcused(i)
            /\ \A r \in todo : EmptyIsExcused(r.item)
            /\ \A t \in tasks : TaskIsExcused(t)

-----------------------------------------------------------------------------
(* The same for what each reader owes to the devices it can tell. *)

WholeItem(i, d) == (\A f \in Read : i[f] = d) /\ i.model = Kind[d]

AllWhole(d) == /\ \E i \in inv : WholeItem(i, d)
               /\ \A i \in inv : d \in Ids(i) => WholeItem(i, d)

ReaderOf(d) == CASE Kind[d] = "12300" -> "telrad"
                 [] Kind[d] = "baicells" -> "baicells"
                 [] OTHER -> Kind[d]

\* A read that has had an answer to all that it has asked of the device.  A Baicells'
\* model is noted when all are there.
Reads(t, d) ==
    /\ t.of.ip = t.at /\ t.got.ip = Absent
    /\ \/ /\ t.reader = "snmp" /\ Kind[d] \in {"12000", "bec"}
          /\ t.left = SnmpFirst \/ (t.left = <<{"test"}>> /\ t.banner = d)
       \/ /\ t.reader = ReaderOf(d)
          /\ \A k \in 1..Len(t.left) : t.left[k] # {}
          /\ \A f \in Asked(t.left) : t.got[f] = d
          /\ t.reader = "baicells" \/ t.got.model = Kind[d]

\* All of the device at the address is being read, or was and is to be added, or is there.
Owed(a, d) == \/ \E t \in tasks : t.at = a /\ Reads(t, d)
              \/ \E r \in todo : ~r.own /\ WholeItem(r.item, d)
              \/ AllWhole(d)

\* The device's readers have been started.
Turn(d) == \/ pc \in {"snmp", "end"}
           \/ pc = "baicells" /\ Kind[d] \in {"12300", "baicells"}
           \/ pc = "telrad" /\ Kind[d] = "12300"

Told(i, d) == /\ Kind[d] = "12300" => i.imei = d
              /\ Kind[d] = "baicells" => IsBaicells(i)

Items == inv \cup {r.item : r \in todo}

ScanInv == \A d \in Devices : Unharmed(d) /\ Recognized(d) =>
    \A i \in Items : d \in Ids(i) /\ i.ip \notin Missing =>
        Told(i, d) /\ (Turn(d) /\ holder[i.ip] = d => Owed(i.ip, d))

\* A read returns an item of its own, without the address, but for one of the
\* inventory's that it has not touched.
TaskInPhase(t) == /\ t.of \in inv
                  /\ t.got.ip = Absent \/ (t.left = <<>> /\ t.got = t.of)
                  /\ t.reader = "baicells" => pc = "baicells"

PhaseInv == /\ tasks = {} \/ todo = {}
            /\ pc \in {"start", "end"} => Idle
            /\ \A t \in tasks : TaskInPhase(t)
            /\ holder \in [Addresses -> Devices \cup {None}]

-----------------------------------------------------------------------------
(* Numbers and sets. *)

LEMMA LeastNumber ==
    ASSUME NEW S \in SUBSET Nat, S # {}
    PROVE  \E i \in S : \A j \in S : i <= j
<1> DEFINE Less == OpToRel(<, Nat)
<1>1. IsWellFoundedOn(Less, Nat)
  BY NatLessThanWellFounded
<1>2. Less = {pair \in Nat \X Nat : pair[1] < pair[2]}
  BY DEF OpToRel
<1> HIDE DEF Less
<1>3. ASSUME NEW i \in S, NEW j \in S, <<j, i>> \notin Less
      PROVE  i <= j
  BY <1>2, <1>3
<1>4. PICK i \in S : \A j \in S : <<j, i>> \notin Less
  BY <1>1, WFMin
<1>5. \A j \in S : i <= j
  BY <1>3, <1>4
<1> QED
  BY <1>5

LEMMA MaxIsThere ==
    ASSUME NEW n \in Nat, NEW S \in SUBSET (1..n), S # {}
    PROVE  Max(S) \in S /\ \A j \in S : Max(S) >= j
<1> DEFINE M == {n - k : k \in S}
<1>1. M \in SUBSET Nat /\ M # {}
  <2>1. \A k \in S : k \in Nat /\ n - k \in Nat
    OBVIOUS
  <2> QED
    BY <2>1
<1> HIDE DEF M
<1>2. PICK m \in M : \A j \in M : m <= j
  BY <1>1, LeastNumber
<1>3. PICK k \in S : m = n - k
  BY DEF M
<1>4. ASSUME NEW j \in S PROVE k >= j
  <2>1. n - j \in M
    BY DEF M
  <2>2. n - k <= n - j
    BY <1>2, <1>3, <2>1
  <2> QED
    BY <2>2
<1> QED
  BY <1>4 DEF Max

LEMMA TwoAreMany ==
    ASSUME NEW S, IsFiniteSet(S), NEW d \in S, NEW e \in S, d # e
    PROVE  Cardinality(S) > 1
<1>1. IsFiniteSet({d}) /\ Cardinality({d}) = 1
  BY FS_Singleton
<1>2. IsFiniteSet({d, e}) /\ Cardinality({d, e}) = 2
  <2>1. {d, e} = {d} \cup {e} /\ e \notin {d}
    OBVIOUS
  <2> QED
    BY <1>1, <2>1, FS_AddElement
<1>3. Cardinality({d, e}) <= Cardinality(S)
  BY FS_Subset
<1>4. Cardinality(S) \in Nat
  BY FS_CardinalityType
<1> QED
  BY <1>2, <1>3, <1>4

-----------------------------------------------------------------------------
(* Items. *)

LEMMA IdsAreIts ==
    ASSUME NEW i
    PROVE  Ids(i) \subseteq Its(i)
BY DEF Ids, Keys, Its, Read

LEMMA BareIsEmpty ==
    /\ DOMAIN Bare = Fields /\ Its(Bare) = {} /\ Bare.model = Absent
    /\ \A f \in Read : Bare[f] = Absent
BY DEF Bare, Fields, Its, Read, Missing

\* What is set in an item is all it gets to know.
LEMMA SetIts ==
    ASSUME NEW i, DOMAIN i = Fields, NEW S, S \subseteq Read, NEW v
    PROVE  /\ DOMAIN Set(i, S, v) = Fields
           /\ Its(Set(i, S, v)) \subseteq Its(i) \cup ({v} \ Missing)
           /\ Set(i, S, v).model = i.model
<1>1. /\ DOMAIN Set(i, S, v) = Fields
      /\ \A f \in Fields : Set(i, S, v)[f] = IF f \in S THEN v ELSE i[f]
  BY DEF Set
<1>2. "model" \in Fields /\ "model" \notin Read /\ Read \subseteq Fields
  BY DEF Fields, Read
<1> QED
  BY <1>1, <1>2 DEF Its

LEMMA SetFields ==
    ASSUME NEW i, DOMAIN i = Fields, NEW S, NEW v, NEW f \in Read
    PROVE  (f \in S /\ Set(i, S, v)[f] = v) \/ (f \notin S /\ Set(i, S, v)[f] = i[f])
BY DEF Set, Fields

LEMMA SetModel ==
    ASSUME NEW i, DOMAIN i = Fields, NEW v
    PROVE  /\ DOMAIN Set(i, {"model"}, v) = Fields
           /\ Its(Set(i, {"model"}, v)) = Its(i)
           /\ Ids(Set(i, {"model"}, v)) = Ids(i)
           /\ \A f \in Read : Set(i, {"model"}, v)[f] = i[f]
           /\ Set(i, {"model"}, v).model = v
<1> DEFINE j == Set(i, {"model"}, v)
<1>1. /\ DOMAIN j = Fields
      /\ \A f \in Fields : j[f] = IF f = "model" THEN v ELSE i[f]
  BY DEF Set
<1>2. "model" \in Fields /\ "model" \notin Read /\ Read \subseteq Fields
      /\ {"mac", "imei", "imsi"} \subseteq Read
  BY DEF Fields, Read
<1> HIDE DEF j
<1>3. \A f \in Read : j[f] = i[f]
  BY <1>1, <1>2
<1>4. Its(j) = Its(i)
  BY <1>3 DEF Its
<1>5. Keys(j) = Keys(i)
  BY <1>3, <1>2 DEF Keys
<1> QED
  BY <1>1, <1>2, <1>3, <1>4, <1>5 DEF j, Ids

LEMMA AssignedIts ==
    ASSUME NEW i, DOMAIN i = Fields
    PROVE  /\ DOMAIN Assigned(i) = Fields
           /\ Its(Assigned(i)) \subseteq Its(i)
           /\ Assigned(i).model = i.model
           /\ \A f \in Read : Assigned(i)[f] = None => i[f] \in Missing
<1>1. /\ DOMAIN Assigned(i) = Fields
      /\ \A f \in Fields : Assigned(i)[f] = IF f \in Read /\ i[f] = Absent THEN None ELSE i[f]
  BY DEF Assigned
<1>2. "model" \in Fields /\ "model" \notin Read /\ Read \subseteq Fields
  BY DEF Fields, Read
<1> QED
  BY <1>1, <1>2 DEF Its, Missing

\* An item of one device, or all torn, has only values of that device or of torn ones.
LEMMA OwnFromOne ==
    ASSUME NEW i, OwnItem(i), NEW d \in Its(i), ~Torn(d)
    PROVE  Its(i) = {d} /\ RightModel(i)
BY DEF OwnItem, OfOneDevice

\* The clause of OwnValues.
LEMMA OwnIsOwnValues ==
    ASSUME NEW i, OwnItem(i)
    PROVE  \/ Cardinality(Its(i)) <= 1 /\ RightModel(i)
           \/ \E d \in Its(i) : Torn(d)
<1>1. CASE Its(i) = {}
  <2>1. Cardinality(Its(i)) <= 1
    BY <1>1, FS_EmptySet
  <2>2. RightModel(i)
    BY <1>1, IdsAreIts DEF RightModel
  <2> QED
    BY <2>1, <2>2
<1>2. CASE \E d \in Its(i) : ~Torn(d)
  <2>1. PICK d \in Its(i) : ~Torn(d)
    BY <1>2
  <2>2. Its(i) = {d} /\ RightModel(i)
    BY <2>1, OwnFromOne
  <2>3. Cardinality({d}) = 1
    BY FS_Singleton
  <2> QED
    BY <2>2, <2>3
<1>3. CASE Its(i) # {} /\ \A d \in Its(i) : Torn(d)
  BY <1>3
<1> QED
  BY <1>1, <1>2, <1>3

\* What has gone wrong stays noted.
LEMMA ItemStays ==
    ASSUME NEW i, OwnItem(i), mishaps \subseteq mishaps'
    PROVE  OwnItem(i)'
BY DEF OwnItem, OfOneDevice, RightModel, Torn, Happened

LEMMA TaskStays ==
    ASSUME NEW t, TaskIsOwn(t), mishaps \subseteq mishaps'
    PROVE  TaskIsOwn(t)'
<1>1. OwnItem(t.of)'
  BY ItemStays DEF TaskIsOwn
<1>2. \A d : Torn(d) => Torn(d)'
  BY DEF Torn, Happened
<1>3. FromTorn(t)'
  BY <1>2 DEF TaskIsOwn, FromTorn
<1>4. ModelFits(t) => ModelFits(t)'
  BY <1>2 DEF ModelFits, Happened
<1> QED
  BY <1>1, <1>3, <1>4 DEF TaskIsOwn, InPlace, ByReader

-----------------------------------------------------------------------------
(* One task goes on. *)

\* Two devices that have answered one read are noted as torn, and nothing noted is lost.
LEMMA NoteIsKept ==
    ASSUME NEW t, TaskIsOwn(t), NEW what, NEW about, Note(t, what, about)
    PROVE  /\ mishaps \subseteq mishaps'
           /\ IsFiniteSet(Who(t))
           /\ \A d, e \in Who(t) : d # e => Torn(d)'
<1>1. mishaps \subseteq mishaps'
  BY DEF Note
<1>2. IsFiniteSet(Who(t))
  <2>1. IsFiniteSet(t.from)
    BY DEF TaskIsOwn, FromTorn
  <2>2. IsFiniteSet({holder[t.at]})
    BY FS_Singleton
  <2>3. IsFiniteSet({holder[t.at]} \cap Understands(t.reader, Head(t.left)))
    BY <2>2, FS_Subset
  <2> QED
    BY <2>1, <2>3, FS_Union DEF Who
<1>3. ASSUME NEW d \in Who(t), NEW e \in Who(t), d # e PROVE Torn(d)'
  <2>1. Cardinality(Who(t)) > 1
    BY <1>2, <1>3, TwoAreMany
  <2>2. {<<"torn", x, "ip">> : x \in Who(t)} \subseteq mishaps'
    BY <2>1 DEF Note
  <2> QED
    BY <2>2 DEF Torn, Happened
<1> QED
  BY <1>1, <1>2, <1>3

LEMMA TaskStep ==
    ASSUME IInv, NEW t \in tasks, NEW u, tasks' = (tasks \ {t}) \cup {u}, TaskIsOwn(u)',
           mishaps \subseteq mishaps', UNCHANGED <<pc, inv, todo>>,
           pc = "baicells" => u.reader = "baicells"
    PROVE  IInv'
<1>1. IsFiniteSet(inv)'
  BY DEF IInv
<1>2. ItemsAreOwn'
  BY ItemStays DEF IInv, ItemsAreOwn
<1>3. ResultsAreOwn'
  BY ItemStays DEF IInv, ResultsAreOwn
<1>4. TasksAreOwn'
  <2>1. ASSUME NEW x \in tasks PROVE TaskIsOwn(x)' /\ (pc = "baicells" => x.reader = "baicells")
    BY TaskStays DEF IInv, TasksAreOwn
  <2> QED
    BY <2>1 DEF TasksAreOwn
<1> QED
  BY <1>1, <1>2, <1>3, <1>4 DEF IInv

\* The requests of each reader but those for what a device is.
LEMMA RequestsType ==
    ASSUME NEW reader \in Readers, reader # "snmp"
    PROVE  Requests(reader) \in Seq(SUBSET Read)
<1>1. \A S \in {{"imsi", "imei", "signal"}, {"mac"}, {"imei"}, {"imsi"}, {"signal"}} :
          S \in SUBSET Read
  BY DEF Read
<1>2. TelradPages \in Seq(SUBSET Read)
  BY <1>1 DEF TelradPages
<1>3. BaicellsValues \in Seq(SUBSET Read)
  BY <1>1 DEF BaicellsValues
<1>4. SnmpTelrad12300 \in Seq(SUBSET Read)
  BY <1>1 DEF SnmpTelrad12300
<1>5. SnmpTelrad12000 \in Seq(SUBSET Read)
  BY <1>1 DEF SnmpTelrad12000
<1>6. SnmpBec6900 \in Seq(SUBSET Read)
  BY <1>1 DEF SnmpBec6900
<1>7. <<>> \in Seq(SUBSET Read)
  OBVIOUS
<1> QED
  BY <1>2, <1>3, <1>4, <1>5, <1>6, <1>7 DEF Readers, Requests

\* The reader of a kind is only answered by devices of that kind.
LEMMA AskedKind ==
    ASSUME NEW t, TaskIsOwn(t), t.left # <<>>, t.reader # "snmp",
           NEW d \in Understands(t.reader, Head(t.left))
    PROVE  /\ t.reader = "telrad" => Kind[d] = "12300"
           /\ t.reader = "baicells" => Kind[d] = "baicells"
           /\ t.reader = "12000" => Kind[d] = "12000"
<1>1. t.left \in Seq(SUBSET Read) /\ t.left # <<>>
  BY DEF TaskIsOwn, InPlace
<1>2. Head(t.left) \in SUBSET Read
  BY <1>1
<1>3. Head(t.left) # {"test"} /\ Head(t.left) # {"banner"}
  BY <1>2 DEF Read
<1>4. Kind[d] \in KindsThat(t.reader, Head(t.left))
  BY DEF Understands
<1> QED
  BY <1>3, <1>4 DEF KindsThat

\* A read that goes on, with no more than what it had and what it is answered.
LEMMA OnwardIsOwn ==
    ASSUME NEW t, TaskIsOwn(t), t.left # <<>>, t.reader # "snmp",
           mishaps \subseteq mishaps', IsFiniteSet(Who(t)),
           \A d, e \in Who(t) : d # e => Torn(d)',
           NEW u, DOMAIN u = DOMAIN t, u.reader = t.reader, u.of = t.of, u.banner = t.banner,
           u.left = Tail(t.left) \/ u.left = <<>>,
           u.from \in {t.from, Who(t)},
           DOMAIN u.got = Fields, u.got.model \in {t.got.model, Absent},
           Its(u.got) \subseteq u.from
    PROVE  TaskIsOwn(u)'
<1>1. OwnItem(t.of)'
  BY ItemStays DEF TaskIsOwn
<1>2. t.from \subseteq u.from /\ u.from \subseteq Who(t)
  BY DEF Who
<1>3. FromTorn(u)'
  <2>1. IsFiniteSet(u.from)
    BY <1>2, FS_Subset
  <2> QED
    BY <2>1, <1>2 DEF FromTorn
<1>4. InPlace(u)'
  <2>1. t.left \in Seq(SUBSET Read) /\ (t.reader = "none" => t.left = <<>>)
    BY DEF TaskIsOwn, InPlace
  <2>2. Tail(t.left) \in Seq(SUBSET Read) /\ <<>> \in Seq(SUBSET Read)
    BY <2>1
  <2> QED
    BY <2>1, <2>2 DEF InPlace
<1>5. ASSUME NEW d \in u.from, d \notin t.from
      PROVE  d \in Understands(t.reader, Head(t.left))
  BY <1>2, <1>5 DEF Who
<1>6. ByReader(u)'
  <2>1. t.reader = "baicells" => \A d \in u.from : Kind[d] = "baicells"
    BY <1>5, AskedKind DEF TaskIsOwn, ByReader
  <2> QED
    BY <2>1, <1>2 DEF TaskIsOwn, ByReader
<1>7. ModelFits(t)
  BY DEF TaskIsOwn
<1>8. ModelFits(u)'
  <2> SUFFICES ASSUME NEW d \in u.from, u.got.model # Absent
               PROVE  \/ u.got.model = Kind[d]
                      \/ d \in GdmBanner /\ Happened("lost", d, "test")'
                      \/ Torn(d)'
    BY DEF ModelFits
  <2>1. u.got.model = t.got.model
    OBVIOUS
  <2>2. CASE d \in t.from
    BY <2>1, <2>2, <1>7 DEF ModelFits, Happened, Torn
  <2>3. CASE d \notin t.from
    <3>1. d \in Understands(t.reader, Head(t.left))
      BY <2>3, <1>5
    <3>2. CASE t.reader \in {"12300", "bec"}
      <4>1. PICK e \in t.from : TRUE
        BY <3>2, <2>1 DEF TaskIsOwn, ByReader
      <4> QED
        BY <4>1, <2>3, <1>2
    <3>3. CASE t.reader \in {"telrad", "12000", "baicells"}
      BY <3>1, <3>3, <2>1, AskedKind DEF TaskIsOwn, ByReader
    <3>4. t.reader # "none"
      BY DEF TaskIsOwn, InPlace
    <3> QED
      BY <3>2, <3>3, <3>4 DEF TaskIsOwn, Readers
  <2> QED
    BY <2>2, <2>3
<1>9. t.reader \in Readers /\ DOMAIN u = {"at", "of", "reader", "left", "got", "banner", "from"}
      /\ (u.banner # None => u.banner \in u.from)
  BY <1>2 DEF TaskIsOwn
<1> QED
  BY <1>1, <1>3, <1>4, <1>6, <1>8, <1>9 DEF TaskIsOwn

\* The task goes on to its next request.
LEMMA GoesOn ==
    ASSUME IInv, NEW t \in tasks, t.left # <<>>, t.reader # "snmp",
           NEW what, NEW about, Note(t, what, about), UNCHANGED <<pc, inv, todo>>,
           NEW got, DOMAIN got = Fields, got.model = t.got.model,
           NEW from \in {t.from, Who(t)}, Its(got) \subseteq from,
           Goes(t, [t EXCEPT !.got = got, !.from = from])
    PROVE  IInv'
<1> DEFINE v == [t EXCEPT !.got = got, !.from = from]
           g == IF t.reader = "baicells" /\ Tail(t.left) = <<>> THEN Assigned(got) ELSE got
           u == [v EXCEPT !.left = Tail(t.left), !.got = g]
<1>1. TaskIsOwn(t) /\ (pc = "baicells" => t.reader = "baicells")
  BY DEF IInv, TasksAreOwn
<1>2. DOMAIN t = {"at", "of", "reader", "left", "got", "banner", "from"}
  BY <1>1 DEF TaskIsOwn
<1>3. /\ DOMAIN v = DOMAIN t /\ v.got = got /\ v.from = from
      /\ v.reader = t.reader /\ v.of = t.of /\ v.banner = t.banner
  BY <1>2
<1>4. DOMAIN g = Fields /\ g.model = t.got.model /\ Its(g) \subseteq from
  BY AssignedIts
<1>5. tasks' = (tasks \ {t}) \cup {u}
  BY <1>3 DEF Goes
<1> HIDE DEF v, g
<1>6. /\ DOMAIN u = DOMAIN t /\ u.got = g /\ u.from = from /\ u.left = Tail(t.left)
      /\ u.reader = t.reader /\ u.of = t.of /\ u.banner = t.banner
  BY <1>2, <1>3
<1> HIDE DEF u
<1>7. TaskIsOwn(u)' /\ mishaps \subseteq mishaps'
  BY <1>1, <1>4, <1>6, NoteIsKept, OnwardIsOwn
<1> QED
  BY <1>1, <1>5, <1>6, <1>7, TaskStep

\* The task is over, with nothing or with the inventory's own item.
LEMMA EndsWell ==
    ASSUME IInv, NEW t \in tasks, t.left # <<>>, t.reader # "snmp",
           NEW what, NEW about, Note(t, what, about), UNCHANGED <<pc, inv, todo>>,
           NEW i, Ends(t, i), i = Bare \/ (t.reader = "baicells" /\ i = t.of)
    PROVE  IInv'
<1> DEFINE u == [t EXCEPT !.left = <<>>, !.got = i]
<1>1. TaskIsOwn(t) /\ (pc = "baicells" => t.reader = "baicells")
  BY DEF IInv, TasksAreOwn
<1>2. DOMAIN t = {"at", "of", "reader", "left", "got", "banner", "from"}
  BY <1>1 DEF TaskIsOwn
<1>3. tasks' = (tasks \ {t}) \cup {u}
  BY DEF Ends
<1>4. /\ DOMAIN u = DOMAIN t /\ u.got = i /\ u.from = t.from /\ u.left = <<>>
      /\ u.reader = t.reader /\ u.of = t.of /\ u.banner = t.banner
  BY <1>2
<1> HIDE DEF u
<1>5. mishaps \subseteq mishaps'
  BY <1>1, NoteIsKept
<1>6. TaskIsOwn(u)'
  <2>1. CASE i = Bare
    BY <1>1, <1>4, <2>1, BareIsEmpty, NoteIsKept, OnwardIsOwn
  <2>2. CASE t.reader = "baicells" /\ i = t.of
    <3>1. TaskIsOwn(t)'
      BY <1>1, <1>5, TaskStays
    <3>2. InPlace(u)'
      <4>1. <<>> \in Seq(SUBSET Read)
        OBVIOUS
      <4> QED
        BY <1>4, <2>2, <4>1 DEF InPlace
    <3>3. ByReader(u)'
      BY <1>4, <2>2, <3>1 DEF ByReader, TaskIsOwn
    <3>4. FromTorn(u)'
      BY <1>4, <3>1 DEF FromTorn, TaskIsOwn
    <3>5. DOMAIN i = Fields /\ OwnItem(t.of)'
      BY <2>2, <3>1 DEF TaskIsOwn, OwnItem
    <3> QED
      BY <1>2, <1>4, <2>2, <3>1, <3>2, <3>3, <3>4, <3>5 DEF TaskIsOwn
  <2> QED
    BY <2>1, <2>2
<1> QED
  BY <1>1, <1>3, <1>4, <1>5, <1>6, TaskStep

\* What a task that still runs has read.
LEMMA HasRead ==
    ASSUME IInv, NEW t \in tasks, t.left # <<>>
    PROVE  /\ TaskIsOwn(t) /\ DOMAIN t.got = Fields
           /\ Its(t.got) \subseteq t.from /\ ModelFits(t)
           /\ DOMAIN t = {"at", "of", "reader", "left", "got", "banner", "from"}
BY DEF IInv, TasksAreOwn, TaskIsOwn

LEMMA AskedForValues ==
    ASSUME IInv, NEW t \in tasks, t.left # <<>>, t.reader # "snmp"
    PROVE  Head(t.left) \subseteq Read
<1>1. t.left \in Seq(SUBSET Read)
  BY HasRead DEF TaskIsOwn, InPlace
<1> QED
  BY <1>1

LEMMA AnswerIts ==
    ASSUME IInv, NEW t \in tasks, t.left # <<>>, t.reader # "snmp",
           NEW S, S \subseteq Head(t.left), NEW v
    PROVE  /\ DOMAIN Set(t.got, S, v) = Fields
           /\ Set(t.got, S, v).model = t.got.model
           /\ Its(Set(t.got, S, v)) \subseteq t.from \cup {v}
<1>1. S \subseteq Read
  BY AskedForValues
<1>2. DOMAIN t.got = Fields /\ Its(t.got) \subseteq t.from
  BY HasRead
<1> QED
  BY <1>1, <1>2, SetIts

LEMMA GetValueKeeps ==
    ASSUME IInv, NEW t \in tasks, GetValue(t)
    PROVE  IInv'
<1> DEFINE got == Set(t.got, Head(t.left), holder[t.at])
<1>1. /\ t.left # <<>> /\ t.reader # "snmp" /\ UNCHANGED <<pc, inv, todo>>
      /\ Note(t, "lost", {}) /\ Goes(t, [t EXCEPT !.got = got, !.from = Who(t)])
      /\ holder[t.at] \in Who(t)
  BY DEF GetValue, Asks, Running, Answers, Who
<1>2. DOMAIN got = Fields /\ got.model = t.got.model
      /\ Its(got) \subseteq t.from \cup {holder[t.at]}
  BY <1>1, AnswerIts
<1>3. Its(got) \subseteq Who(t)
  BY <1>1, <1>2 DEF Who
<1> HIDE DEF got
<1> QED
  BY <1>1, <1>2, <1>3, GoesOn

\* Going on with what it has got so far.
LEMMA GoesAsItIs ==
    ASSUME IInv, NEW t \in tasks, t.left # <<>>, Goes(t, t)
    PROVE  Goes(t, [t EXCEPT !.got = t.got, !.from = t.from])
<1> DEFINE v == [t EXCEPT !.got = t.got, !.from = t.from]
<1>1. [v EXCEPT !.left = Tail(t.left), !.got = t.got]
      = [t EXCEPT !.left = Tail(t.left), !.got = t.got]
  BY HasRead
<1>2. [v EXCEPT !.left = Tail(t.left), !.got = Assigned(t.got)]
      = [t EXCEPT !.left = Tail(t.left), !.got = Assigned(t.got)]
  BY HasRead
<1>3. v.got = t.got
  BY HasRead
<1> HIDE DEF v
<1>4. Goes(t, v)
  BY <1>1, <1>2, <1>3 DEF Goes
<1> QED
  BY <1>4 DEF v

LEMMA NoValueKeeps ==
    ASSUME IInv, NEW t \in tasks, NoValue(t)
    PROVE  IInv'
<1>1. /\ t.left # <<>> /\ t.reader # "snmp" /\ UNCHANGED <<pc, inv, todo>>
      /\ Note(t, "lost", Head(t.left))
  BY DEF NoValue, Asks, Running
<1>2. CASE t.reader = "telrad"
  <2>1. Ends(t, Bare)
    BY <1>2 DEF NoValue
  <2> QED
    BY <1>1, <2>1, EndsWell
<1>3. CASE t.reader # "telrad"
  <2>1. Goes(t, t)
    BY <1>3 DEF NoValue
  <2>2. Goes(t, [t EXCEPT !.got = t.got, !.from = t.from])
    BY <1>1, <2>1, GoesAsItIs
  <2>3. DOMAIN t.got = Fields /\ Its(t.got) \subseteq t.from
    BY <1>1, HasRead
  <2> QED
    BY <1>1, <2>2, <2>3, GoesOn
<1> QED
  BY <1>2, <1>3

LEMMA GetPartOfPageKeeps ==
    ASSUME IInv, NEW t \in tasks, GetPartOfPage(t)
    PROVE  IInv'
<1>1. /\ t.left # <<>> /\ t.reader # "snmp" /\ UNCHANGED <<pc, inv, todo>>
      /\ holder[t.at] \in Who(t)
  BY DEF GetPartOfPage, Asks, Running, Answers, Who
<1>2. PICK lacks \in SUBSET Head(t.left) :
        /\ Note(t, "lost", lacks)
        /\ Goes(t, [t EXCEPT !.got = Set(t.got, Head(t.left) \ lacks, holder[t.at]),
                             !.from = Who(t)])
  BY DEF GetPartOfPage
<1> DEFINE got == Set(t.got, Head(t.left) \ lacks, holder[t.at])
<1>3. DOMAIN got = Fields /\ got.model = t.got.model
      /\ Its(got) \subseteq t.from \cup {holder[t.at]}
  BY <1>1, AnswerIts
<1>4. Its(got) \subseteq Who(t)
  BY <1>1, <1>3 DEF Who
<1> HIDE DEF got
<1>5. Goes(t, [t EXCEPT !.got = got, !.from = Who(t)])
  BY <1>2 DEF got
<1> QED
  BY <1>1, <1>2, <1>3, <1>4, <1>5, GoesOn

LEMMA GetUnusableIdentifierKeeps ==
    ASSUME IInv, NEW t \in tasks, GetUnusableIdentifier(t)
    PROVE  IInv'
<1>1. /\ t.left # <<>> /\ t.reader # "snmp" /\ UNCHANGED <<pc, inv, todo>>
      /\ holder[t.at] \in Who(t)
  BY DEF GetUnusableIdentifier, Asks, Running, Answers, Who
<1>2. PICK f \in Head(t.left) :
        /\ Note(t, "unusable", {f})
        /\ Goes(t, [t EXCEPT !.got = Set(Set(t.got, Head(t.left), holder[t.at]), {f}, None),
                             !.from = Who(t)])
  BY DEF GetUnusableIdentifier
<1> DEFINE read == Set(t.got, Head(t.left), holder[t.at])
           got == Set(read, {f}, None)
<1>3. DOMAIN read = Fields /\ read.model = t.got.model
      /\ Its(read) \subseteq t.from \cup {holder[t.at]}
  BY <1>1, AnswerIts
<1>4. Goes(t, [t EXCEPT !.got = got, !.from = Who(t)])
  BY <1>2
<1> HIDE DEF read
<1>5. {f} \subseteq Read
  BY <1>1, AskedForValues
<1>6. DOMAIN got = Fields /\ got.model = t.got.model /\ Its(got) \subseteq Its(read)
  BY <1>3, <1>5, SetIts DEF Missing
<1>7. Its(got) \subseteq Who(t)
  BY <1>1, <1>3, <1>6 DEF Who
<1> HIDE DEF got
<1> QED
  BY <1>1, <1>2, <1>4, <1>6, <1>7, GoesOn

LEMMA GetRaisesKeeps ==
    ASSUME IInv, NEW t \in tasks, GetRaises(t)
    PROVE  IInv'
<1>1. /\ t.left # <<>> /\ t.reader # "snmp" /\ UNCHANGED <<pc, inv, todo>>
      /\ Note(t, "lost", Read) /\ Ends(t, Bare)
  BY DEF GetRaises, Asks, Running
<1> QED
  BY <1>1, EndsWell

LEMMA NoSessionKeeps ==
    ASSUME IInv, NEW t \in tasks, NoSession(t)
    PROVE  IInv'
<1>1. /\ t.left # <<>> /\ t.reader = "baicells" /\ UNCHANGED <<pc, inv, todo>>
      /\ Note(t, "lost", Read) /\ Ends(t, t.of)
  BY DEF NoSession, Asks, Running
<1> QED
  BY <1>1, EndsWell

\* Only SNMP readers ask what a device is, and of them no value is known.
LEMMA WhatItIs ==
    ASSUME IInv, NEW t \in tasks, t.left # <<>>,
           Head(t.left) = {"banner"} \/ Head(t.left) = {"test"}
    PROVE  /\ t.reader = "snmp" /\ t.got = Bare /\ pc # "baicells"
           /\ Head(t.left) = {"banner"} => /\ Tail(t.left) = <<{"test"}>>
                                           /\ t.from = {} /\ t.banner = None
           /\ Head(t.left) = {"test"} => t.left = <<{"test"}>>
<1>1. t.reader = "snmp"
  <2>1. ~({"banner"} \subseteq Read) /\ ~({"test"} \subseteq Read)
    BY DEF Read
  <2> QED
    BY <2>1, AskedForValues
<1>2. t.got = Bare /\ \/ t.left = SnmpFirst /\ t.from = {} /\ t.banner = None
                      \/ t.left = <<{"test"}>>
  BY <1>1, HasRead DEF TaskIsOwn, InPlace
<1>3. pc # "baicells"
  BY <1>1 DEF IInv, TasksAreOwn
<1>4. Head(SnmpFirst) = {"banner"} /\ Tail(SnmpFirst) = <<{"test"}>>
      /\ Head(<<{"test"}>>) = {"test"} /\ {"banner"} # {"test"}
  BY DEF SnmpFirst
<1> QED
  BY <1>1, <1>2, <1>3, <1>4

LEMMA GetBannerKeeps ==
    ASSUME IInv, NEW t \in tasks, GetBanner(t)
    PROVE  IInv'
<1>1. /\ t.left # <<>> /\ Head(t.left) = {"banner"} /\ UNCHANGED <<pc, inv, todo>>
  BY DEF GetBanner, Running
<1>2. /\ t.reader = "snmp" /\ t.got = Bare /\ pc # "baicells"
      /\ Tail(t.left) = <<{"test"}>> /\ t.from = {} /\ t.banner = None
  BY <1>1, WhatItIs
<1>3. TaskIsOwn(t) /\ DOMAIN t = {"at", "of", "reader", "left", "got", "banner", "from"}
  BY <1>1, HasRead
<1>4. ASSUME NEW u, DOMAIN u = DOMAIN t, u.reader = "snmp", u.of = t.of, u.got = Bare,
             u.left = <<{"test"}>>, mishaps \subseteq mishaps',
             tasks' = (tasks \ {t}) \cup {u},
             \/ u.from = {} /\ u.banner = None
             \/ u.from = {u.banner}
      PROVE  IInv'
  <2>1. FromTorn(u)'
    <3>1. IsFiniteSet(u.from)
      BY <1>4, FS_EmptySet, FS_Singleton
    <3> QED
      BY <1>4, <3>1 DEF FromTorn
  <2>2. InPlace(u)'
    BY <1>4 DEF InPlace
  <2>3. ByReader(u)'
    BY <1>4 DEF ByReader
  <2>4. DOMAIN u.got = Fields /\ Its(u.got) = {} /\ u.got.model = Absent
    BY <1>4, BareIsEmpty
  <2>5. ModelFits(u)'
    BY <2>4 DEF ModelFits
  <2>6. OwnItem(u.of)'
    BY <1>3, <1>4, ItemStays DEF TaskIsOwn
  <2>7. u.reader \in Readers /\ (u.banner # None => u.banner \in u.from)
    BY <1>4 DEF Readers
  <2>8. TaskIsOwn(u)'
    BY <1>3, <1>4, <2>1, <2>2, <2>3, <2>4, <2>5, <2>6, <2>7 DEF TaskIsOwn
  <2> QED
    BY <1>1, <1>2, <1>4, <2>8, TaskStep
<1>5. CASE Answers(t) /\ Goes(t, [t EXCEPT !.banner = holder[t.at], !.from = Who(t)])
           /\ UNCHANGED mishaps
  <2> DEFINE v == [t EXCEPT !.banner = holder[t.at], !.from = Who(t)]
             u == [v EXCEPT !.left = Tail(t.left), !.got = v.got]
  <2>1. Who(t) = {holder[t.at]}
    BY <1>2, <1>5 DEF Who, Answers
  <2>2. tasks' = (tasks \ {t}) \cup {u}
    BY <1>2, <1>5 DEF Goes
  <2>3. /\ DOMAIN v = DOMAIN t /\ v.got = Bare /\ v.from = {v.banner}
        /\ v.reader = "snmp" /\ v.of = t.of
    BY <1>2, <1>3, <2>1
  <2> HIDE DEF v
  <2>4. /\ DOMAIN u = DOMAIN t /\ u.got = Bare /\ u.from = {u.banner}
        /\ u.reader = "snmp" /\ u.of = t.of /\ u.left = <<{"test"}>>
    BY <1>2, <1>3, <2>3
  <2> HIDE DEF u
  <2> QED
    BY <1>4, <1>5, <2>2, <2>4
<1>6. CASE Goes(t, t) /\ Note(t, "lost", {"banner"})
  <2> DEFINE u == [t EXCEPT !.left = Tail(t.left), !.got = t.got]
  <2>1. tasks' = (tasks \ {t}) \cup {u}
    BY <1>2, <1>6 DEF Goes
  <2>2. /\ DOMAIN u = DOMAIN t /\ u.got = Bare /\ u.from = {} /\ u.banner = None
        /\ u.reader = "snmp" /\ u.of = t.of /\ u.left = <<{"test"}>>
    BY <1>2, <1>3
  <2> HIDE DEF u
  <2> QED
    BY <1>3, <1>4, <1>6, <2>1, <2>2, NoteIsKept
<1> QED
  BY <1>5, <1>6 DEF GetBanner

\* The model a reader is chosen for is right, but for a 12000 whose test was lost.
LEMMA ChosenModelFits ==
    ASSUME IInv, NEW t \in tasks, t.left # <<>>, Head(t.left) = {"test"}, NEW tested \in BOOLEAN,
           tested => Answers(t), Note(t, "lost", IF tested THEN {} ELSE {"test"}),
           NEW d \in (IF tested THEN Who(t) ELSE t.from)
    PROVE  \/ ModelFor(t, ReaderFor(t, tested)) \in {Absent, Kind[d]}
           \/ d \in GdmBanner /\ Happened("lost", d, "test")'
           \/ Torn(d)'
<1>1. t.reader = "snmp" /\ TaskIsOwn(t)
  BY WhatItIs, HasRead
<1>2. \A e \in Who(t) : e # d => Torn(d)'
  <2>1. d \in Who(t)
    BY DEF Who
  <2> QED
    BY <1>1, <2>1, NoteIsKept
<1>3. CASE tested
  <2>1. ReaderFor(t, tested) = "12000"
    BY <1>3 DEF ReaderFor
  <2>2. ModelFor(t, ReaderFor(t, tested)) = "12000"
    BY <2>1 DEF ModelFor
  <2>3. holder[t.at] \in Understands(t.reader, Head(t.left))
    BY <1>3 DEF Answers
  <2>4. Kind[holder[t.at]] = "12000"
    BY <2>3, <1>1 DEF Understands, KindsThat
  <2>5. holder[t.at] \in Who(t)
    BY <2>3 DEF Who
  <2> QED
    BY <1>2, <2>2, <2>4, <2>5
<1>4. CASE ~tested /\ t.banner = d
  <2>1. CASE d \in GdmBanner
    <3>1. d \in Devices /\ Kind[d] = "12000"
      BY <2>1, DevicesAssumption
    <3>2. d \in Understands(t.reader, Head(t.left))
      BY <3>1, <1>1 DEF Understands, KindsThat
    <3>3. d \in Who(t)
      BY <1>4 DEF Who
    <3>4. <<"lost", d, "test">> \in mishaps'
      BY <1>4, <3>2, <3>3 DEF Note
    <3> QED
      BY <2>1, <3>4 DEF Happened
  <2>2. CASE d \notin GdmBanner
    BY <1>4, <2>2 DEF ModelFor, ReaderFor, SaysGdm, Says
  <2> QED
    BY <2>1, <2>2
<1>5. CASE ~tested /\ t.banner # d /\ t.banner # None
  <2>1. t.banner \in Who(t)
    BY <1>1, <1>5 DEF TaskIsOwn, Who
  <2> QED
    BY <1>2, <1>5, <2>1
<1>6. CASE ~tested /\ t.banner = None
  <2>1. None \notin GdmBanner
    BY DevicesAssumption
  <2>2. ModelFor(t, ReaderFor(t, tested)) = Absent
    BY <1>6, <2>1 DEF ModelFor, ReaderFor, SaysGdm, Says
  <2> QED
    BY <2>2
<1> QED
  BY <1>3, <1>4, <1>5, <1>6

LEMMA GetTestKeeps ==
    ASSUME IInv, NEW t \in tasks, GetTest(t)
    PROVE  IInv'
<1>1. t.left # <<>> /\ Head(t.left) = {"test"} /\ UNCHANGED <<pc, inv, todo>>
  BY DEF GetTest, Running
<1>2. t.reader = "snmp" /\ pc # "baicells"
  BY <1>1, WhatItIs
<1>3. TaskIsOwn(t) /\ DOMAIN t = {"at", "of", "reader", "left", "got", "banner", "from"}
  BY <1>1, HasRead
<1>4. PICK tested \in BOOLEAN :
        LET reader == ReaderFor(t, tested)
        IN /\ tested => Answers(t)
           /\ Note(t, "lost", IF tested THEN {} ELSE {"test"})
           /\ tasks' = (tasks \ {t}) \cup
                  {[t EXCEPT !.reader = reader, !.left = Requests(reader),
                             !.got = [Bare EXCEPT !.model = ModelFor(t, reader)],
                             !.from = IF tested THEN Who(t) ELSE t.from]}
  BY DEF GetTest
<1>5. PICK from : from = IF tested THEN Who(t) ELSE t.from
  OBVIOUS
<1> DEFINE reader == ReaderFor(t, tested)
           model == ModelFor(t, reader)
           got == [Bare EXCEPT !.model = model]
           u == [t EXCEPT !.reader = reader, !.left = Requests(reader), !.got = got, !.from = from]
<1>6. tasks' = (tasks \ {t}) \cup {u}
  BY <1>4, <1>5
<1>7. DOMAIN got = Fields /\ Its(got) = {} /\ got.model = model
  <2> HIDE DEF model
  <2>1. DOMAIN got = Fields /\ got.model = model
    BY DEF Bare, Fields, Read
  <2>2. \A f \in Read : got[f] = Absent
    BY DEF Bare, Read
  <2> QED
    BY <2>1, <2>2 DEF Its, Missing
<1> HIDE DEF got
<1>8. mishaps \subseteq mishaps'
  BY <1>3, <1>4, NoteIsKept
<1>9. t.from \subseteq from /\ from \subseteq Who(t)
  BY <1>5 DEF Who
<1>10. ModelFits(u)'
  <2>1. \A d \in from : \/ model \in {Absent, Kind[d]}
                        \/ d \in GdmBanner /\ Happened("lost", d, "test")'
                        \/ Torn(d)'
    BY <1>1, <1>4, <1>5, ChosenModelFits
  <2>2. u.from = from /\ u.got.model = model
    BY <1>3, <1>7
  <2> HIDE DEF u, model
  <2> QED
    BY <2>1, <2>2 DEF ModelFits
<1>11. reader \in {"12300", "12000", "bec", "none"}
  BY DEF ReaderFor
<1>12. /\ reader = "12000" => model \in {Absent, "12000"}
       /\ reader \in {"12300", "bec"} => model = Absent \/ from # {}
  <2>1. reader = "12000" => model \in {Absent, "12000"}
    BY DEF ModelFor
  <2>2. ASSUME reader \in {"12300", "bec"}, model # Absent PROVE t.banner # None
    <3>1. None \notin GdmBanner
      BY DevicesAssumption
    <3> QED
      BY <2>2, <3>1 DEF ModelFor, ReaderFor, SaysGdm, Says
  <2>3. t.banner # None => from # {}
    BY <1>3, <1>9 DEF TaskIsOwn
  <2> QED
    BY <2>1, <2>2, <2>3
<1>13. Requests(reader) \in Seq(SUBSET Read) /\ (reader = "none" => Requests(reader) = <<>>)
  BY <1>11, RequestsType DEF Readers, Requests
<1>14. IsFiniteSet(from) /\ \A d, e \in from : d # e => Torn(d)'
  BY <1>3, <1>4, <1>9, <1>5, NoteIsKept, FS_Subset
<1> HIDE DEF reader, model
<1>15. /\ DOMAIN u = DOMAIN t /\ u.reader = reader /\ u.left = Requests(reader) /\ u.got = got
       /\ u.from = from /\ u.banner = t.banner /\ u.of = t.of
  BY <1>3
<1> HIDE DEF u
<1>16. FromTorn(u)'
  BY <1>14, <1>15 DEF FromTorn
<1>17. InPlace(u)'
  BY <1>11, <1>13, <1>15 DEF InPlace
<1>18. ByReader(u)'
  BY <1>7, <1>11, <1>12, <1>15 DEF ByReader
<1>19. OwnItem(u.of)'
  BY <1>3, <1>8, <1>15, ItemStays DEF TaskIsOwn
<1>20. u.reader \in Readers /\ (u.banner # None => u.banner \in u.from)
  BY <1>3, <1>9, <1>11, <1>15 DEF TaskIsOwn, Readers
<1>21. TaskIsOwn(u)'
  BY <1>3, <1>7, <1>10, <1>15, <1>16, <1>17, <1>18, <1>19, <1>20 DEF TaskIsOwn
<1> QED
  BY <1>1, <1>2, <1>6, <1>8, <1>21, TaskStep

-----------------------------------------------------------------------------
(* The readers begin and end. *)

\* A task that has not asked anything yet.
LEMMA NewTaskIsOwn ==
    ASSUME NEW n, OwnItem(n), NEW reader \in {"telrad", "baicells", "snmp"},
           reader = "baicells" => n.model = "baicells"
    PROVE  /\ TaskIsOwn(Task(n, reader))
           /\ reader = "telrad" => TaskIsOwn([Task(n, reader) EXCEPT !.got.model = "12300"])
<1> DEFINE t == Task(n, reader)
           k == [t EXCEPT !.got.model = "12300"]
<1>1. /\ DOMAIN t = {"at", "of", "reader", "left", "got", "banner", "from"}
      /\ t.of = n /\ t.reader = reader /\ t.left = Requests(reader) /\ t.got = Bare
      /\ t.banner = None /\ t.from = {}
  BY DEF Task
<1>2. /\ reader = "snmp" => Requests(reader) = SnmpFirst
      /\ reader # "snmp" => Requests(reader) \in Seq(SUBSET Read)
      /\ reader \in Readers
  BY RequestsType DEF Readers, Requests
<1>3. IsFiniteSet({})
  BY FS_EmptySet
<1> HIDE DEF t
<1>4. TaskIsOwn(t)
  BY <1>1, <1>2, <1>3, BareIsEmpty DEF TaskIsOwn, FromTorn, InPlace, ByReader, ModelFits
<1>5. ASSUME reader = "telrad" PROVE TaskIsOwn(k)
  <2>1. /\ DOMAIN k = DOMAIN t /\ k.of = n /\ k.reader = reader /\ k.left = Requests(reader)
        /\ k.banner = None /\ k.from = {} /\ k.got = [Bare EXCEPT !.model = "12300"]
    BY <1>1
  <2>2. DOMAIN k.got = Fields /\ k.got.model = "12300" /\ \A f \in Read : k.got[f] = Absent
    BY <2>1 DEF Bare, Fields, Read
  <2>3. Its(k.got) = {}
    BY <2>2 DEF Its, Missing
  <2> HIDE DEF k
  <2> QED
    BY <1>1, <1>2, <1>3, <1>5, <2>1, <2>2, <2>3
       DEF TaskIsOwn, FromTorn, InPlace, ByReader, ModelFits
<1> QED
  BY <1>4, <1>5 DEF t

\* What starts tasks leaves all else, but for the items it changes.
LEMMA AsksKeep ==
    ASSUME IInv, UNCHANGED <<todo, mishaps>>, IsFiniteSet(inv'),
           \A n \in inv' : OwnItem(n),
           \A t \in tasks' : TaskIsOwn(t) /\ (pc' = "baicells" => t.reader = "baicells")
    PROVE  IInv'
<1>1. \A n : OwnItem(n) => OwnItem(n)'
  BY ItemStays
<1>2. \A t : TaskIsOwn(t) => TaskIsOwn(t)'
  BY TaskStays
<1> QED
  BY <1>1, <1>2 DEF IInv, ItemsAreOwn, ResultsAreOwn, TasksAreOwn

LEMMA AskTelradsKeeps ==
    ASSUME IInv, AskTelrads
    PROVE  IInv'
<1>1. UNCHANGED <<inv, todo, mishaps>> /\ pc' = "telrad"
  BY DEF AskTelrads
<1>2. ASSUME NEW t \in tasks' PROVE TaskIsOwn(t)
  <2>1. PICK n \in inv : t = [Task(n, "telrad") EXCEPT !.got.model = "12300"]
    BY DEF AskTelrads
  <2>2. OwnItem(n)
    BY DEF IInv, ItemsAreOwn
  <2> QED
    BY <2>1, <2>2, NewTaskIsOwn
<1> QED
  BY <1>1, <1>2, AsksKeep DEF IInv, ItemsAreOwn

\* The model that is noted in an item is right.
LEMMA NotedIsOwn ==
    ASSUME NEW n, OwnItem(n), IsBaicells(n)
    PROVE  OwnItem(Set(n, {"model"}, "baicells"))
<1> DEFINE i == Set(n, {"model"}, "baicells")
<1>1. DOMAIN i = Fields /\ Its(i) = Its(n) /\ Ids(i) = Ids(n) /\ i.model = "baicells"
  BY SetModel DEF OwnItem
<1> HIDE DEF i
<1>2. CASE \A d \in Its(n) : Torn(d)
  BY <1>1, <1>2 DEF i, OwnItem
<1>3. CASE OfOneDevice(n)
  <2>1. \A d, e \in Its(i) : d = e
    BY <1>1, <1>3 DEF OfOneDevice
  <2>2. CASE n.model = "baicells"
    BY <1>1, <1>3, <2>2 DEF OfOneDevice, RightModel, OwnItem, i
  <2>3. CASE \E f \in {"imei", "mac"} : n[f] \notin Missing /\ Kind[n[f]] = "baicells"
    <3>1. PICK d \in Its(n) : Kind[d] = "baicells"
      BY <2>3 DEF Its, Read
    <3>2. \A e \in Ids(i) : Kind[e] = "baicells"
      BY <1>1, <1>3, <3>1, IdsAreIts DEF OfOneDevice
    <3> QED
      BY <1>1, <2>1, <3>2 DEF OfOneDevice, RightModel, OwnItem, i
  <2> QED
    BY <2>2, <2>3 DEF IsBaicells
<1> QED
  BY <1>2, <1>3 DEF OwnItem

LEMMA AskBaicellsKeeps ==
    ASSUME IInv, AskBaicells
    PROVE  IInv'
<1>1. UNCHANGED <<todo, mishaps>>
  BY DEF AskBaicells
<1>2. PICK asked : asked = {n \in inv : IsBaicells(n)}
  OBVIOUS
<1>3. PICK noted : noted = {Set(n, {"model"}, "baicells") : n \in asked}
  OBVIOUS
<1>4. inv' = (inv \ asked) \cup noted /\ tasks' = {Task(n, "baicells") : n \in noted}
  BY <1>2, <1>3 DEF AskBaicells
<1>5. \A n \in inv : OwnItem(n)
  BY DEF IInv, ItemsAreOwn
<1>6. ASSUME NEW i \in noted PROVE OwnItem(i) /\ i.model = "baicells"
  <2>1. PICK n \in inv : IsBaicells(n) /\ i = Set(n, {"model"}, "baicells")
    BY <1>2, <1>3
  <2>2. OwnItem(n)
    BY <1>5
  <2> QED
    BY <2>1, <2>2, NotedIsOwn, SetModel DEF OwnItem
<1>7. IsFiniteSet(inv')
  <2>1. IsFiniteSet(inv) /\ IsFiniteSet(asked)
    BY <1>2, FS_Subset DEF IInv
  <2>2. IsFiniteSet(noted)
    <3> DEFINE f == [n \in asked |-> Set(n, {"model"}, "baicells")]
    <3>1. noted = {f[n] : n \in asked}
      BY <1>3
    <3>2. f \in Surjection(asked, noted)
      BY <3>1 DEF Surjection
    <3> QED
      BY <2>1, <3>2, FS_Surjection
  <2>3. IsFiniteSet(inv \ asked)
    BY <2>1, FS_Difference
  <2> QED
    BY <1>4, <2>2, <2>3, FS_Union
<1>8. \A n \in inv' : OwnItem(n)
  BY <1>4, <1>5, <1>6
<1>9. ASSUME NEW t \in tasks' PROVE TaskIsOwn(t) /\ t.reader = "baicells"
  <2>1. PICK n \in noted : t = Task(n, "baicells")
    BY <1>4
  <2>2. Task(n, "baicells").reader = "baicells"
    BY DEF Task
  <2> QED
    BY <1>6, <2>1, <2>2, NewTaskIsOwn
<1> QED
  BY <1>1, <1>7, <1>8, <1>9, AsksKeep

LEMMA AskSnmpKeeps ==
    ASSUME IInv, AskSnmp
    PROVE  IInv'
<1>1. UNCHANGED <<inv, todo, mishaps>> /\ pc' = "snmp"
  BY DEF AskSnmp
<1>2. ASSUME NEW t \in tasks' PROVE TaskIsOwn(t)
  <2>1. PICK n \in inv : t = Task(n, "snmp")
    BY DEF AskSnmp
  <2>2. OwnItem(n)
    BY DEF IInv, ItemsAreOwn
  <2> QED
    BY <2>1, <2>2, NewTaskIsOwn
<1> QED
  BY <1>1, <1>2, AsksKeep DEF IInv, ItemsAreOwn

\* What a read has in the end.
LEMMA GotIsOwn ==
    ASSUME NEW t, TaskIsOwn(t)
    PROVE  OwnItem(t.got)
<1>1. CASE t.got = t.of
  BY <1>1 DEF TaskIsOwn
<1>2. CASE Its(t.got) \subseteq t.from /\ ModelFits(t)
  <2>1. DOMAIN t.got = Fields
    BY DEF TaskIsOwn
  <2>2. CASE \E d \in Its(t.got) : ~Torn(d)
    <3>1. PICK d \in Its(t.got) : ~Torn(d)
      BY <2>2
    <3>2. \A e \in t.from : e = d
      BY <1>2, <3>1 DEF TaskIsOwn, FromTorn
    <3>3. Its(t.got) = {d} /\ Ids(t.got) \subseteq {d}
      BY <1>2, <3>1, <3>2, IdsAreIts
    <3>4. RightModel(t.got)
      BY <1>2, <3>1, <3>3 DEF ModelFits, RightModel
    <3> QED
      BY <2>1, <3>3, <3>4 DEF OwnItem, OfOneDevice
  <2> QED
    BY <2>1, <2>2 DEF OwnItem
<1> QED
  BY <1>1, <1>2 DEF TaskIsOwn

LEMMA BaicellsGotIsOwn ==
    ASSUME NEW t, TaskIsOwn(t), t.reader = "baicells"
    PROVE  OwnItem(Set(t.got, {"model"}, "baicells"))
<1> DEFINE i == Set(t.got, {"model"}, "baicells")
<1>1. OwnItem(t.got) /\ DOMAIN t.got = Fields
  BY GotIsOwn DEF TaskIsOwn
<1>2. DOMAIN i = Fields /\ Its(i) = Its(t.got) /\ Ids(i) = Ids(t.got) /\ i.model = "baicells"
  BY <1>1, SetModel
<1> HIDE DEF i
<1>3. CASE \A d \in Its(t.got) : Torn(d)
  BY <1>2, <1>3 DEF i, OwnItem
<1>4. CASE OfOneDevice(t.got)
  <2>1. \A d, e \in Its(i) : d = e
    BY <1>2, <1>4 DEF OfOneDevice
  <2>2. RightModel(i)
    <3>1. CASE t.got = t.of
      <4>1. t.got.model = "baicells"
        BY <3>1 DEF TaskIsOwn, ByReader
      <4> QED
        BY <1>2, <1>4, <4>1 DEF OfOneDevice, RightModel
    <3>2. CASE Its(t.got) \subseteq t.from
      <4>1. \A d \in Ids(i) : Kind[d] = "baicells"
        BY <1>2, <3>2, IdsAreIts DEF TaskIsOwn, ByReader
      <4> QED
        BY <1>2, <4>1 DEF RightModel
    <3> QED
      BY <3>1, <3>2 DEF TaskIsOwn
  <2> QED
    BY <1>2, <2>1, <2>2 DEF OwnItem, OfOneDevice, i
<1> QED
  BY <1>1, <1>3, <1>4 DEF OwnItem

LEMMA GatheredKeeps ==
    ASSUME IInv, Gathered
    PROVE  IInv'
<1>1. UNCHANGED <<pc, inv, mishaps>> /\ tasks' = {}
  BY DEF Gathered
<1>2. ASSUME NEW r \in todo' PROVE DOMAIN r = {"item", "own"} /\ OwnItem(r.item)
  <2>1. PICK t \in tasks :
          r = [item |-> IF pc = "baicells" THEN Set(t.got, {"model"}, "baicells") ELSE t.got,
               own |-> t.got = t.of]
    BY DEF Gathered
  <2>2. TaskIsOwn(t) /\ (pc = "baicells" => t.reader = "baicells")
    BY DEF IInv, TasksAreOwn
  <2>3. CASE pc = "baicells"
    BY <2>1, <2>2, <2>3, BaicellsGotIsOwn
  <2>4. CASE pc # "baicells"
    BY <2>1, <2>2, <2>4, GotIsOwn
  <2> QED
    BY <2>3, <2>4
<1>3. \A n : OwnItem(n) => OwnItem(n)'
  BY <1>1, ItemStays
<1>4. ResultsAreOwn'
  BY <1>2, <1>3 DEF ResultsAreOwn
<1> QED
  BY <1>1, <1>3, <1>4 DEF IInv, ItemsAreOwn, TasksAreOwn

-----------------------------------------------------------------------------
(* The results are added. *)

\* Of each field the last item that has it has the last word.
LEMMA MergedField ==
    ASSUME NEW items, NEW n \in Nat \ {0}, DOMAIN items = 1..n,
           \A k \in 1..n : DOMAIN items[k] = Fields, NEW f \in Fields
    PROVE  \/ Merged(items)[f] = Absent /\ \A k \in 1..n : items[k][f] = Absent
           \/ \E k \in 1..n : /\ Merged(items)[f] = items[k][f] /\ items[k][f] # Absent
                             /\ \A j \in 1..n : items[j][f] # Absent => k >= j
<1> DEFINE has == {k \in DOMAIN items : items[k][f] # Absent}
<1>1. DOMAIN items[1] = Fields
  OBVIOUS
<1>2. Merged(items)[f] = IF has = {} THEN Absent ELSE items[Max(has)][f]
  BY <1>1 DEF Merged
<1>3. has \in SUBSET (1..n)
  OBVIOUS
<1>4. \A k \in 1..n : k \in has <=> items[k][f] # Absent
  OBVIOUS
<1> HIDE DEF has
<1>5. has # {} => Max(has) \in has /\ \A j \in has : Max(has) >= j
  BY <1>3, MaxIsThere
<1> QED
  BY <1>2, <1>3, <1>4, <1>5

\* Merging makes nothing up.
LEMMA MergedFromItems ==
    ASSUME NEW items, NEW n \in Nat \ {0}, DOMAIN items = 1..n,
           \A k \in 1..n : DOMAIN items[k] = Fields
    PROVE  /\ DOMAIN Merged(items) = Fields
           /\ \A f \in Fields : \/ Merged(items)[f] = Absent
                                \/ \E k \in 1..n : Merged(items)[f] = items[k][f]
<1>1. DOMAIN Merged(items) = Fields
  <2>1. DOMAIN items[1] = Fields
    OBVIOUS
  <2> QED
    BY <2>1 DEF Merged
<1> QED
  BY <1>1, MergedField

\* An item that shares an identifier with a torn one knows only of torn devices.
LEMMA SharesTorn ==
    ASSUME NEW i, OwnItem(i), NEW j, Same(i, j), \A d \in Its(j) : Torn(d)
    PROVE  \A d \in Its(i) : Torn(d)
<1>1. PICK k : k \in Keys(i) /\ k \in Keys(j)
  BY DEF Same
<1>2. k[2] \in Its(i) /\ k[2] \in Its(j)
  BY <1>1, IdsAreIts DEF Ids
<1> QED
  BY <1>2, OwnFromOne

\* Items one to n are r or share an identifier with it.
Joined(items, n, r) ==
    /\ n \in Nat \ {0} /\ DOMAIN items = 1..n
    /\ OwnItem(r) /\ Keys(r) # {}
    /\ \A k \in 1..n : OwnItem(items[k]) /\ (items[k] = r \/ Same(items[k], r))

\* Items that share an identifier with an item that knows of a device that is not torn
\* know of no other; so do all if one of them knows of it.
LEMMA AllOfOne ==
    ASSUME NEW items, NEW n, NEW r, Joined(items, n, r),
           NEW d, ~Torn(d), d \in Its(r) \/ \E k \in 1..n : d \in Its(items[k])
    PROVE  \A k \in 1..n : Its(items[k]) = {d} /\ Ids(items[k]) = {d}
<1> USE DEF Joined
<1>1. PICK e \in Its(r) : ~Torn(e)
  BY SharesTorn
<1>2. Its(r) = {e} /\ Ids(r) = {e}
  <2>1. Its(r) = {e}
    BY <1>1, OwnFromOne
  <2>2. Ids(r) # {}
    BY DEF Ids
  <2> QED
    BY <2>1, <2>2, IdsAreIts
<1>3. ASSUME NEW k \in 1..n PROVE Its(items[k]) = {e} /\ Ids(items[k]) = {e}
  <2>1. e \in Ids(items[k])
    <3>1. CASE items[k] = r
      BY <1>2, <3>1
    <3>2. CASE Same(items[k], r)
      <4>1. PICK key : key \in Keys(items[k]) /\ key \in Keys(r)
        BY <3>2 DEF Same
      <4>2. key[2] \in Ids(items[k]) /\ key[2] \in Ids(r)
        BY <4>1 DEF Ids
      <4> QED
        BY <1>2, <4>2
    <3> QED
      BY <3>1, <3>2
  <2>2. e \in Its(items[k])
    BY <2>1, IdsAreIts
  <2>3. Its(items[k]) = {e}
    BY <1>1, <2>2, OwnFromOne
  <2> QED
    BY <2>1, <2>3, IdsAreIts
<1>4. d = e
  BY <1>2, <1>3
<1> QED
  BY <1>3, <1>4

LEMMA MergedIts ==
    ASSUME NEW items, NEW n, NEW r, Joined(items, n, r), NEW d \in Its(Merged(items))
    PROVE  \E k \in 1..n : d \in Its(items[k])
<1> DEFINE i == Merged(items)
<1>1. \A f \in Fields : i[f] = Absent \/ \E k \in 1..n : i[f] = items[k][f]
  BY MergedFromItems DEF Joined, OwnItem
<1> HIDE DEF i
<1>2. PICK f \in Read : d = i[f] /\ d \notin Missing
  BY DEF Its, i
<1>3. f \in Fields /\ d # Absent
  BY <1>2 DEF Fields, Missing
<1>4. PICK k \in 1..n : d = items[k][f]
  BY <1>1, <1>2, <1>3
<1> QED
  BY <1>2, <1>4 DEF Its

\* Items that share identifiers with one of them make an item of one device, or of
\* torn ones.
LEMMA MergedIsOwn ==
    ASSUME NEW items, NEW n, NEW r, Joined(items, n, r)
    PROVE  OwnItem(Merged(items))
<1> DEFINE i == Merged(items)
<1> USE DEF Joined
<1>1. /\ DOMAIN i = Fields
      /\ \A f \in Fields : i[f] = Absent \/ \E k \in 1..n : i[f] = items[k][f]
  BY MergedFromItems DEF OwnItem
<1>2. \A d \in Its(i) : \E k \in 1..n : d \in Its(items[k])
  <2> HIDE DEF Joined
  <2> QED
    BY MergedIts
<1> HIDE DEF i
<1>3. CASE \A d \in Its(r) : Torn(d)
  <2>1. \A k \in 1..n : \A d \in Its(items[k]) : Torn(d)
    BY <1>3, SharesTorn
  <2>2. \A d \in Its(i) : Torn(d)
    BY <1>2, <2>1
  <2> QED
    BY <1>1, <2>2 DEF OwnItem, i
<1>4. CASE \E d \in Its(r) : ~Torn(d)
  <2>1. PICK d \in Its(r) : ~Torn(d)
    BY <1>4
  <2>2. \A k \in 1..n : Its(items[k]) = {d} /\ Ids(items[k]) = {d}
    <3> HIDE DEF Joined
    <3> QED
      BY <2>1, AllOfOne
  <2>3. ASSUME NEW k \in 1..n PROVE RightModel(items[k])
    BY <2>1, <2>2, OwnFromOne
  <2>4. Its(i) \subseteq {d} /\ Ids(i) \subseteq {d}
    BY <1>2, <2>2, IdsAreIts
  <2>5. RightModel(i)
    <3>1. CASE i.model = Absent
      BY <3>1 DEF RightModel
    <3>2. CASE i.model # Absent
      <4>1. "model" \in Fields
        BY DEF Fields
      <4>2. PICK k \in 1..n : i.model = items[k].model
        BY <1>1, <3>2, <4>1
      <4>3. RightModel(items[k]) /\ d \in Ids(items[k])
        BY <2>2, <2>3
      <4> QED
        BY <2>4, <4>2, <4>3 DEF RightModel
    <3> QED
      BY <3>1, <3>2
  <2> QED
    BY <1>1, <2>4, <2>5 DEF OwnItem, OfOneDevice, i
<1> QED
  BY <1>3, <1>4

LEMMA AllButFirst ==
    ASSUME NEW S, NEW s \in Seq(S), s # <<>>
    PROVE  /\ SubSeq(s, 2, Len(s)) \in Seq(S)
           /\ Len(SubSeq(s, 2, Len(s))) = Len(s) - 1
           /\ \A j \in 2..Len(s) : SubSeq(s, 2, Len(s))[j - 1] = s[j]
<1>1. Len(s) \in Nat /\ Len(s) > 0
  OBVIOUS
<1>2. \A j \in 2..Len(s) : s[j] \in S
  BY <1>1
<1>3. /\ SubSeq(s, 2, Len(s)) \in Seq(S)
      /\ Len(SubSeq(s, 2, Len(s))) = IF 2 <= Len(s) THEN Len(s) - 2 + 1 ELSE 0
      /\ \A i \in 1..(Len(s) - 2 + 1) : SubSeq(s, 2, Len(s))[i] = s[2 + i - 1]
  BY <1>1, <1>2, SubSeqProperties
<1>4. ASSUME NEW j \in 2..Len(s) PROVE SubSeq(s, 2, Len(s))[j - 1] = s[j]
  <2>1. j - 1 \in 1..(Len(s) - 2 + 1) /\ 2 + (j - 1) - 1 = j
    BY <1>1
  <2> QED
    BY <1>3, <2>1
<1>5. Len(SubSeq(s, 2, Len(s))) = Len(s) - 1
  <2>1. PICK n \in Nat : n = Len(s) /\ n > 0
    BY <1>1
  <2>2. Len(SubSeq(s, 2, n)) = IF 2 <= n THEN n - 2 + 1 ELSE 0
    BY <1>3, <2>1
  <2>3. (IF 2 <= n THEN n - 2 + 1 ELSE 0) = n - 1
    BY <2>1
  <2> QED
    BY <2>1, <2>2, <2>3
<1>6. SubSeq(s, 2, Len(s)) \in Seq(S)
  BY <1>3
<1> QED
  BY <1>4, <1>5, <1>6

LEMMA AfterTwo ==
    ASSUME NEW S, NEW a \in S, NEW b \in S, NEW s \in Seq(S)
    PROVE  /\ <<a, b>> \o s \in Seq(S) /\ Len(<<a, b>> \o s) = 2 + Len(s)
           /\ (<<a, b>> \o s)[1] = a /\ (<<a, b>> \o s)[2] = b
           /\ \A j \in 1..Len(s) : (<<a, b>> \o s)[2 + j] = s[j]
<1>1. <<a, b>> \in Seq(S) /\ Len(<<a, b>>) = 2
  OBVIOUS
<1>2. <<a, b>> \o s \in Seq(S)
  BY <1>1
<1>3. Len(<<a, b>> \o s) = 2 + Len(s)
  BY <1>1
<1>4. (<<a, b>> \o s)[1] = a /\ (<<a, b>> \o s)[2] = b
  BY <1>1
<1>5. ASSUME NEW j \in 1..Len(s) PROVE (<<a, b>> \o s)[2 + j] = s[j]
  <2> DEFINE two == <<a, b>>
  <2>1. two \in Seq(S) /\ Len(two) = 2
    BY <1>1
  <2> HIDE DEF two
  <2>2. 2 + j \in 1..(Len(two) + Len(s)) /\ 2 + j > Len(two) /\ (2 + j) - Len(two) = j
    BY <2>1
  <2>3. \A i \in 1..Len(two) + Len(s) :
            (two \o s)[i] = IF i <= Len(two) THEN two[i] ELSE s[i - Len(two)]
    BY <2>1, ConcatProperties
  <2>4. (two \o s)[2 + j] = s[(2 + j) - Len(two)]
    <3>1. Len(two) \in Nat /\ ~(2 + j <= Len(two))
      BY <2>1, <2>2
    <3> QED
      BY <2>2, <2>3, <3>1
  <2> QED
    BY <2>2, <2>4 DEF two
<1> QED
  BY <1>2, <1>3, <1>4, <1>5

LEMMA PermutationsType ==
    ASSUME NEW S, IsFiniteSet(S), NEW s \in SetToAllKPermutations(S)
    PROVE  s \in Seq(S)
<1>1. PICK T \in SUBSET S : s \in SetToSeqs(T)
  BY DEF SetToAllKPermutations
<1>2. s \in [1..Cardinality(T) -> T]
  BY <1>1 DEF SetToSeqs
<1>3. Cardinality(T) \in Nat
  BY FS_Subset, FS_CardinalityType
<1> QED
  BY <1>2, <1>3

\* What Merge makes of the inventory and the results.
LEMMA MergeJoins ==
    ASSUME IInv, NEW r \in todo, Merge(r)
    PROVE  \E s, items, n :
               /\ Joined(items, n, r.item)
               /\ \A i \in ToSet(s) : \E k \in 1..n : i = items[k]
               /\ inv' = (inv \ ToSet(s)) \cup {Merged(items)}
               /\ \A q \in todo' : \E p \in todo : q = p \/ q = [p EXCEPT !.item = Merged(items)]
               /\ \A k \in 1..n : items[k] \in inv \cup {r.item}
               /\ \E k \in 1..n : items[k] \in inv
               /\ \E k \in 1..n : items[k] = r.item
               /\ \A i \in Equal(r) \ ToSet(s) : ~Same(i, Merged(items))
               /\ \A q \in todo \ {r} : ~q.own => q \in todo'
<1>1. \A i \in inv : OwnItem(i)
  BY DEF IInv, ItemsAreOwn
<1>2. OwnItem(r.item)
  BY DEF IInv, ResultsAreOwn
<1>3. PICK s \in SetToAllKPermutations(Equal(r)) \ {<<>>} :
        LET mine(k) == Merged(<<s[1], r.item>> \o SubSeq(s, 2, k))
        IN /\ \A i \in Equal(r) \ ToSet(s) : ~Same(i, mine(Len(s)))
           /\ inv' = (inv \ ToSet(s)) \cup {mine(Len(s))}
           /\ todo' = {IF q.own /\ q.item = s[1] THEN [q EXCEPT !.item = mine(Len(s))] ELSE q :
                         q \in todo \ {r}}
  BY DEF Merge
<1> DEFINE rest == SubSeq(s, 2, Len(s))
           items == <<s[1], r.item>> \o rest
           mine == Merged(items)
<1>4. s \in Seq(Equal(r)) /\ s # <<>>
  <2>1. IsFiniteSet(Equal(r))
    BY FS_Subset DEF Equal, IInv
  <2> QED
    BY <1>3, <2>1, PermutationsType
<1>5. /\ \A i \in Equal(r) \ ToSet(s) : ~Same(i, mine)
      /\ inv' = (inv \ ToSet(s)) \cup {mine}
      /\ todo' = {IF q.own /\ q.item = s[1] THEN [q EXCEPT !.item = mine] ELSE q :
                    q \in todo \ {r}}
  BY <1>3
<1> DEFINE E == Equal(r) \cup {r.item}
<1>6. s[1] \in Equal(r) /\ Len(s) \in Nat /\ Len(s) > 0
  BY <1>4
<1>7. /\ rest \in Seq(Equal(r)) /\ Len(rest) = Len(s) - 1
      /\ \A j \in 2..Len(s) : rest[j - 1] = s[j]
  BY <1>4, AllButFirst
<1>8. rest \in Seq(E)
  BY <1>7
<1> HIDE DEF rest, E
<1>9. /\ items \in Seq(E) /\ Len(items) = Len(s) + 1
      /\ items[1] = s[1] /\ items[2] = r.item
      /\ \A j \in 1..Len(rest) : items[2 + j] = rest[j]
  <2>1. r.item \in E /\ s[1] \in E
    BY <1>6 DEF E
  <2>2. /\ items \in Seq(E) /\ Len(items) = 2 + Len(rest)
        /\ items[1] = s[1] /\ items[2] = r.item
        /\ \A j \in 1..Len(rest) : items[2 + j] = rest[j]
    BY <1>8, <2>1, AfterTwo
  <2> QED
    BY <1>6, <1>7, <2>2
<1>10. Keys(r.item) # {}
  BY <1>6 DEF Equal, Same
<1> HIDE DEF items
<1>11. Joined(items, Len(items), r.item)
  <2>1. DOMAIN items = 1..Len(items) /\ Len(items) \in Nat \ {0}
    BY <1>6, <1>9
  <2>2. ASSUME NEW k \in 1..Len(items)
        PROVE  OwnItem(items[k]) /\ (items[k] = r.item \/ Same(items[k], r.item))
    <3>1. items[k] \in E
      BY <1>9
    <3> QED
      BY <1>1, <1>2, <3>1 DEF Equal, E
  <2> QED
    BY <1>2, <1>10, <2>1, <2>2 DEF Joined
<1>12. ASSUME NEW i \in ToSet(s) PROVE \E k \in 1..Len(items) : i = items[k]
  <2>1. PICK j \in 1..Len(s) : i = s[j]
    BY <1>4 DEF ToSet
  <2>2. CASE j = 1
    <3>1. 1 \in 1..Len(items)
      BY <1>6, <1>9
    <3> QED
      BY <1>9, <2>1, <2>2, <3>1
  <2>3. CASE j # 1
    <3>1. j - 1 \in 1..Len(rest) /\ j \in 2..Len(s) /\ j + 1 \in 1..Len(items)
          /\ 2 + (j - 1) = j + 1
      BY <1>6, <1>7, <1>9, <2>1, <2>3
    <3>2. i = items[j + 1]
      BY <1>7, <1>9, <2>1, <3>1
    <3> QED
      BY <3>1, <3>2
  <2> QED
    BY <2>2, <2>3
<1>13. \A k \in 1..Len(items) : items[k] \in inv \cup {r.item}
  <2>1. \A k \in 1..Len(items) : items[k] \in E
    BY <1>9
  <2> QED
    BY <2>1 DEF E, Equal
<1>14. (\E k \in 1..Len(items) : items[k] \in inv) /\ \E k \in 1..Len(items) : items[k] = r.item
  <2>1. 1 \in 1..Len(items) /\ 2 \in 1..Len(items)
    BY <1>6, <1>9
  <2>2. items[1] \in inv
    BY <1>6, <1>9 DEF Equal
  <2> QED
    BY <1>9, <2>1, <2>2
<1> HIDE DEF mine
<1>15. \A q \in todo' : \E p \in todo : q = p \/ q = [p EXCEPT !.item = mine]
  BY <1>5
<1>16. ASSUME NEW q \in todo \ {r}, ~q.own PROVE q \in todo'
  BY <1>5, <1>16
<1> QED
  BY <1>5, <1>11, <1>12, <1>13, <1>14, <1>15, <1>16 DEF mine

LEMMA MergeKeeps ==
    ASSUME IInv, NEW r \in todo, Merge(r), UNCHANGED <<pc, tasks, mishaps>>
    PROVE  IInv'
<1>1. \A i \in inv : OwnItem(i)
  BY DEF IInv, ItemsAreOwn
<1>2. \A q \in todo : DOMAIN q = {"item", "own"} /\ OwnItem(q.item)
  BY DEF IInv, ResultsAreOwn
<1>3. PICK s, items, n :
        /\ Joined(items, n, r.item)
        /\ inv' = (inv \ ToSet(s)) \cup {Merged(items)}
        /\ \A q \in todo' : \E p \in todo : q = p \/ q = [p EXCEPT !.item = Merged(items)]
  BY MergeJoins
<1> DEFINE mine == Merged(items)
<1>4. OwnItem(mine)
  BY <1>3, MergedIsOwn
<1> HIDE DEF mine
<1>5. IsFiniteSet(inv')
  <2>1. IsFiniteSet(inv \ ToSet(s)) /\ IsFiniteSet({mine})
    BY FS_Difference, FS_Singleton DEF IInv
  <2> QED
    BY <1>3, <2>1, FS_Union DEF mine
<1>6. \A i : OwnItem(i) => OwnItem(i)'
  BY ItemStays
<1>7. ItemsAreOwn'
  BY <1>1, <1>3, <1>4, <1>6 DEF ItemsAreOwn, mine
<1>8. ResultsAreOwn'
  <2> SUFFICES ASSUME NEW q \in todo'
               PROVE  DOMAIN q = {"item", "own"} /\ OwnItem(q.item)
    BY <1>6 DEF ResultsAreOwn
  <2>1. PICK p \in todo : q = p \/ q = [p EXCEPT !.item = mine]
    BY <1>3 DEF mine
  <2>2. DOMAIN p = {"item", "own"} /\ OwnItem(p.item)
    BY <1>2
  <2> QED
    BY <1>4, <2>1, <2>2
<1>9. TasksAreOwn'
  BY TaskStays DEF IInv, TasksAreOwn
<1> QED
  BY <1>5, <1>7, <1>8, <1>9 DEF IInv

LEMMA AddKeeps ==
    ASSUME IInv, Add
    PROVE  IInv'
<1>1. UNCHANGED <<pc, tasks, mishaps>>
  BY DEF Add
<1>2. PICK r \in todo : AddNothing(r) \/ AddNew(r) \/ Merge(r)
  BY DEF Add
<1>3. ASSUME todo' \subseteq todo, inv' = inv \/ inv' = inv \cup {r.item} PROVE IInv'
  <2>1. OwnItem(r.item)
    BY DEF IInv, ResultsAreOwn
  <2>2. \A i : OwnItem(i) => OwnItem(i)'
    BY <1>1, ItemStays
  <2>3. IsFiniteSet(inv')
    BY <1>3, FS_AddElement DEF IInv
  <2>4. ItemsAreOwn' /\ ResultsAreOwn'
    BY <1>3, <2>1, <2>2 DEF IInv, ItemsAreOwn, ResultsAreOwn
  <2>5. TasksAreOwn'
    BY <1>1, TaskStays DEF IInv, TasksAreOwn
  <2> QED
    BY <2>3, <2>4, <2>5 DEF IInv
<1>4. CASE AddNothing(r)
  BY <1>3, <1>4 DEF AddNothing
<1>5. CASE AddNew(r)
  BY <1>3, <1>5 DEF AddNew
<1>6. CASE Merge(r)
  BY <1>1, <1>6, MergeKeeps
<1> QED
  BY <1>2, <1>4, <1>5, <1>6

-----------------------------------------------------------------------------
(* The invariant is inductive. *)

LEMMA StartIsOwn == Init => IInv
<1> SUFFICES ASSUME Init PROVE IInv
  OBVIOUS
<1>1. inv \in Known /\ tasks = {} /\ todo = {}
  BY DEF Init
<1>2. IsFiniteSet(inv)
  BY <1>1, KnownAssumption
<1>3. ASSUME NEW i \in inv PROVE OwnItem(i)
  <2>1. DOMAIN i = Fields
    BY <1>1, KnownAssumption DEF Fields
  <2>2. PICK d \in Devices : /\ \A f \in Read : i[f] \in {d, Absent, None}
                             /\ i.model \in {Kind[d], Absent}
    BY <1>1, KnownAssumption
  <2>3. Its(i) \subseteq {d} /\ Ids(i) \subseteq {d}
    <3>1. Its(i) \subseteq {d}
      BY <2>2 DEF Its, Missing
    <3> QED
      BY <3>1, IdsAreIts
  <2> QED
    BY <2>1, <2>2, <2>3 DEF OwnItem, OfOneDevice, RightModel
<1> QED
  BY <1>1, <1>2, <1>3 DEF IInv, ItemsAreOwn, ResultsAreOwn, TasksAreOwn

LEMMA StepKeepsOwn == IInv /\ [Next]_vars => IInv'
<1> SUFFICES ASSUME IInv, [Next]_vars PROVE IInv'
  OBVIOUS
<1>1. ASSUME UNCHANGED <<inv, tasks, todo>>, mishaps \subseteq mishaps',
             pc' = pc \/ (tasks = {} /\ pc' = "end")
      PROVE  IInv'
  <2>1. ItemsAreOwn' /\ ResultsAreOwn'
    BY <1>1, ItemStays DEF IInv, ItemsAreOwn, ResultsAreOwn
  <2>2. TasksAreOwn'
    BY <1>1, TaskStays DEF IInv, TasksAreOwn
  <2> QED
    BY <1>1, <2>1, <2>2 DEF IInv
<1>2. CASE Ask
  <2>1. CASE End
    BY <1>1, <2>1 DEF End, Idle
  <2> QED
    BY <1>2, <2>1, AskTelradsKeeps, AskBaicellsKeeps, AskSnmpKeeps DEF Ask
<1>3. ASSUME NEW t \in tasks, Reply(t) PROVE IInv'
  BY <1>3, GetValueKeeps, NoValueKeeps, GetPartOfPageKeeps, GetUnusableIdentifierKeeps,
     GetRaisesKeeps, NoSessionKeeps, GetBannerKeeps, GetTestKeeps DEF Reply
<1>4. CASE Gathered
  BY <1>4, GatheredKeeps
<1>5. CASE Add
  BY <1>5, AddKeeps
<1>6. ASSUME NEW a \in Addresses, NEW d \in Devices, Move(a, d) PROVE IInv'
  BY <1>1, <1>6 DEF Move
<1>7. CASE UNCHANGED vars
  BY <1>1, <1>7 DEF vars
<1> QED
  BY <1>2, <1>3, <1>4, <1>5, <1>6, <1>7 DEF Next

-----------------------------------------------------------------------------
(* The theorem. *)

\* However the requests fail, whatever they are answered, and whoever the addresses pass
\* to while the readers run, all an item of the inventory knows is of one device, and
\* its model is that device's, but for the two exceptions that OwnValues names.
THEOREM ItemsKnowTheirDevice == Spec => []OwnValues
<1>1. IInv => OwnValues
  <2> SUFFICES ASSUME IInv, NEW i \in inv
               PROVE  \/ Cardinality(Its(i)) <= 1 /\ RightModel(i)
                      \/ \E d \in Its(i) : Torn(d)
    BY DEF OwnValues, Its, Torn
  <2> QED
    BY OwnIsOwnValues DEF IInv, ItemsAreOwn
<1> QED
  BY StartIsOwn, StepKeepsOwn, <1>1, PTL DEF Spec

-----------------------------------------------------------------------------
(* The addresses. *)

LEMMA FieldsOfItems == "ip" \in Fields /\ "ip" \notin Read /\ "ip" # "model"
BY DEF Fields, Read

LEMMA SetPlaced ==
    ASSUME NEW i, DOMAIN i = Fields, Placed(i), NEW S, "ip" \notin S, NEW v
    PROVE  Placed(Set(i, S, v))
BY FieldsOfItems DEF Placed, Set

LEMMA AssignedPlaced ==
    ASSUME NEW i, DOMAIN i = Fields, Placed(i)
    PROVE  Placed(Assigned(i))
BY FieldsOfItems DEF Placed, Assigned

LEMMA BarePlaced == Placed(Bare)
BY DEF Placed, Bare, Missing

LEMMA MergedPlaced ==
    ASSUME NEW items, NEW n, NEW r, Joined(items, n, r), \A k \in 1..n : Placed(items[k])
    PROVE  Placed(Merged(items))
<1>1. Merged(items)["ip"] = Absent \/ \E k \in 1..n : Merged(items)["ip"] = items[k]["ip"]
  BY MergedFromItems, FieldsOfItems DEF Joined, OwnItem
<1> QED
  BY <1>1 DEF Placed, Missing

LEMMA PlacedStep ==
    ASSUME PlaceInv, NEW t \in tasks, NEW u, tasks' = (tasks \ {t}) \cup {u},
           u.at = t.at, u.of = t.of, Placed(u.got), UNCHANGED <<inv, todo>>
    PROVE  PlaceInv'
BY DEF PlaceInv, Placed

LEMMA GoesPlaced ==
    ASSUME IInv, PlaceInv, NEW t \in tasks, t.left # <<>>, NEW v, DOMAIN v = DOMAIN t,
           v.at = t.at, v.of = t.of, DOMAIN v.got = Fields, Placed(v.got), Goes(t, v),
           UNCHANGED <<inv, todo>>
    PROVE  PlaceInv'
<1> DEFINE g == IF t.reader = "baicells" /\ Tail(t.left) = <<>> THEN Assigned(v.got) ELSE v.got
           u == [v EXCEPT !.left = Tail(t.left), !.got = g]
<1>1. tasks' = (tasks \ {t}) \cup {u}
  BY DEF Goes
<1>2. Placed(g)
  BY AssignedPlaced
<1> HIDE DEF g
<1>3. u.at = t.at /\ u.of = t.of /\ u.got = g
  BY HasRead
<1> HIDE DEF u
<1> QED
  BY <1>1, <1>2, <1>3, PlacedStep

LEMMA ReplyPlaced ==
    ASSUME IInv, PlaceInv, NEW t \in tasks, Reply(t)
    PROVE  PlaceInv'
<1>1. t.left # <<>> /\ UNCHANGED <<inv, todo>>
  BY DEF Reply, GetValue, NoValue, GetPartOfPage, GetUnusableIdentifier, GetRaises, NoSession,
         GetBanner, GetTest, Asks, Running
<1>2. /\ DOMAIN t = {"at", "of", "reader", "left", "got", "banner", "from"}
      /\ DOMAIN t.got = Fields /\ Placed(t.got) /\ Placed(t.of)
  BY <1>1, HasRead DEF PlaceInv
<1>3. ASSUME NEW got, DOMAIN got = Fields, Placed(got), NEW from,
             Goes(t, [t EXCEPT !.got = got, !.from = from])
      PROVE  PlaceInv'
  <2> DEFINE v == [t EXCEPT !.got = got, !.from = from]
  <2>1. DOMAIN v = DOMAIN t /\ v.at = t.at /\ v.of = t.of /\ v.got = got
    BY <1>2
  <2> HIDE DEF v
  <2>2. Goes(t, v)
    BY <1>3 DEF v
  <2> QED
    BY <1>1, <1>3, <2>1, <2>2, GoesPlaced
<1>4. ASSUME NEW i, Placed(i), Ends(t, i) PROVE PlaceInv'
  <2> DEFINE u == [t EXCEPT !.left = <<>>, !.got = i]
  <2>1. tasks' = (tasks \ {t}) \cup {u}
    BY <1>4 DEF Ends
  <2>2. u.at = t.at /\ u.of = t.of /\ u.got = i
    BY <1>2
  <2> HIDE DEF u
  <2> QED
    BY <1>1, <1>4, <2>1, <2>2, PlacedStep
<1>5. ASSUME Goes(t, t) PROVE PlaceInv'
  BY <1>1, <1>2, <1>5, GoesPlaced
<1>6. ASSUME t.reader # "snmp", NEW S, S \subseteq Head(t.left), NEW v
      PROVE  DOMAIN Set(t.got, S, v) = Fields /\ Placed(Set(t.got, S, v))
  <2>1. "ip" \notin S
    BY <1>1, <1>6, AskedForValues, FieldsOfItems
  <2> QED
    BY <1>1, <1>2, <1>6, <2>1, SetPlaced, AnswerIts
<1>7. CASE GetValue(t)
  <2>1. /\ t.reader # "snmp"
        /\ Goes(t, [t EXCEPT !.got = Set(t.got, Head(t.left), holder[t.at]), !.from = Who(t)])
    BY <1>7 DEF GetValue, Asks
  <2> QED
    BY <1>3, <1>6, <2>1
<1>8. CASE NoValue(t)
  BY <1>4, <1>5, <1>8, BarePlaced DEF NoValue
<1>9. CASE GetPartOfPage(t)
  <2>1. t.reader # "snmp"
    BY <1>9 DEF GetPartOfPage, Asks
  <2>2. PICK lacks \in SUBSET Head(t.left) :
          Goes(t, [t EXCEPT !.got = Set(t.got, Head(t.left) \ lacks, holder[t.at]),
                            !.from = Who(t)])
    BY <1>9 DEF GetPartOfPage
  <2>3. /\ DOMAIN Set(t.got, Head(t.left) \ lacks, holder[t.at]) = Fields
        /\ Placed(Set(t.got, Head(t.left) \ lacks, holder[t.at]))
    BY <1>6, <2>1
  <2> QED
    BY <1>3, <2>2, <2>3
<1>10. CASE GetUnusableIdentifier(t)
  <2>1. t.reader # "snmp"
    BY <1>10 DEF GetUnusableIdentifier, Asks
  <2>2. PICK f \in Head(t.left) :
          Goes(t, [t EXCEPT !.got = Set(Set(t.got, Head(t.left), holder[t.at]), {f}, None),
                            !.from = Who(t)])
    BY <1>10 DEF GetUnusableIdentifier
  <2> DEFINE read == Set(t.got, Head(t.left), holder[t.at])
             got == Set(read, {f}, None)
  <2>3. DOMAIN read = Fields /\ Placed(read)
    BY <1>6, <2>1
  <2>4. Goes(t, [t EXCEPT !.got = got, !.from = Who(t)])
    BY <2>2
  <2> HIDE DEF read
  <2>5. {f} \subseteq Read
    BY <1>1, <2>1, AskedForValues
  <2>6. DOMAIN got = Fields /\ Placed(got)
    BY <2>3, <2>5, SetPlaced, SetIts, FieldsOfItems
  <2> HIDE DEF got
  <2> QED
    BY <1>3, <2>4, <2>6
<1>11. CASE GetRaises(t)
  BY <1>4, <1>11, BarePlaced DEF GetRaises
<1>12. CASE NoSession(t)
  BY <1>2, <1>4, <1>12 DEF NoSession
<1>13. CASE GetBanner(t)
  <2>1. CASE Goes(t, [t EXCEPT !.banner = holder[t.at], !.from = Who(t)])
    <3> DEFINE v == [t EXCEPT !.banner = holder[t.at], !.from = Who(t)]
    <3>1. DOMAIN v = DOMAIN t /\ v.at = t.at /\ v.of = t.of /\ v.got = t.got
      BY <1>2
    <3> HIDE DEF v
    <3>2. Goes(t, v)
      BY <2>1 DEF v
    <3> QED
      BY <1>1, <1>2, <3>1, <3>2, GoesPlaced
  <2>2. CASE Goes(t, t)
    BY <1>5, <2>2
  <2> QED
    BY <1>13, <2>1, <2>2 DEF GetBanner
<1>14. CASE GetTest(t)
  <2>1. PICK tested \in BOOLEAN :
          LET reader == ReaderFor(t, tested)
          IN tasks' = (tasks \ {t}) \cup
                 {[t EXCEPT !.reader = reader, !.left = Requests(reader),
                            !.got = [Bare EXCEPT !.model = ModelFor(t, reader)],
                            !.from = IF tested THEN Who(t) ELSE t.from]}
    BY <1>14 DEF GetTest
  <2> DEFINE reader == ReaderFor(t, tested)
             got == [Bare EXCEPT !.model = ModelFor(t, reader)]
             u == [t EXCEPT !.reader = reader, !.left = Requests(reader), !.got = got,
                            !.from = IF tested THEN Who(t) ELSE t.from]
  <2>2. tasks' = (tasks \ {t}) \cup {u}
    BY <2>1
  <2>3. Placed(got)
    BY DEF Placed, Bare, Missing
  <2> HIDE DEF got, reader
  <2>4. u.at = t.at /\ u.of = t.of /\ u.got = got
    BY <1>2
  <2> HIDE DEF u
  <2> QED
    BY <1>1, <2>2, <2>3, <2>4, PlacedStep
<1> QED
  BY <1>7, <1>8, <1>9, <1>10, <1>11, <1>12, <1>13, <1>14 DEF Reply

LEMMA TaskPlaced ==
    ASSUME NEW n, n.ip \in Addresses, NEW reader
    PROVE  /\ Task(n, reader).at \in Addresses
           /\ Placed(Task(n, reader).of) /\ Placed(Task(n, reader).got)
           /\ [Task(n, reader) EXCEPT !.got.model = "12300"].at \in Addresses
           /\ Placed([Task(n, reader) EXCEPT !.got.model = "12300"].of)
           /\ Placed([Task(n, reader) EXCEPT !.got.model = "12300"].got)
<1> DEFINE t == Task(n, reader)
           k == [t EXCEPT !.got.model = "12300"]
<1>1. /\ DOMAIN t = {"at", "of", "reader", "left", "got", "banner", "from"}
      /\ t.at = n.ip /\ t.of = n /\ t.got = Bare
  BY DEF Task
<1>2. Placed([Bare EXCEPT !.model = "12300"])
  BY DEF Placed, Bare, Missing
<1> HIDE DEF t
<1>3. k.at = n.ip /\ k.of = n /\ k.got = [Bare EXCEPT !.model = "12300"]
  BY <1>1
<1> HIDE DEF k
<1>4. Placed(n)
  BY DEF Placed
<1>5. t.at \in Addresses /\ Placed(t.of) /\ Placed(t.got)
  BY <1>1, <1>4, BarePlaced
<1>6. k.at \in Addresses /\ Placed(k.of) /\ Placed(k.got)
  BY <1>2, <1>3, <1>4
<1> QED
  BY <1>5, <1>6 DEF t, k

LEMMA AskPlaced ==
    ASSUME IInv, PlaceInv, Ask
    PROVE  PlaceInv'
<1>1. UNCHANGED todo
  BY DEF Ask, AskTelrads, AskBaicells, AskSnmp, End
<1>2. CASE AskTelrads
  <2>1. ASSUME NEW t \in tasks' PROVE t.at \in Addresses /\ Placed(t.of) /\ Placed(t.got)
    <3>1. PICK n \in inv : n.ip \notin Missing /\ t = [Task(n, "telrad") EXCEPT !.got.model = "12300"]
      BY <1>2 DEF AskTelrads
    <3>2. n.ip \in Addresses
      BY <3>1 DEF PlaceInv, Placed
    <3> QED
      BY <3>1, <3>2, TaskPlaced
  <2> QED
    BY <1>1, <1>2, <2>1 DEF AskTelrads, PlaceInv, Placed
<1>3. CASE AskBaicells
  <2>1. PICK noted : noted = {Set(n, {"model"}, "baicells") : n \in {n \in inv : IsBaicells(n)}}
    OBVIOUS
  <2>2. inv' \subseteq inv \cup noted /\ tasks' = {Task(n, "baicells") : n \in noted}
    BY <1>3, <2>1 DEF AskBaicells
  <2>3. ASSUME NEW i \in noted PROVE i.ip \in Addresses
    <3>1. PICK n \in inv : IsBaicells(n) /\ i = Set(n, {"model"}, "baicells")
      BY <2>1
    <3>2. n.ip \in Addresses
      BY <3>1 DEF PlaceInv, Placed, IsBaicells
    <3>3. DOMAIN n = Fields
      BY DEF IInv, ItemsAreOwn, OwnItem
    <3> QED
      BY <3>1, <3>2, <3>3, FieldsOfItems DEF Set
  <2>4. ASSUME NEW t \in tasks' PROVE t.at \in Addresses /\ Placed(t.of) /\ Placed(t.got)
    <3>1. PICK n \in noted : t = Task(n, "baicells")
      BY <2>2
    <3> QED
      BY <2>3, <3>1, TaskPlaced
  <2> QED
    BY <1>1, <2>2, <2>3, <2>4 DEF PlaceInv, Placed
<1>4. CASE AskSnmp
  <2>1. ASSUME NEW t \in tasks' PROVE t.at \in Addresses /\ Placed(t.of) /\ Placed(t.got)
    <3>1. PICK n \in inv : n.ip \notin Missing /\ t = Task(n, "snmp")
      BY <1>4 DEF AskSnmp
    <3>2. n.ip \in Addresses
      BY <3>1 DEF PlaceInv, Placed
    <3> QED
      BY <3>1, <3>2, TaskPlaced
  <2> QED
    BY <1>1, <1>4, <2>1 DEF AskSnmp, PlaceInv, Placed
<1>5. CASE End
  BY <1>1, <1>5 DEF End, PlaceInv, Placed
<1> QED
  BY <1>2, <1>3, <1>4, <1>5 DEF Ask

LEMMA GatheredPlaced ==
    ASSUME IInv, PlaceInv, Gathered
    PROVE  PlaceInv'
<1>1. UNCHANGED inv /\ tasks' = {}
  BY DEF Gathered
<1>2. ASSUME NEW r \in todo' PROVE Placed(r.item)
  <2>1. PICK t \in tasks :
          r = [item |-> IF pc = "baicells" THEN Set(t.got, {"model"}, "baicells") ELSE t.got,
               own |-> t.got = t.of]
    BY DEF Gathered
  <2>2. DOMAIN t.got = Fields /\ Placed(t.got)
    BY DEF IInv, TasksAreOwn, TaskIsOwn, PlaceInv
  <2>3. Placed(Set(t.got, {"model"}, "baicells"))
    BY <2>2, SetPlaced, FieldsOfItems
  <2> QED
    BY <2>1, <2>2, <2>3
<1> QED
  BY <1>1, <1>2 DEF PlaceInv, Placed

LEMMA AddPlaced ==
    ASSUME IInv, PlaceInv, Add
    PROVE  PlaceInv'
<1>1. PICK r \in todo : AddNothing(r) \/ AddNew(r) \/ Merge(r)
  BY DEF Add
<1>2. UNCHANGED tasks
  BY DEF Add
<1>3. CASE AddNothing(r)
  BY <1>2, <1>3 DEF AddNothing, PlaceInv, Placed
<1>4. CASE AddNew(r)
  BY <1>2, <1>4 DEF AddNew, PlaceInv, Placed
<1>5. CASE Merge(r)
  <2>1. PICK s, items, n :
          /\ Joined(items, n, r.item)
          /\ inv' = (inv \ ToSet(s)) \cup {Merged(items)}
          /\ \A q \in todo' : \E p \in todo : q = p \/ q = [p EXCEPT !.item = Merged(items)]
          /\ \A k \in 1..n : items[k] \in inv \cup {r.item}
    BY <1>5, MergeJoins
  <2> DEFINE mine == Merged(items)
  <2>2. Placed(mine)
    BY <2>1, MergedPlaced DEF PlaceInv
  <2> HIDE DEF mine
  <2>3. ASSUME NEW q \in todo' PROVE Placed(q.item)
    <3>1. PICK p \in todo : q = p \/ q = [p EXCEPT !.item = mine]
      BY <2>1 DEF mine
    <3>2. DOMAIN p = {"item", "own"} /\ Placed(p.item)
      BY DEF IInv, ResultsAreOwn, PlaceInv
    <3> QED
      BY <2>2, <3>1, <3>2
  <2>4. inv' \subseteq inv \cup {mine}
    BY <2>1 DEF mine
  <2> QED
    BY <1>2, <2>2, <2>3, <2>4 DEF PlaceInv, Placed
<1> QED
  BY <1>1, <1>3, <1>4, <1>5

LEMMA PlaceHolds == Spec => [](IInv /\ PlaceInv)
<1>1. Init => PlaceInv
  BY KnownAssumption DEF Init, PlaceInv, Placed
<1>2. IInv /\ PlaceInv /\ [Next]_vars => PlaceInv'
  <2> SUFFICES ASSUME IInv, PlaceInv, [Next]_vars PROVE PlaceInv'
    OBVIOUS
  <2>1. CASE UNCHANGED <<inv, tasks, todo>>
    BY <2>1 DEF PlaceInv, Placed
  <2> QED
    BY <2>1, AskPlaced, ReplyPlaced, GatheredPlaced, AddPlaced DEF Next, Move, vars
<1> QED
  BY StartIsOwn, StepKeepsOwn, <1>1, <1>2, PTL DEF Spec

-----------------------------------------------------------------------------
(* What is forgotten: the replies. *)

LEMMA ExcuseStays ==
    ASSUME NEW d, NEW f, Excused(d, f), mishaps \subseteq mishaps'
    PROVE  Excused(d, f)'
BY DEF Excused, Torn, Happened

LEMMA EmptyStays ==
    ASSUME NEW i, EmptyIsExcused(i), mishaps \subseteq mishaps'
    PROVE  EmptyIsExcused(i)'
BY ExcuseStays DEF EmptyIsExcused

LEMMA TaskExcuseStays ==
    ASSUME NEW t, TaskIsExcused(t), mishaps \subseteq mishaps', UNCHANGED holder
    PROVE  TaskIsExcused(t)'
<1>1. EmptyIsExcused(t.of)' /\ (t.left = <<>> => EmptyIsExcused(t.got)')
  BY EmptyStays DEF TaskIsExcused
<1>2. UnreadIsExcused(t)'
  BY ExcuseStays DEF TaskIsExcused, UnreadIsExcused
<1>3. EmptyCameBack(t)'
  BY ExcuseStays DEF TaskIsExcused, EmptyCameBack
<1> QED
  BY <1>1, <1>2, <1>3 DEF TaskIsExcused

LEMMA ExcusedStep ==
    ASSUME EmptyInv, NEW t \in tasks, NEW u, tasks' = (tasks \ {t}) \cup {u},
           TaskIsExcused(u)', mishaps \subseteq mishaps', UNCHANGED <<inv, todo, holder>>
    PROVE  EmptyInv'
<1>1. ASSUME NEW x \in tasks' PROVE TaskIsExcused(x)'
  BY TaskExcuseStays DEF EmptyInv
<1>2. (\A i \in inv : EmptyIsExcused(i))' /\ (\A r \in todo : EmptyIsExcused(r.item))'
  BY EmptyStays DEF EmptyInv
<1> QED
  BY <1>1, <1>2 DEF EmptyInv

\* What has been asked when one more request is done.
LEMMA AskedTail ==
    ASSUME NEW left \in Seq(SUBSET Read), left # <<>>, NEW f \in Asked(Tail(left))
    PROVE  f \in Asked(left) \/ f \in Head(left)
<1>1. f \in Read /\ \A k \in 1..Len(Tail(left)) : f \notin Tail(left)[k]
  BY DEF Asked
<1>2. ASSUME NEW k \in 1..Len(left), k # 1 PROVE f \notin left[k]
  <2>1. k - 1 \in 1..Len(Tail(left)) /\ Tail(left)[k - 1] = left[k]
    BY <1>2
  <2> QED
    BY <1>1, <2>1
<1>3. Head(left) = left[1]
  OBVIOUS
<1> QED
  BY <1>1, <1>2, <1>3 DEF Asked

\* The task goes on to its next request; what it has to say for that.
LEMMA GoesOnExcused ==
    ASSUME IInv, EmptyInv, NEW t \in tasks, t.left # <<>>, t.reader # "snmp",
           mishaps \subseteq mishaps', UNCHANGED <<inv, todo, holder>>,
           NEW got, DOMAIN got = Fields, NEW from \in {t.from, Who(t)}, Its(got) \subseteq from,
           Goes(t, [t EXCEPT !.got = got, !.from = from]),
           \A f \in Read : got[f] = None => from # {} /\ \A d \in from : Excused(d, f)',
           t.reader = "baicells" => \A f \in Asked(Tail(t.left)) : got[f] = Absent =>
               \A d \in from \cup {holder[t.at]} :
                   d \in Devices /\ Kind[d] = "baicells" => Excused(d, f)'
    PROVE  EmptyInv'
<1> DEFINE v == [t EXCEPT !.got = got, !.from = from]
           g == IF t.reader = "baicells" /\ Tail(t.left) = <<>> THEN Assigned(got) ELSE got
           u == [v EXCEPT !.left = Tail(t.left), !.got = g]
<1>1. TaskIsExcused(t)
  BY DEF EmptyInv
<1>2. /\ TaskIsOwn(t)
      /\ DOMAIN t = {"at", "of", "reader", "left", "got", "banner", "from"}
  BY HasRead
<1>3. /\ DOMAIN v = DOMAIN t /\ v.got = got /\ v.from = from /\ v.at = t.at
      /\ v.reader = t.reader /\ v.of = t.of
  BY <1>2
<1>4. tasks' = (tasks \ {t}) \cup {u}
  BY <1>3 DEF Goes
<1> HIDE DEF v, g
<1>5. /\ u.got = g /\ u.from = from /\ u.left = Tail(t.left) /\ u.at = t.at
      /\ u.reader = t.reader /\ u.of = t.of
  BY <1>2, <1>3
<1> HIDE DEF u
<1>6. from \subseteq Devices
  BY <1>1 DEF TaskIsExcused, Who, Understands
<1>7. EmptyIsExcused(t.of)'
  BY <1>1, EmptyStays DEF TaskIsExcused
<1>8. ASSUME NEW d \in from, NEW f \in Read, g[f] = None PROVE Excused(d, f)'
  <2>1. CASE t.reader = "baicells" /\ Tail(t.left) = <<>>
    <3>1. got[f] \in Missing
      BY <1>8, <2>1, AssignedIts DEF g
    <3>2. CASE got[f] = None
      BY <3>2
    <3>3. CASE got[f] = Absent
      <4>1. f \in Asked(Tail(t.left))
        BY <2>1 DEF Asked
      <4>2. Kind[d] = "baicells"
        BY <1>2, <2>1, AskedKind DEF TaskIsOwn, ByReader, Who
      <4> QED
        BY <1>6, <2>1, <3>3, <4>1, <4>2
    <3> QED
      BY <3>1, <3>2, <3>3 DEF Missing
  <2>2. CASE ~(t.reader = "baicells" /\ Tail(t.left) = <<>>)
    BY <1>8, <2>2 DEF g
  <2> QED
    BY <2>1, <2>2
<1>9. EmptyIsExcused(g)'
  <2>1. Its(g) \subseteq from
    BY AssignedIts DEF g
  <2>2. Ids(g) \subseteq from
    BY <2>1, IdsAreIts
  <2> QED
    BY <1>8, <2>2 DEF EmptyIsExcused
<1>10. EmptyCameBack(u)'
  <2> SUFFICES ASSUME Tail(t.left) # <<>>
               PROVE  \A f \in Read : got[f] = None => from # {} /\ \A d \in from : Excused(d, f)'
    BY <1>5 DEF EmptyCameBack, g
  <2> QED
    OBVIOUS
<1>11. UnreadIsExcused(u)'
  <2> SUFFICES ASSUME Tail(t.left) # <<>>, t.reader = "baicells",
                      NEW f \in Asked(Tail(t.left)), got[f] = Absent,
                      NEW d \in from \cup {holder[t.at]}, d \in Devices, Kind[d] = "baicells"
               PROVE  Excused(d, f)'
    BY <1>5 DEF UnreadIsExcused, g
  <2> QED
    OBVIOUS
<1>12. TaskIsExcused(u)'
  BY <1>5, <1>6, <1>7, <1>9, <1>10, <1>11 DEF TaskIsExcused
<1> QED
  BY <1>4, <1>12, ExcusedStep

\* The task is over.
LEMMA EndsExcused ==
    ASSUME IInv, EmptyInv, NEW t \in tasks, t.left # <<>>,
           mishaps \subseteq mishaps', UNCHANGED <<inv, todo, holder>>,
           NEW i, i = Bare \/ i = t.of, Ends(t, i)
    PROVE  EmptyInv'
<1> DEFINE u == [t EXCEPT !.left = <<>>, !.got = i]
<1>1. TaskIsExcused(t) /\ DOMAIN t = {"at", "of", "reader", "left", "got", "banner", "from"}
  BY HasRead DEF EmptyInv
<1>2. tasks' = (tasks \ {t}) \cup {u}
  BY DEF Ends
<1>3. /\ u.got = i /\ u.from = t.from /\ u.left = <<>> /\ u.of = t.of
  BY <1>1
<1> HIDE DEF u
<1>4. EmptyIsExcused(t.of)'
  BY <1>1, EmptyStays DEF TaskIsExcused
<1>5. EmptyIsExcused(Bare)'
  BY BareIsEmpty, IdsAreIts DEF EmptyIsExcused
<1>6. TaskIsExcused(u)'
  BY <1>1, <1>3, <1>4, <1>5 DEF TaskIsExcused, UnreadIsExcused, EmptyCameBack
<1> QED
  BY <1>2, <1>6, ExcusedStep

\* What a read had empty before another answer.
LEMMA EmptyBeforeAnswer ==
    ASSUME IInv, EmptyInv, NEW t \in tasks, t.left # <<>>,
           NEW what, NEW about, Note(t, what, about),
           NEW f \in Read, t.got[f] = None
    PROVE  Who(t) # {} /\ \A d \in Who(t) : Excused(d, f)'
<1>1. /\ mishaps \subseteq mishaps'
      /\ \A d, e \in Who(t) : d # e => Torn(d)'
  BY HasRead, NoteIsKept
<1>2. t.from # {} /\ \A d \in t.from : Excused(d, f)
  BY DEF EmptyInv, TaskIsExcused, EmptyCameBack
<1>3. t.from \subseteq Who(t)
  BY DEF Who
<1>4. ASSUME NEW d \in Who(t) PROVE Excused(d, f)'
  <2>1. CASE d \in t.from
    BY <1>1, <1>2, <2>1, ExcuseStays
  <2>2. CASE d \notin t.from
    <3>1. PICK e \in t.from : TRUE
      BY <1>2
    <3>2. Torn(d)'
      BY <1>1, <1>3, <2>2, <3>1
    <3> QED
      BY <3>2 DEF Excused
  <2> QED
    BY <2>1, <2>2
<1> QED
  BY <1>2, <1>3, <1>4

\* What a Baicells had not said when asked before.
LEMMA UnreadBefore ==
    ASSUME IInv, EmptyInv, NEW t \in tasks, t.left # <<>>, t.reader = "baicells",
           mishaps \subseteq mishaps',
           NEW f \in Asked(t.left), t.got[f] = Absent,
           NEW d \in Who(t) \cup {holder[t.at]}, d \in Devices, Kind[d] = "baicells"
    PROVE  Excused(d, f)'
<1>1. d \in t.from \cup {holder[t.at]}
  BY DEF Who
<1>2. Excused(d, f)
  BY <1>1 DEF EmptyInv, TaskIsExcused, UnreadIsExcused
<1> QED
  BY <1>2, ExcuseStays

LEMMA LeftType ==
    ASSUME IInv, NEW t \in tasks, t.left # <<>>, t.reader # "snmp"
    PROVE  t.left \in Seq(SUBSET Read)
BY HasRead DEF TaskIsOwn, InPlace

\* All that is asked for is answered, but for what comes back empty.
LEMMA AnswerExcused ==
    ASSUME IInv, EmptyInv, NEW t \in tasks, t.left # <<>>, t.reader # "snmp", Answers(t),
           UNCHANGED <<inv, todo, holder>>,
           NEW what, NEW about, Note(t, what, about),
           NEW got, DOMAIN got = Fields, Its(got) \subseteq Who(t),
           Goes(t, [t EXCEPT !.got = got, !.from = Who(t)]),
           \A f \in Read : \/ got[f] = holder[t.at]
                           \/ got[f] = None /\ \A d \in Who(t) : Excused(d, f)'
                           \/ got[f] = t.got[f] /\ (t.reader = "baicells" => f \notin Head(t.left))
    PROVE  EmptyInv'
<1>1. mishaps \subseteq mishaps'
  BY HasRead, NoteIsKept
<1>2. holder[t.at] \in Devices /\ holder[t.at] \in Who(t)
  BY DEF Answers, Understands, Who
<1>3. holder[t.at] \notin Missing /\ None # Absent
  BY <1>2, DevicesAssumption DEF Missing
<1>4. ASSUME NEW f \in Read, got[f] = None
      PROVE  Who(t) # {} /\ \A d \in Who(t) : Excused(d, f)'
  <2>1. got[f] # holder[t.at]
    BY <1>3, <1>4 DEF Missing
  <2>2. CASE \A d \in Who(t) : Excused(d, f)'
    BY <1>2, <2>2
  <2>3. CASE got[f] = t.got[f]
    BY <1>4, <2>3, EmptyBeforeAnswer
  <2> QED
    BY <2>1, <2>2, <2>3
<1>5. ASSUME t.reader = "baicells", NEW f \in Asked(Tail(t.left)), got[f] = Absent,
             NEW d \in Who(t) \cup {holder[t.at]}, d \in Devices, Kind[d] = "baicells"
      PROVE  Excused(d, f)'
  <2>1. f \in Read
    BY DEF Asked
  <2>2. got[f] = t.got[f] /\ f \notin Head(t.left)
    BY <1>3, <1>5, <2>1 DEF Missing
  <2>3. f \in Asked(t.left)
    BY <2>2, LeftType, AskedTail
  <2> QED
    BY <1>1, <1>5, <2>2, <2>3, UnreadBefore
<1> QED
  BY <1>1, <1>4, <1>5, GoesOnExcused

LEMMA GetValueExcused ==
    ASSUME IInv, EmptyInv, NEW t \in tasks, GetValue(t)
    PROVE  EmptyInv'
<1> DEFINE got == Set(t.got, Head(t.left), holder[t.at])
<1>1. /\ t.left # <<>> /\ t.reader # "snmp" /\ UNCHANGED <<inv, todo, holder>> /\ Answers(t)
      /\ Note(t, "lost", {}) /\ Goes(t, [t EXCEPT !.got = got, !.from = Who(t)])
      /\ holder[t.at] \in Who(t)
  BY DEF GetValue, Asks, Running, Answers, Who
<1>2. DOMAIN got = Fields /\ Its(got) \subseteq t.from \cup {holder[t.at]}
  BY <1>1, AnswerIts
<1>3. Its(got) \subseteq Who(t)
  BY <1>1, <1>2 DEF Who
<1>4. \A f \in Read : \/ got[f] = holder[t.at]
                      \/ got[f] = t.got[f] /\ f \notin Head(t.left)
  BY <1>1, HasRead, SetFields
<1> HIDE DEF got
<1> QED
  BY <1>1, <1>2, <1>3, <1>4, AnswerExcused

LEMMA GetPartOfPageExcused ==
    ASSUME IInv, EmptyInv, NEW t \in tasks, GetPartOfPage(t)
    PROVE  EmptyInv'
<1>1. /\ t.left # <<>> /\ t.reader = "telrad" /\ UNCHANGED <<inv, todo, holder>> /\ Answers(t)
      /\ holder[t.at] \in Who(t)
  BY DEF GetPartOfPage, Asks, Running, Answers, Who
<1>2. PICK lacks \in SUBSET Head(t.left) :
        /\ Note(t, "lost", lacks)
        /\ Goes(t, [t EXCEPT !.got = Set(t.got, Head(t.left) \ lacks, holder[t.at]),
                             !.from = Who(t)])
  BY DEF GetPartOfPage
<1> DEFINE got == Set(t.got, Head(t.left) \ lacks, holder[t.at])
<1>3. DOMAIN got = Fields /\ Its(got) \subseteq t.from \cup {holder[t.at]}
  BY <1>1, AnswerIts
<1>4. Its(got) \subseteq Who(t)
  BY <1>1, <1>3 DEF Who
<1>5. \A f \in Read : got[f] = holder[t.at] \/ got[f] = t.got[f]
  BY <1>1, HasRead, SetFields
<1> HIDE DEF got
<1>6. Goes(t, [t EXCEPT !.got = got, !.from = Who(t)])
  BY <1>2 DEF got
<1> QED
  BY <1>1, <1>2, <1>3, <1>4, <1>5, <1>6, AnswerExcused

LEMMA GetUnusableIdentifierExcused ==
    ASSUME IInv, EmptyInv, NEW t \in tasks, GetUnusableIdentifier(t)
    PROVE  EmptyInv'
<1>1. /\ t.left # <<>> /\ t.reader # "snmp" /\ UNCHANGED <<inv, todo, holder>> /\ Answers(t)
      /\ holder[t.at] \in Who(t) \cap Understands(t.reader, Head(t.left))
  BY DEF GetUnusableIdentifier, Asks, Running, Answers, Who
<1>2. PICK f \in Head(t.left) :
        /\ Note(t, "unusable", {f})
        /\ Goes(t, [t EXCEPT !.got = Set(Set(t.got, Head(t.left), holder[t.at]), {f}, None),
                             !.from = Who(t)])
  BY DEF GetUnusableIdentifier
<1> DEFINE read == Set(t.got, Head(t.left), holder[t.at])
           got == Set(read, {f}, None)
<1>3. DOMAIN read = Fields /\ Its(read) \subseteq t.from \cup {holder[t.at]}
  BY <1>1, AnswerIts
<1>4. Goes(t, [t EXCEPT !.got = got, !.from = Who(t)])
  BY <1>2
<1>5. \A g \in Read : read[g] = holder[t.at] \/ (read[g] = t.got[g] /\ g \notin Head(t.left))
  BY <1>1, HasRead, SetFields
<1> HIDE DEF read
<1>6. {f} \subseteq Read
  BY <1>1, AskedForValues
<1>7. DOMAIN got = Fields /\ Its(got) \subseteq Its(read)
  BY <1>3, <1>6, SetIts DEF Missing
<1>8. Its(got) \subseteq Who(t)
  BY <1>1, <1>3, <1>7 DEF Who
<1>9. \A g \in Read : (g = f /\ got[g] = None) \/ got[g] = read[g]
  BY <1>3, SetFields
<1> HIDE DEF got
<1>10. \A d \in Who(t) : Excused(d, f)'
  <2> SUFFICES ASSUME NEW d \in Who(t) PROVE Excused(d, f)'
    OBVIOUS
  <2>1. CASE d = holder[t.at]
    <3>1. <<"unusable", d, f>> \in mishaps'
      BY <1>1, <1>2, <2>1 DEF Note
    <3> QED
      BY <3>1 DEF Excused, Happened
  <2>2. CASE d # holder[t.at]
    <3>1. \A e \in Who(t) : d # e => Torn(d)'
      BY <1>1, <1>2, HasRead, NoteIsKept
    <3>2. Torn(d)'
      BY <1>1, <2>2, <3>1
    <3> QED
      BY <3>2 DEF Excused
  <2> QED
    BY <2>1, <2>2
<1>11. \A g \in Read : \/ got[g] = holder[t.at]
                       \/ got[g] = None /\ \A d \in Who(t) : Excused(d, g)'
                       \/ got[g] = t.got[g] /\ g \notin Head(t.left)
  BY <1>5, <1>9, <1>10
<1> QED
  BY <1>1, <1>2, <1>4, <1>7, <1>8, <1>11, AnswerExcused

LEMMA NoValueExcused ==
    ASSUME IInv, EmptyInv, NEW t \in tasks, NoValue(t)
    PROVE  EmptyInv'
<1>1. /\ t.left # <<>> /\ t.reader # "snmp" /\ UNCHANGED <<inv, todo, holder>>
      /\ Note(t, "lost", Head(t.left))
  BY DEF NoValue, Asks, Running
<1>2. mishaps \subseteq mishaps'
  BY <1>1, HasRead, NoteIsKept
<1>3. CASE t.reader = "telrad"
  <2>1. Ends(t, Bare)
    BY <1>3 DEF NoValue
  <2> QED
    BY <1>1, <1>2, <2>1, EndsExcused
<1>4. CASE t.reader # "telrad"
  <2>1. Goes(t, [t EXCEPT !.got = t.got, !.from = t.from])
    <3>1. Goes(t, t)
      BY <1>4 DEF NoValue
    <3> QED
      BY <1>1, <3>1, GoesAsItIs
  <2>2. DOMAIN t.got = Fields /\ Its(t.got) \subseteq t.from
    BY <1>1, HasRead
  <2>3. \A f \in Read : t.got[f] = None => t.from # {} /\ \A d \in t.from : Excused(d, f)'
    BY <1>1, <1>2, ExcuseStays DEF EmptyInv, TaskIsExcused, EmptyCameBack
  <2>4. ASSUME t.reader = "baicells", NEW f \in Asked(Tail(t.left)), t.got[f] = Absent,
               NEW d \in t.from \cup {holder[t.at]}, d \in Devices, Kind[d] = "baicells"
        PROVE  Excused(d, f)'
    <3>1. CASE f \in Head(t.left)
      <4>1. Head(t.left) # {"test"} /\ Head(t.left) # {"banner"}
        BY <1>1, AskedForValues DEF Read
      <4>2. d \in Understands(t.reader, Head(t.left))
        BY <2>4, <4>1 DEF Understands, KindsThat
      <4>3. d \in Who(t)
        BY <2>4, <4>2 DEF Who
      <4>4. <<"lost", d, f>> \in mishaps'
        BY <1>1, <3>1, <4>2, <4>3 DEF Note
      <4> QED
        BY <2>4, <4>4 DEF Excused, Happened
    <3>2. CASE f \notin Head(t.left)
      <4>1. f \in Asked(t.left)
        BY <1>1, <3>2, LeftType, AskedTail
      <4>2. d \in Who(t) \cup {holder[t.at]}
        BY DEF Who
      <4> QED
        BY <1>1, <1>2, <2>4, <4>1, <4>2, UnreadBefore
    <3> QED
      BY <3>1, <3>2
  <2> QED
    BY <1>1, <1>2, <2>1, <2>2, <2>3, <2>4, GoesOnExcused
<1> QED
  BY <1>3, <1>4

LEMMA GetRaisesExcused ==
    ASSUME IInv, EmptyInv, NEW t \in tasks, GetRaises(t)
    PROVE  EmptyInv'
<1>1. /\ t.left # <<>> /\ UNCHANGED <<inv, todo, holder>>
      /\ Note(t, "lost", Read) /\ Ends(t, Bare)
  BY DEF GetRaises, Asks, Running
<1> QED
  BY <1>1, HasRead, NoteIsKept, EndsExcused

LEMMA NoSessionExcused ==
    ASSUME IInv, EmptyInv, NEW t \in tasks, NoSession(t)
    PROVE  EmptyInv'
<1>1. /\ t.left # <<>> /\ UNCHANGED <<inv, todo, holder>>
      /\ Note(t, "lost", Read) /\ Ends(t, t.of)
  BY DEF NoSession, Asks, Running
<1> QED
  BY <1>1, HasRead, NoteIsKept, EndsExcused

\* As long as nothing has been read nothing came back empty.
LEMMA NothingReadExcused ==
    ASSUME NEW u, u.from \subseteq Devices, EmptyIsExcused(u.of)',
           \A f \in Read : u.got[f] = Absent, u.reader # "baicells"
    PROVE  TaskIsExcused(u)'
<1>1. \A f \in Read : u.got[f] # None
  BY DevicesAssumption
<1> QED
  BY <1>1 DEF TaskIsExcused, EmptyIsExcused, UnreadIsExcused, EmptyCameBack

LEMMA GetBannerExcused ==
    ASSUME IInv, EmptyInv, NEW t \in tasks, GetBanner(t)
    PROVE  EmptyInv'
<1>1. t.left # <<>> /\ Head(t.left) = {"banner"} /\ UNCHANGED <<inv, todo, holder>>
  BY DEF GetBanner, Running
<1>2. t.reader = "snmp" /\ t.got = Bare
  BY <1>1, WhatItIs
<1>3. TaskIsOwn(t) /\ DOMAIN t = {"at", "of", "reader", "left", "got", "banner", "from"}
  BY <1>1, HasRead
<1>4. TaskIsExcused(t)
  BY DEF EmptyInv
<1>5. ASSUME NEW u, u.reader = "snmp", u.of = t.of, u.got = Bare, mishaps \subseteq mishaps',
             tasks' = (tasks \ {t}) \cup {u}, u.from \subseteq Devices
      PROVE  EmptyInv'
  <2>1. EmptyIsExcused(u.of)'
    BY <1>4, <1>5, EmptyStays DEF TaskIsExcused
  <2>2. \A f \in Read : u.got[f] = Absent
    BY <1>5, BareIsEmpty
  <2>3. TaskIsExcused(u)'
    BY <1>5, <2>1, <2>2, NothingReadExcused
  <2> QED
    BY <1>1, <1>5, <2>3, ExcusedStep
<1>6. CASE Answers(t) /\ Goes(t, [t EXCEPT !.banner = holder[t.at], !.from = Who(t)])
           /\ UNCHANGED mishaps
  <2> DEFINE v == [t EXCEPT !.banner = holder[t.at], !.from = Who(t)]
             u == [v EXCEPT !.left = Tail(t.left), !.got = v.got]
  <2>1. Who(t) \subseteq Devices
    BY <1>4 DEF TaskIsExcused, Who, Understands
  <2>2. tasks' = (tasks \ {t}) \cup {u}
    BY <1>2, <1>6 DEF Goes
  <2>3. /\ DOMAIN v = DOMAIN t /\ v.got = Bare /\ v.from \subseteq Devices
        /\ v.reader = "snmp" /\ v.of = t.of
    BY <1>2, <1>3, <2>1
  <2> HIDE DEF v
  <2>4. u.got = Bare /\ u.from \subseteq Devices /\ u.reader = "snmp" /\ u.of = t.of
    BY <1>2, <1>3, <2>3
  <2> HIDE DEF u
  <2> QED
    BY <1>5, <1>6, <2>2, <2>4
<1>7. CASE Goes(t, t) /\ Note(t, "lost", {"banner"})
  <2> DEFINE u == [t EXCEPT !.left = Tail(t.left), !.got = t.got]
  <2>1. tasks' = (tasks \ {t}) \cup {u}
    BY <1>2, <1>7 DEF Goes
  <2>2. u.got = Bare /\ u.from \subseteq Devices /\ u.reader = "snmp" /\ u.of = t.of
    BY <1>2, <1>3, <1>4 DEF TaskIsExcused
  <2> HIDE DEF u
  <2> QED
    BY <1>3, <1>5, <1>7, <2>1, <2>2, NoteIsKept
<1> QED
  BY <1>6, <1>7 DEF GetBanner

LEMMA GetTestExcused ==
    ASSUME IInv, EmptyInv, NEW t \in tasks, GetTest(t)
    PROVE  EmptyInv'
<1>1. t.left # <<>> /\ Head(t.left) = {"test"} /\ UNCHANGED <<inv, todo, holder>>
  BY DEF GetTest, Running
<1>2. TaskIsOwn(t) /\ DOMAIN t = {"at", "of", "reader", "left", "got", "banner", "from"}
  BY <1>1, HasRead
<1>3. TaskIsExcused(t)
  BY DEF EmptyInv
<1>4. PICK tested \in BOOLEAN :
        LET reader == ReaderFor(t, tested)
        IN /\ Note(t, "lost", IF tested THEN {} ELSE {"test"})
           /\ tasks' = (tasks \ {t}) \cup
                  {[t EXCEPT !.reader = reader, !.left = Requests(reader),
                             !.got = [Bare EXCEPT !.model = ModelFor(t, reader)],
                             !.from = IF tested THEN Who(t) ELSE t.from]}
  BY DEF GetTest
<1>5. PICK from : from = IF tested THEN Who(t) ELSE t.from
  OBVIOUS
<1> DEFINE reader == ReaderFor(t, tested)
           got == [Bare EXCEPT !.model = ModelFor(t, reader)]
           u == [t EXCEPT !.reader = reader, !.left = Requests(reader), !.got = got, !.from = from]
<1>6. tasks' = (tasks \ {t}) \cup {u}
  BY <1>4, <1>5
<1>7. \A f \in Read : got[f] = Absent
  BY DEF Bare, Read
<1>8. reader # "baicells"
  BY DEF ReaderFor
<1> HIDE DEF got, reader
<1>9. from \subseteq Devices
  BY <1>3, <1>5 DEF TaskIsExcused, Who, Understands
<1>10. u.reader = reader /\ u.got = got /\ u.from = from /\ u.of = t.of
  BY <1>2
<1> HIDE DEF u
<1>11. mishaps \subseteq mishaps'
  BY <1>2, <1>4, NoteIsKept
<1>12. EmptyIsExcused(u.of)'
  BY <1>3, <1>10, <1>11, EmptyStays DEF TaskIsExcused
<1>13. TaskIsExcused(u)'
  BY <1>7, <1>8, <1>9, <1>10, <1>12, NothingReadExcused
<1> QED
  BY <1>1, <1>6, <1>11, <1>13, ExcusedStep

-----------------------------------------------------------------------------
(* What is forgotten: the readers begin and end, and an address passes on. *)

LEMMA NewTaskExcused ==
    ASSUME NEW n, EmptyIsExcused(n), NEW reader \in {"telrad", "baicells", "snmp"}
    PROVE  /\ TaskIsExcused(Task(n, reader))
           /\ TaskIsExcused([Task(n, reader) EXCEPT !.got.model = "12300"])
<1>1. ASSUME NEW u, u.from = {}, u.of = n, u.reader = reader, u.left = Requests(reader),
             \A f \in Read : u.got[f] = Absent
      PROVE  TaskIsExcused(u)
  <2>1. \A f \in Read : u.got[f] # None
    BY <1>1, DevicesAssumption
  <2>2. reader = "baicells" => Asked(u.left) = {}
    <3> SUFFICES ASSUME reader = "baicells", NEW f \in Read
                 PROVE  \E k \in 1..Len(BaicellsValues) : f \in BaicellsValues[k]
      BY <1>1 DEF Asked, Requests
    <3>1. Len(BaicellsValues) = 4 /\ BaicellsValues[1] = {"imei"} /\ BaicellsValues[2] = {"mac"}
          /\ BaicellsValues[3] = {"imsi"} /\ BaicellsValues[4] = {"signal"}
      BY DEF BaicellsValues
    <3>2. 1 \in 1..4 /\ 2 \in 1..4 /\ 3 \in 1..4 /\ 4 \in 1..4
      OBVIOUS
    <3>3. f = "imei" \/ f = "mac" \/ f = "imsi" \/ f = "signal"
      BY DEF Read
    <3> QED
      BY <3>1, <3>2, <3>3
  <2> QED
    BY <1>1, <2>1, <2>2 DEF TaskIsExcused, EmptyIsExcused, UnreadIsExcused, EmptyCameBack
<1> DEFINE t == Task(n, reader)
           k == [t EXCEPT !.got.model = "12300"]
<1>2. /\ DOMAIN t = {"at", "of", "reader", "left", "got", "banner", "from"}
      /\ t.of = n /\ t.reader = reader /\ t.left = Requests(reader) /\ t.got = Bare /\ t.from = {}
  BY DEF Task
<1> HIDE DEF t
<1>3. /\ k.of = n /\ k.reader = reader /\ k.left = Requests(reader)
      /\ k.from = {} /\ k.got = [Bare EXCEPT !.model = "12300"]
  BY <1>2
<1> HIDE DEF k
<1>4. \A f \in Read : [Bare EXCEPT !.model = "12300"][f] = Absent
  BY DEF Bare, Read
<1>5. TaskIsExcused(t)
  BY <1>1, <1>2, BareIsEmpty
<1>6. TaskIsExcused(k)
  BY <1>1, <1>3, <1>4
<1> QED
  BY <1>5, <1>6 DEF t, k

LEMMA AsksExcused ==
    ASSUME EmptyInv, UNCHANGED <<todo, mishaps, holder>>,
           \A n \in inv' : EmptyIsExcused(n), \A t \in tasks' : TaskIsExcused(t)
    PROVE  EmptyInv'
<1>1. \A n : EmptyIsExcused(n) => EmptyIsExcused(n)'
  BY EmptyStays
<1>2. \A t : TaskIsExcused(t) => TaskIsExcused(t)'
  BY TaskExcuseStays
<1> QED
  BY <1>1, <1>2 DEF EmptyInv

LEMMA AskTelradsExcused ==
    ASSUME EmptyInv, AskTelrads
    PROVE  EmptyInv'
<1>1. UNCHANGED <<inv, todo, mishaps, holder>>
  BY DEF AskTelrads
<1>2. ASSUME NEW t \in tasks' PROVE TaskIsExcused(t)
  <2>1. PICK n \in inv : t = [Task(n, "telrad") EXCEPT !.got.model = "12300"]
    BY DEF AskTelrads
  <2> QED
    BY <2>1, NewTaskExcused DEF EmptyInv
<1> QED
  BY <1>1, <1>2, AsksExcused DEF EmptyInv

\* A model that is noted empties nothing.
LEMMA NotedExcused ==
    ASSUME NEW n, DOMAIN n = Fields, EmptyIsExcused(n), NEW v
    PROVE  EmptyIsExcused(Set(n, {"model"}, v))
BY SetModel DEF EmptyIsExcused

LEMMA AskBaicellsExcused ==
    ASSUME IInv, EmptyInv, AskBaicells
    PROVE  EmptyInv'
<1>1. UNCHANGED <<todo, mishaps, holder>>
  BY DEF AskBaicells
<1>2. PICK asked : asked = {n \in inv : IsBaicells(n)}
  OBVIOUS
<1>3. PICK noted : noted = {Set(n, {"model"}, "baicells") : n \in asked}
  OBVIOUS
<1>4. inv' = (inv \ asked) \cup noted /\ tasks' = {Task(n, "baicells") : n \in noted}
  BY <1>2, <1>3 DEF AskBaicells
<1>5. ASSUME NEW i \in noted PROVE EmptyIsExcused(i)
  <2>1. PICK n \in inv : i = Set(n, {"model"}, "baicells")
    BY <1>2, <1>3
  <2>2. DOMAIN n = Fields /\ EmptyIsExcused(n)
    BY DEF IInv, ItemsAreOwn, OwnItem, EmptyInv
  <2> QED
    BY <2>1, <2>2, NotedExcused
<1>6. ASSUME NEW t \in tasks' PROVE TaskIsExcused(t)
  <2>1. PICK n \in noted : t = Task(n, "baicells")
    BY <1>4
  <2> QED
    BY <1>5, <2>1, NewTaskExcused
<1>7. \A n \in inv' : EmptyIsExcused(n)
  BY <1>4, <1>5 DEF EmptyInv
<1> QED
  BY <1>1, <1>6, <1>7, AsksExcused

LEMMA AskSnmpExcused ==
    ASSUME EmptyInv, AskSnmp
    PROVE  EmptyInv'
<1>1. UNCHANGED <<inv, todo, mishaps, holder>>
  BY DEF AskSnmp
<1>2. ASSUME NEW t \in tasks' PROVE TaskIsExcused(t)
  <2>1. PICK n \in inv : t = Task(n, "snmp")
    BY DEF AskSnmp
  <2> QED
    BY <2>1, NewTaskExcused DEF EmptyInv
<1> QED
  BY <1>1, <1>2, AsksExcused DEF EmptyInv

LEMMA GatheredExcused ==
    ASSUME IInv, EmptyInv, Gathered
    PROVE  EmptyInv'
<1>1. UNCHANGED <<inv, mishaps>> /\ tasks' = {}
  BY DEF Gathered
<1>2. ASSUME NEW r \in todo' PROVE EmptyIsExcused(r.item)
  <2>1. PICK t \in tasks :
          /\ r = [item |-> IF pc = "baicells" THEN Set(t.got, {"model"}, "baicells") ELSE t.got,
                  own |-> t.got = t.of]
          /\ t.left = <<>>
    BY DEF Gathered
  <2>2. EmptyIsExcused(t.got) /\ DOMAIN t.got = Fields
    BY <2>1 DEF EmptyInv, TaskIsExcused, IInv, TasksAreOwn, TaskIsOwn
  <2>3. EmptyIsExcused(Set(t.got, {"model"}, "baicells"))
    BY <2>2, NotedExcused
  <2> QED
    BY <2>1, <2>2, <2>3
<1>3. \A n : EmptyIsExcused(n) => EmptyIsExcused(n)'
  BY <1>1, EmptyStays
<1> QED
  BY <1>1, <1>2, <1>3 DEF EmptyInv

LEMMA MoveExcused ==
    ASSUME PlaceInv, EmptyInv, NEW a \in Addresses, NEW e \in Devices, Move(a, e)
    PROVE  EmptyInv'
<1>1. UNCHANGED <<inv, tasks, todo>> /\ mishaps \subseteq mishaps'
      /\ \A x \in {holder[a], e} \ {None} : <<"moved", x, "ip">> \in mishaps'
  BY DEF Move
<1>2. \A x \in Addresses : holder'[x] \in {e, None, holder[x]}
  BY DEF Move
<1>3. ASSUME NEW t \in tasks PROVE TaskIsExcused(t)'
  <2>1. TaskIsExcused(t)
    BY DEF EmptyInv
  <2>2. EmptyIsExcused(t.of)' /\ (t.left = <<>> => EmptyIsExcused(t.got)')
    BY <1>1, <2>1, EmptyStays DEF TaskIsExcused
  <2>3. EmptyCameBack(t)'
    BY <1>1, <2>1, ExcuseStays DEF TaskIsExcused, EmptyCameBack
  <2>4. t.at \in Addresses
    BY DEF PlaceInv
  <2>5. UnreadIsExcused(t)'
    <3> SUFFICES ASSUME t.reader = "baicells", t.left # <<>>,
                        NEW f \in Asked(t.left), t.got[f] = Absent,
                        NEW d \in t.from \cup {holder'[t.at]}, d \in Devices, Kind[d] = "baicells"
                 PROVE  Excused(d, f)'
      BY DEF UnreadIsExcused
    <3>1. CASE d = e
      <4>1. <<"moved", d, "ip">> \in mishaps'
        BY <1>1, <3>1, DevicesAssumption
      <4> QED
        BY <4>1 DEF Excused, Happened
    <3>2. CASE d # e
      <4>1. holder'[t.at] \in {e, None, holder[t.at]}
        BY <1>2, <2>4
      <4>2. d \in t.from \/ d = holder[t.at]
        <5>1. d # None
          BY DevicesAssumption
        <5>2. d \in t.from \/ d = holder'[t.at]
          OBVIOUS
        <5> QED
          BY <3>2, <4>1, <5>1, <5>2
      <4>3. Excused(d, f)
        BY <2>1, <4>2 DEF TaskIsExcused, UnreadIsExcused
      <4> QED
        BY <1>1, <4>3, ExcuseStays
    <3> QED
      BY <3>1, <3>2
  <2> QED
    BY <2>1, <2>2, <2>3, <2>5 DEF TaskIsExcused
<1>4. (\A i \in inv : EmptyIsExcused(i))' /\ (\A r \in todo : EmptyIsExcused(r.item))'
  BY <1>1, EmptyStays DEF EmptyInv
<1> QED
  BY <1>1, <1>3, <1>4 DEF EmptyInv

-----------------------------------------------------------------------------
(* What is forgotten: the merge. *)

LEMMA MergedIsExcused ==
    ASSUME NEW items, NEW n, NEW r, Joined(items, n, r),
           \A k \in 1..n : EmptyIsExcused(items[k])
    PROVE  EmptyIsExcused(Merged(items))
<1> DEFINE i == Merged(items)
<1> SUFFICES ASSUME NEW d \in Ids(i), NEW f \in Read, i[f] = None, ~Torn(d)
             PROVE  Excused(d, f)
  BY DEF EmptyIsExcused, Excused
<1>1. PICK k \in 1..n : d \in Its(items[k])
  BY IdsAreIts, MergedIts
<1>2. \A j \in 1..n : d \in Ids(items[j])
  BY <1>1, AllOfOne
<1>3. f \in Fields /\ None # Absent
  BY DevicesAssumption DEF Fields
<1>4. PICK j \in 1..n : items[j][f] = None
  BY <1>3, MergedFromItems DEF Joined, OwnItem
<1> QED
  BY <1>2, <1>4 DEF EmptyIsExcused

\* Of a device that is not torn the merged item knows what one of the items knew, but
\* for what a later one has empty.
LEMMA MergedKnows ==
    ASSUME NEW items, NEW n, NEW r, Joined(items, n, r),
           NEW j \in 1..n, NEW d \in Ids(items[j]), ~Torn(d),
           NEW f \in Read, items[j][f] \notin Missing
    PROVE  d \in Ids(Merged(items)) /\ Merged(items)[f] # Absent
<1> DEFINE i == Merged(items)
<1>1. /\ n \in Nat \ {0} /\ DOMAIN items = 1..n
      /\ \A k \in 1..n : DOMAIN items[k] = Fields
  BY DEF Joined, OwnItem
<1>2. Read \subseteq Fields /\ {"mac", "imei", "imsi"} \subseteq Read
  BY DEF Fields, Read
<1>3. n \in 1..n
  BY <1>1
<1>4. Ids(items[n]) = {d}
  BY <1>3, IdsAreIts, AllOfOne
<1>5. PICK g \in {"mac", "imei", "imsi"} : items[n][g] = d /\ d \notin Missing
  BY <1>4 DEF Ids, Keys
<1>6. g \in Fields /\ items[n][g] # Absent
  BY <1>2, <1>5 DEF Missing
<1>7. PICK k \in 1..n : i[g] = items[k][g] /\ k >= n
  BY <1>1, <1>3, <1>6, MergedField
<1>8. k = n
  BY <1>1, <1>7
<1>9. d \in Ids(i)
  <2>1. <<g, d>> \in Keys(i)
    BY <1>5, <1>7, <1>8 DEF Keys
  <2> QED
    BY <2>1 DEF Ids
<1>10. i[f] # Absent
  BY <1>1, <1>2, MergedField DEF Missing
<1> QED
  BY <1>9, <1>10

LEMMA AddExcused ==
    ASSUME IInv, EmptyInv, Add
    PROVE  EmptyInv'
<1>1. UNCHANGED <<holder, tasks, mishaps>>
  BY DEF Add
<1>2. PICK r \in todo : AddNothing(r) \/ AddNew(r) \/ Merge(r)
  BY DEF Add
<1>3. (\A i : EmptyIsExcused(i) => EmptyIsExcused(i)') /\ \A t \in tasks' : TaskIsExcused(t)'
  BY <1>1, EmptyStays, TaskExcuseStays DEF EmptyInv
<1>4. CASE AddNothing(r)
  BY <1>3, <1>4 DEF AddNothing, EmptyInv
<1>5. CASE AddNew(r)
  BY <1>3, <1>5 DEF AddNew, EmptyInv
<1>6. CASE Merge(r)
  <2>1. PICK s, items, n :
          /\ Joined(items, n, r.item)
          /\ inv' = (inv \ ToSet(s)) \cup {Merged(items)}
          /\ \A q \in todo' : \E p \in todo : q = p \/ q = [p EXCEPT !.item = Merged(items)]
          /\ \A k \in 1..n : items[k] \in inv \cup {r.item}
    BY <1>6, MergeJoins
  <2> DEFINE mine == Merged(items)
  <2>2. EmptyIsExcused(mine)
    BY <2>1, MergedIsExcused DEF EmptyInv
  <2> HIDE DEF mine
  <2>3. ASSUME NEW q \in todo' PROVE EmptyIsExcused(q.item)
    <3>1. PICK p \in todo : q = p \/ q = [p EXCEPT !.item = mine]
      BY <2>1 DEF mine
    <3>2. DOMAIN p = {"item", "own"} /\ EmptyIsExcused(p.item)
      BY DEF IInv, ResultsAreOwn, EmptyInv
    <3> QED
      BY <2>2, <3>1, <3>2
  <2>4. inv' \subseteq inv \cup {mine}
    BY <2>1 DEF mine
  <2> QED
    BY <1>3, <2>2, <2>3, <2>4 DEF EmptyInv
<1> QED
  BY <1>2, <1>4, <1>5, <1>6

LEMMA StartIsExcused == Init => EmptyInv
<1> SUFFICES ASSUME Init, NEW i \in inv, NEW d \in Ids(i), NEW f \in Read, i[f] = None
             PROVE  Excused(d, f)
  BY DEF Init, EmptyInv, EmptyIsExcused
<1>1. <<"unusable", d, f>> \in Unusable(i)
  BY DEF Unusable
<1>2. mishaps = UNION {Unusable(j) : j \in inv}
  BY DEF Init
<1>3. <<"unusable", d, f>> \in mishaps
  BY <1>1, <1>2
<1> QED
  BY <1>3 DEF Excused, Happened

LEMMA StepKeepsExcused == IInv /\ PlaceInv /\ EmptyInv /\ [Next]_vars => EmptyInv'
<1> SUFFICES ASSUME IInv, PlaceInv, EmptyInv, [Next]_vars PROVE EmptyInv'
  OBVIOUS
<1>1. CASE UNCHANGED <<inv, holder, tasks, todo, mishaps>>
  BY <1>1, EmptyStays, TaskExcuseStays DEF EmptyInv
<1>2. CASE Ask
  BY <1>1, <1>2, AskTelradsExcused, AskBaicellsExcused, AskSnmpExcused DEF Ask, End
<1>3. ASSUME NEW t \in tasks, Reply(t) PROVE EmptyInv'
  BY <1>3, GetValueExcused, NoValueExcused, GetPartOfPageExcused, GetUnusableIdentifierExcused,
     GetRaisesExcused, NoSessionExcused, GetBannerExcused, GetTestExcused DEF Reply
<1> QED
  BY <1>1, <1>2, <1>3, GatheredExcused, AddExcused, MoveExcused DEF Next, vars

-----------------------------------------------------------------------------
(* The second theorem. *)

LEMMA MergeForgets ==
    ASSUME IInv, EmptyInv, NEW r \in todo, Merge(r),
           NEW d, NEW f \in Knows(inv, d), f \notin Knows(inv', d)
    PROVE  Excused(d, f)
<1>1. PICK i \in inv : d \in Ids(i) /\ i[f] \notin Missing
  BY DEF Knows
<1>2. f \in Read
  BY DEF Knows
<1>3. PICK s, items, n :
        /\ Joined(items, n, r.item)
        /\ \A x \in ToSet(s) : \E k \in 1..n : x = items[k]
        /\ inv' = (inv \ ToSet(s)) \cup {Merged(items)}
        /\ \A k \in 1..n : items[k] \in inv \cup {r.item}
  BY MergeJoins
<1> SUFFICES ASSUME ~Torn(d) PROVE Excused(d, f)
  BY DEF Excused
<1> DEFINE mine == Merged(items)
<1>4. EmptyIsExcused(mine)
  BY <1>3, MergedIsExcused DEF EmptyInv
<1>5. PICK j \in 1..n : i = items[j]
  <2>1. i \in ToSet(s)
    BY <1>1, <1>2, <1>3 DEF Knows
  <2> QED
    BY <1>3, <2>1
<1>6. d \in Ids(mine) /\ mine[f] # Absent
  BY <1>1, <1>2, <1>3, <1>5, MergedKnows
<1>7. mine \in inv'
  BY <1>3
<1> HIDE DEF mine
<1>8. mine[f] = None
  BY <1>2, <1>6, <1>7 DEF Knows, Missing
<1> QED
  BY <1>2, <1>4, <1>6, <1>8 DEF EmptyIsExcused

LEMMA AskBaicellsForgetsNothing ==
    ASSUME IInv, AskBaicells, NEW d
    PROVE  Knows(inv, d) \subseteq Knows(inv', d)
<1> SUFFICES ASSUME NEW f \in Read, NEW i \in inv, d \in Ids(i), i[f] \notin Missing
             PROVE  \E j \in inv' : d \in Ids(j) /\ j[f] \notin Missing
  BY DEF Knows
<1> DEFINE asked == {n \in inv : IsBaicells(n)}
           noted == {Set(n, {"model"}, "baicells") : n \in asked}
<1>1. inv' = (inv \ asked) \cup noted
  BY DEF AskBaicells
<1>2. CASE i \in asked
  <2>1. Set(i, {"model"}, "baicells") \in inv'
    BY <1>1, <1>2
  <2>2. DOMAIN i = Fields
    BY DEF IInv, ItemsAreOwn, OwnItem
  <2>3. /\ Ids(Set(i, {"model"}, "baicells")) = Ids(i)
        /\ Set(i, {"model"}, "baicells")[f] = i[f]
    BY <2>2, SetModel
  <2> QED
    BY <2>1, <2>3
<1>3. CASE i \notin asked
  BY <1>1, <1>3
<1> QED
  BY <1>2, <1>3

LEMMA StepForgets ==
    ASSUME IInv, EmptyInv, [Next]_vars, NEW d, NEW f \in Knows(inv, d) \ Knows(inv', d)
    PROVE  Excused(d, f)
<1>1. inv' # inv
  BY DEF Knows
<1>2. CASE AskBaicells
  BY <1>2, AskBaicellsForgetsNothing
<1>3. ASSUME NEW r \in todo, AddNew(r) PROVE FALSE
  <2>1. inv \subseteq inv'
    BY <1>3 DEF AddNew
  <2> QED
    BY <2>1 DEF Knows
<1>4. ASSUME NEW r \in todo, Merge(r) PROVE Excused(d, f)
  BY <1>4, MergeForgets
<1>5. \/ AskBaicells \/ Add
      \/ UNCHANGED inv
  <2>1. ASSUME NEW t \in tasks, Reply(t) PROVE UNCHANGED inv
    BY <2>1 DEF Reply, GetValue, NoValue, GetPartOfPage, GetUnusableIdentifier, GetRaises,
                NoSession, GetBanner, GetTest, Asks
  <2> QED
    BY <2>1 DEF Next, Ask, AskTelrads, AskSnmp, End, Gathered, Move, vars
<1> QED
  BY <1>1, <1>2, <1>3, <1>4, <1>5 DEF Add, AddNothing

\* No reader and no merge makes the inventory forget what it knows of a device, in
\* whatever order the reads of all devices are answered, fail or are answered by
\* others, but for the exceptions that ForgottenOnlyIfUnread names.
THEOREM OnlyTheUnreadIsForgotten == Spec => ForgottenOnlyIfUnread
<1> DEFINE Step == \A d \in Devices : \A f \in Knows(inv, d) \ Knows(inv', d) :
                       \/ Happened("unusable", d, f) \/ Happened("torn", d, "ip")
                       \/ /\ Kind[d] = "baicells"
                          /\ Happened("lost", d, f) \/ Happened("moved", d, "ip")
<1>1. Init => EmptyInv
  BY StartIsExcused
<1>2. IInv /\ PlaceInv /\ EmptyInv /\ [Next]_vars => EmptyInv'
  BY StepKeepsExcused
<1>3. IInv /\ EmptyInv /\ [Next]_vars => [Step]_vars
  BY StepForgets DEF Excused, Torn
<1>4. Spec => []EmptyInv
  BY PlaceHolds, <1>1, <1>2, PTL DEF Spec
<1>5. Spec => [][Step]_vars
  BY PlaceHolds, <1>3, <1>4, PTL DEF Spec
<1> QED
  BY <1>5 DEF ForgottenOnlyIfUnread

-----------------------------------------------------------------------------
(* The readers, one after the other. *)

LEMMA SetIp ==
    ASSUME NEW i, DOMAIN i = Fields, NEW S, "ip" \notin S, NEW v
    PROVE  Set(i, S, v).ip = i.ip /\ Assigned(i).ip = i.ip
BY FieldsOfItems DEF Set, Assigned

\* What becomes of a task that goes on.
LEMMA GoesMakes ==
    ASSUME NEW t, DOMAIN t = {"at", "of", "reader", "left", "got", "banner", "from"},
           NEW v, DOMAIN v = DOMAIN t, v.at = t.at, v.of = t.of, v.reader = t.reader,
           DOMAIN v.got = Fields, Goes(t, v)
    PROVE  \E u : /\ tasks' = (tasks \ {t}) \cup {u}
                  /\ u.at = t.at /\ u.of = t.of /\ u.reader = t.reader /\ u.banner = v.banner
                  /\ u.left = Tail(t.left)
                  /\ u.got = IF t.reader = "baicells" /\ Tail(t.left) = <<>> THEN Assigned(v.got)
                                                                           ELSE v.got
                  /\ u.got.ip = v.got.ip
<1> DEFINE g == IF t.reader = "baicells" /\ Tail(t.left) = <<>> THEN Assigned(v.got) ELSE v.got
           u == [v EXCEPT !.left = Tail(t.left), !.got = g]
<1>1. tasks' = (tasks \ {t}) \cup {u}
  BY DEF Goes
<1>2. g.ip = v.got.ip
  BY SetIp
<1> HIDE DEF g
<1>3. u.at = t.at /\ u.of = t.of /\ u.got = g /\ u.reader = t.reader /\ u.left = Tail(t.left)
      /\ u.banner = v.banner
  OBVIOUS
<1> HIDE DEF u
<1> QED
  BY <1>1, <1>2, <1>3 DEF g

\* A read goes on without an address, or is over with the inventory's own item.
LEMMA ReplyMakes ==
    ASSUME IInv, PhaseInv, NEW t \in tasks, Reply(t)
    PROVE  \E u : /\ tasks' = (tasks \ {t}) \cup {u}
                  /\ u.of = t.of
                  /\ u.got.ip = Absent \/ (u.left = <<>> /\ u.got = t.of)
                  /\ u.reader = "baicells" => t.reader = "baicells"
<1>1. t.left # <<>>
  BY DEF Reply, GetValue, NoValue, GetPartOfPage, GetUnusableIdentifier, GetRaises, NoSession,
         GetBanner, GetTest, Asks, Running
<1>2. /\ DOMAIN t = {"at", "of", "reader", "left", "got", "banner", "from"}
      /\ DOMAIN t.got = Fields /\ t.got.ip = Absent
  BY <1>1, HasRead DEF PhaseInv, TaskInPhase
<1> DEFINE Made == \E u : /\ tasks' = (tasks \ {t}) \cup {u}
                          /\ u.of = t.of
                          /\ u.got.ip = Absent \/ (u.left = <<>> /\ u.got = t.of)
                          /\ u.reader = "baicells" => t.reader = "baicells"
<1> SUFFICES Made
  OBVIOUS
<1> HIDE DEF Made
<1>3. ASSUME NEW v, DOMAIN v = DOMAIN t, v.at = t.at, v.of = t.of, v.reader = t.reader,
             DOMAIN v.got = Fields, v.got.ip = Absent, Goes(t, v)
      PROVE  Made
  BY <1>2, <1>3, GoesMakes DEF Made
<1>4. ASSUME NEW got, DOMAIN got = Fields, got.ip = Absent, NEW from,
             Goes(t, [t EXCEPT !.got = got, !.from = from])
      PROVE  Made
  <2> DEFINE v == [t EXCEPT !.got = got, !.from = from]
  <2>1. /\ DOMAIN v = DOMAIN t /\ v.at = t.at /\ v.of = t.of /\ v.got = got
        /\ v.reader = t.reader
    BY <1>2
  <2> HIDE DEF v
  <2>2. Goes(t, v)
    BY <1>4 DEF v
  <2> QED
    BY <1>3, <1>4, <2>1, <2>2
<1>5. ASSUME NEW i, i.ip = Absent \/ i = t.of, Ends(t, i) PROVE Made
  <2> DEFINE u == [t EXCEPT !.left = <<>>, !.got = i]
  <2>1. tasks' = (tasks \ {t}) \cup {u}
    BY <1>5 DEF Ends
  <2>2. u.of = t.of /\ u.got = i /\ u.left = <<>> /\ u.reader = t.reader
    BY <1>2
  <2> HIDE DEF u
  <2> QED
    BY <1>5, <2>1, <2>2 DEF Made
<1>6. ASSUME Goes(t, t) PROVE Made
  BY <1>2, <1>3, <1>6
<1>7. Bare.ip = Absent
  BY DEF Bare
<1>8. ASSUME t.reader # "snmp", NEW S, S \subseteq Head(t.left), NEW v
      PROVE  DOMAIN Set(t.got, S, v) = Fields /\ Set(t.got, S, v).ip = Absent
  <2>1. "ip" \notin S
    BY <1>1, <1>8, AskedForValues, FieldsOfItems
  <2>2. Set(t.got, S, v).ip = Absent
    BY <1>2, <2>1, SetIp
  <2>3. DOMAIN Set(t.got, S, v) = Fields
    BY <1>1, <1>8, AnswerIts
  <2> QED
    BY <2>2, <2>3
<1>9. CASE GetValue(t)
  <2>1. /\ t.reader # "snmp"
        /\ Goes(t, [t EXCEPT !.got = Set(t.got, Head(t.left), holder[t.at]), !.from = Who(t)])
    BY <1>9 DEF GetValue, Asks
  <2> QED
    BY <1>4, <1>8, <2>1
<1>10. CASE NoValue(t)
  BY <1>5, <1>6, <1>7, <1>10 DEF NoValue
<1>11. CASE GetPartOfPage(t)
  <2>1. t.reader # "snmp"
    BY <1>11 DEF GetPartOfPage, Asks
  <2>2. PICK lacks \in SUBSET Head(t.left) :
          Goes(t, [t EXCEPT !.got = Set(t.got, Head(t.left) \ lacks, holder[t.at]),
                            !.from = Who(t)])
    BY <1>11 DEF GetPartOfPage
  <2>3. /\ DOMAIN Set(t.got, Head(t.left) \ lacks, holder[t.at]) = Fields
        /\ Set(t.got, Head(t.left) \ lacks, holder[t.at]).ip = Absent
    BY <1>8, <2>1
  <2> QED
    BY <1>4, <2>2, <2>3
<1>12. CASE GetUnusableIdentifier(t)
  <2>1. t.reader # "snmp"
    BY <1>12 DEF GetUnusableIdentifier, Asks
  <2>2. PICK f \in Head(t.left) :
          Goes(t, [t EXCEPT !.got = Set(Set(t.got, Head(t.left), holder[t.at]), {f}, None),
                            !.from = Who(t)])
    BY <1>12 DEF GetUnusableIdentifier
  <2> DEFINE read == Set(t.got, Head(t.left), holder[t.at])
             got == Set(read, {f}, None)
  <2>3. DOMAIN read = Fields /\ read.ip = Absent
    BY <1>8, <2>1
  <2>4. Goes(t, [t EXCEPT !.got = got, !.from = Who(t)])
    BY <2>2
  <2> HIDE DEF read
  <2>5. {f} \subseteq Read /\ "ip" \notin {f}
    BY <1>1, <2>1, AskedForValues, FieldsOfItems
  <2>6. DOMAIN got = Fields /\ got.ip = Absent
    BY <2>3, <2>5, SetIp, SetIts
  <2> HIDE DEF got
  <2> QED
    BY <1>4, <2>4, <2>6
<1>13. CASE GetRaises(t)
  BY <1>5, <1>7, <1>13 DEF GetRaises
<1>14. CASE NoSession(t)
  BY <1>5, <1>14 DEF NoSession
<1>15. CASE GetBanner(t)
  <2>1. CASE Goes(t, [t EXCEPT !.banner = holder[t.at], !.from = Who(t)])
    <3> DEFINE v == [t EXCEPT !.banner = holder[t.at], !.from = Who(t)]
    <3>1. /\ DOMAIN v = DOMAIN t /\ v.at = t.at /\ v.of = t.of /\ v.got = t.got
          /\ v.reader = t.reader
      BY <1>2
    <3> HIDE DEF v
    <3>2. Goes(t, v)
      BY <2>1 DEF v
    <3> QED
      BY <1>2, <1>3, <3>1, <3>2
  <2>2. CASE Goes(t, t)
    BY <1>6, <2>2
  <2> QED
    BY <1>15, <2>1, <2>2 DEF GetBanner
<1>16. CASE GetTest(t)
  <2>1. PICK tested \in BOOLEAN :
          LET reader == ReaderFor(t, tested)
          IN tasks' = (tasks \ {t}) \cup
                 {[t EXCEPT !.reader = reader, !.left = Requests(reader),
                            !.got = [Bare EXCEPT !.model = ModelFor(t, reader)],
                            !.from = IF tested THEN Who(t) ELSE t.from]}
    BY <1>16 DEF GetTest
  <2> DEFINE reader == ReaderFor(t, tested)
             got == [Bare EXCEPT !.model = ModelFor(t, reader)]
             u == [t EXCEPT !.reader = reader, !.left = Requests(reader), !.got = got,
                            !.from = IF tested THEN Who(t) ELSE t.from]
  <2>2. tasks' = (tasks \ {t}) \cup {u}
    BY <2>1
  <2>3. got.ip = Absent
    BY DEF Bare
  <2>4. reader # "baicells"
    BY DEF ReaderFor
  <2> HIDE DEF got, reader
  <2>5. u.of = t.of /\ u.got = got /\ u.reader = reader
    BY <1>2
  <2> HIDE DEF u
  <2> QED
    BY <2>2, <2>3, <2>4, <2>5 DEF Made
<1> QED
  BY <1>9, <1>10, <1>11, <1>12, <1>13, <1>14, <1>15, <1>16 DEF Reply

LEMMA TaskIs ==
    ASSUME NEW n, NEW reader
    PROVE  LET t == Task(n, reader)
           IN /\ t.of = n /\ t.got = Bare /\ t.got.ip = Absent /\ t.at = n.ip
              /\ t.reader = reader /\ t.left = Requests(reader)
BY DEF Task, Bare

LEMMA TelradTaskIs ==
    ASSUME NEW n
    PROVE  LET t == [Task(n, "telrad") EXCEPT !.got.model = "12300"]
           IN /\ t.of = n /\ t.got.ip = Absent /\ t.got.model = "12300" /\ t.at = n.ip
              /\ t.reader = "telrad" /\ t.left = TelradPages
BY DEF Task, Bare, Requests

LEMMA AskInPhase ==
    ASSUME PhaseInv, Ask
    PROVE  PhaseInv'
<1>1. todo = {} /\ UNCHANGED <<todo, holder>>
  BY DEF PhaseInv, Ask, AskTelrads, AskBaicells, AskSnmp, End, Idle
<1>2. CASE AskTelrads
  <2>1. pc' = "telrad" /\ UNCHANGED inv
    BY <1>2 DEF AskTelrads
  <2>2. ASSUME NEW t \in tasks' PROVE TaskInPhase(t)'
    <3>1. PICK n \in inv : t = [Task(n, "telrad") EXCEPT !.got.model = "12300"]
      BY <1>2 DEF AskTelrads
    <3> QED
      BY <2>1, <3>1, TelradTaskIs DEF TaskInPhase
  <2> QED
    BY <1>1, <2>1, <2>2 DEF PhaseInv
<1>3. CASE AskBaicells
  <2>1. pc' = "baicells"
    BY <1>3 DEF AskBaicells
  <2>2. ASSUME NEW t \in tasks' PROVE TaskInPhase(t)'
    <3>1. PICK n \in inv' : t = Task(n, "baicells")
      BY <1>3 DEF AskBaicells
    <3>2. t.of = n /\ t.got.ip = Absent /\ t.reader = "baicells"
      BY <3>1, TaskIs
    <3> QED
      BY <2>1, <3>1, <3>2 DEF TaskInPhase
  <2> QED
    BY <1>1, <2>1, <2>2 DEF PhaseInv
<1>4. CASE AskSnmp
  <2>1. pc' = "snmp" /\ UNCHANGED inv
    BY <1>4 DEF AskSnmp
  <2>2. ASSUME NEW t \in tasks' PROVE TaskInPhase(t)'
    <3>1. PICK n \in inv : t = Task(n, "snmp")
      BY <1>4 DEF AskSnmp
    <3>2. t.of = n /\ t.got.ip = Absent /\ t.reader = "snmp"
      BY <3>1, TaskIs
    <3> QED
      BY <2>1, <3>1, <3>2 DEF TaskInPhase
  <2> QED
    BY <1>1, <2>1, <2>2 DEF PhaseInv
<1>5. CASE End
  BY <1>1, <1>5 DEF End, Idle, PhaseInv, TaskInPhase
<1> QED
  BY <1>2, <1>3, <1>4, <1>5 DEF Ask

LEMMA ReplyInPhase ==
    ASSUME IInv, PhaseInv, NEW t \in tasks, Reply(t)
    PROVE  PhaseInv'
<1>1. UNCHANGED <<pc, inv, holder, todo>>
  BY DEF Reply, GetValue, NoValue, GetPartOfPage, GetUnusableIdentifier, GetRaises, NoSession,
         GetBanner, GetTest, Asks
<1>2. PICK u : /\ tasks' = (tasks \ {t}) \cup {u}
               /\ u.of = t.of
               /\ u.got.ip = Absent \/ (u.left = <<>> /\ u.got = t.of)
               /\ u.reader = "baicells" => t.reader = "baicells"
  BY ReplyMakes
<1>3. ASSUME NEW x \in tasks PROVE TaskInPhase(x)'
  BY <1>1 DEF PhaseInv, TaskInPhase
<1>4. TaskInPhase(u)'
  BY <1>1, <1>2 DEF PhaseInv, TaskInPhase
<1>5. \A x \in tasks' : TaskInPhase(x)'
  BY <1>2, <1>3, <1>4
<1>6. todo = {} /\ pc \notin {"start", "end"}
  BY DEF PhaseInv, Idle
<1> QED
  BY <1>1, <1>5, <1>6 DEF PhaseInv

LEMMA StepKeepsPhase == IInv /\ PhaseInv /\ [Next]_vars => PhaseInv'
<1> SUFFICES ASSUME IInv, PhaseInv, [Next]_vars PROVE PhaseInv'
  OBVIOUS
<1>1. CASE Gathered
  <2>1. tasks # {} /\ tasks' = {} /\ UNCHANGED <<pc, holder>>
    BY <1>1 DEF Gathered
  <2>2. pc \notin {"start", "end"}
    BY <2>1 DEF PhaseInv, Idle
  <2> QED
    BY <2>1, <2>2 DEF PhaseInv
<1>2. CASE Add
  <2>1. todo # {} /\ UNCHANGED <<pc, holder, tasks>>
    BY <1>2 DEF Add
  <2>2. pc \notin {"start", "end"} /\ tasks = {}
    BY <2>1 DEF PhaseInv, Idle
  <2> QED
    BY <2>1, <2>2 DEF PhaseInv
<1>3. ASSUME NEW a \in Addresses, NEW d \in Devices, Move(a, d) PROVE PhaseInv'
  <2>1. UNCHANGED <<pc, inv, tasks, todo>>
    BY <1>3 DEF Move
  <2>2. holder' \in [Addresses -> Devices \cup {None}]
    BY <1>3 DEF Move, PhaseInv
  <2> QED
    BY <2>1, <2>2 DEF PhaseInv, Idle, TaskInPhase
<1>4. CASE UNCHANGED vars
  BY <1>4 DEF vars, PhaseInv, Idle, TaskInPhase
<1> QED
  BY <1>1, <1>2, <1>3, <1>4, AskInPhase, ReplyInPhase DEF Next

LEMMA StartIsInPhase == Init => PhaseInv
BY DevicesAssumption DEF Init, PhaseInv, Idle

-----------------------------------------------------------------------------
(* What is owed: a reader at work. *)

\* Nothing has happened to the device.
LEMMA NothingHappened ==
    ASSUME NEW d, Unharmed(d), NEW f
    PROVE  ~Excused(d, f) /\ ~Torn(d) /\ ~Happened("lost", d, f)
BY DEF Unharmed, Excused, Torn, Happened

LEMMA WasUnharmed ==
    ASSUME NEW d, Unharmed(d)', mishaps \subseteq mishaps'
    PROVE  Unharmed(d)
BY DEF Unharmed

\* The device at the address understands the reader of its kind.
LEMMA ReaderIsUnderstood ==
    ASSUME IInv, NEW t \in tasks, t.left # <<>>, NEW d \in Devices, t.reader = ReaderOf(d)
    PROVE  t.reader # "snmp" /\ d \in Understands(t.reader, Head(t.left))
<1>1. Kind[d] \in Kinds
  BY DevicesAssumption
<1>2. t.reader # "snmp"
  BY <1>1 DEF ReaderOf, Kinds
<1>3. Head(t.left) # {"test"} /\ Head(t.left) # {"banner"}
  BY <1>2, AskedForValues DEF Read
<1>4. Kind[d] \in KindsThat(t.reader, Head(t.left))
  BY <1>1, <1>3 DEF ReaderOf, Kinds, KindsThat
<1> QED
  BY <1>2, <1>4 DEF Understands

\* What goes wrong with a request of its reader goes wrong with the device.
LEMMA MishapHarms ==
    ASSUME NEW t, NEW d, d = holder[t.at], d \in Understands(t.reader, Head(t.left)),
           NEW what, NEW about, about # {}, Note(t, what, about)
    PROVE  ~Unharmed(d)'
<1>1. d \in Who(t)
  BY DEF Who
<1>2. PICK f : f \in about
  OBVIOUS
<1>3. <<what, d, f>> \in mishaps'
  BY <1>1, <1>2 DEF Note
<1> QED
  BY <1>3 DEF Unharmed

\* An answer to a request for values.
LEMMA AnswerFits ==
    ASSUME IInv, NEW t \in tasks, t.left # <<>>, NEW d \in Devices, Reads(t, d),
           t.reader # "snmp", GetValue(t), d = holder[t.at]
    PROVE  \E u : tasks' = (tasks \ {t}) \cup {u} /\ u.at = t.at /\ Reads(u, d)
<1>1. /\ DOMAIN t = {"at", "of", "reader", "left", "got", "banner", "from"}
      /\ DOMAIN t.got = Fields
  BY HasRead
<1> DEFINE got == Set(t.got, Head(t.left), d)
           v == [t EXCEPT !.got = got, !.from = Who(t)]
<1>2. Goes(t, v)
  BY DEF GetValue
<1>3. DOMAIN v = DOMAIN t /\ v.at = t.at /\ v.of = t.of /\ v.reader = t.reader /\ v.got = got
  BY <1>1
<1>4. Head(t.left) \subseteq Read /\ "ip" \notin Head(t.left) /\ t.left \in Seq(SUBSET Read)
  <2>1. Head(t.left) \subseteq Read
    BY AskedForValues
  <2>2. t.left \in Seq(SUBSET Read)
    BY LeftType
  <2> QED
    BY <2>1, <2>2, FieldsOfItems
<1>5. DOMAIN got = Fields /\ got.model = t.got.model /\ got.ip = Absent
  <2>1. DOMAIN got = Fields /\ got.model = t.got.model
    BY AnswerIts
  <2>2. got.ip = t.got.ip
    BY <1>1, <1>4, SetIp
  <2> QED
    BY <2>1, <2>2 DEF Reads
<1>6. /\ t.of.ip = t.at /\ t.reader = ReaderOf(d)
      /\ \A k \in 1..Len(t.left) : t.left[k] # {}
      /\ \A f \in Asked(t.left) : t.got[f] = d
      /\ t.reader = "baicells" \/ t.got.model = Kind[d]
  BY DEF Reads
<1>7. ASSUME NEW f \in Asked(Tail(t.left)) PROVE got[f] = d
  <2>1. f \in Read
    BY DEF Asked
  <2>2. f \in Head(t.left) \/ t.got[f] = d
    BY <1>4, <1>6, AskedTail
  <2> QED
    BY <1>1, <2>1, <2>2, SetFields
<1>8. ASSUME NEW k \in 1..Len(Tail(t.left)) PROVE Tail(t.left)[k] # {}
  <2>1. k + 1 \in 1..Len(t.left) /\ Tail(t.left)[k] = t.left[k + 1]
    BY <1>4
  <2> QED
    BY <1>6, <2>1
<1> HIDE DEF got, v
<1>9. PICK u : /\ tasks' = (tasks \ {t}) \cup {u}
               /\ u.at = t.at /\ u.of = t.of /\ u.reader = t.reader /\ u.left = Tail(t.left)
               /\ u.got = IF t.reader = "baicells" /\ Tail(t.left) = <<>> THEN Assigned(got)
                                                                        ELSE got
               /\ u.got.ip = got.ip
  <2>1. DOMAIN v = DOMAIN t /\ DOMAIN v.got = Fields
    BY <1>3, <1>5
  <2>2. \E u : /\ tasks' = (tasks \ {t}) \cup {u}
               /\ u.at = t.at /\ u.of = t.of /\ u.reader = t.reader /\ u.banner = v.banner
               /\ u.left = Tail(t.left)
               /\ u.got = IF t.reader = "baicells" /\ Tail(t.left) = <<>> THEN Assigned(v.got)
                                                                        ELSE v.got
               /\ u.got.ip = v.got.ip
    BY <1>1, <1>2, <1>3, <2>1, GoesMakes
  <2> QED
    BY <1>3, <2>2
<1>10. ASSUME NEW f \in Asked(Tail(t.left)) PROVE u.got[f] = d
  <2>1. CASE t.reader = "baicells" /\ Tail(t.left) = <<>>
    <3>1. f \in Fields /\ got[f] = d /\ d # Absent
      BY <1>7, DevicesAssumption DEF Asked, Fields
    <3> QED
      BY <1>5, <1>9, <2>1, <3>1 DEF Assigned
  <2>2. CASE ~(t.reader = "baicells" /\ Tail(t.left) = <<>>)
    BY <1>7, <1>9, <2>2
  <2> QED
    BY <2>1, <2>2
<1>11. t.reader = "baicells" \/ u.got.model = Kind[d]
  BY <1>5, <1>6, <1>9
<1>12. Reads(u, d)
  BY <1>5, <1>6, <1>8, <1>9, <1>10, <1>11 DEF Reads
<1> QED
  BY <1>9, <1>12

\* The readers of the four kinds ask for all there is to know.
LEMMA AllIsAsked ==
    ASSUME NEW reader \in {"telrad", "baicells", "12000", "bec"}
    PROVE  /\ Asked(Requests(reader)) = {}
           /\ \A k \in 1..Len(Requests(reader)) : Requests(reader)[k] # {}
<1>1. ASSUME NEW left, NEW n \in Nat, Len(left) = n,
             \A f \in Read : \E k \in 1..n : f \in left[k]
      PROVE  Asked(left) = {}
  BY <1>1 DEF Asked
<1>2. CASE reader = "telrad"
  <2>1. /\ Len(TelradPages) = 3 /\ TelradPages[1] = {"imsi", "imei", "signal"}
        /\ TelradPages[2] = {"signal"} /\ TelradPages[3] = {"mac"}
    BY DEF TelradPages
  <2>2. 1 \in 1..3 /\ 3 \in 1..3 /\ \A k \in 1..3 : k = 1 \/ k = 2 \/ k = 3
    OBVIOUS
  <2>3. Requests(reader) = TelradPages
    BY <1>2 DEF Requests
  <2>4. \A f \in Read : \E k \in 1..3 : f \in TelradPages[k]
    BY <2>1, <2>2 DEF Read
  <2> QED
    BY <1>1, <2>1, <2>2, <2>3, <2>4
<1>3. ASSUME NEW left, Len(left) = 4,
             \A f \in Read : \E k \in 1..4 : left[k] = {f},
             \A k \in 1..4 : \E f \in Read : left[k] = {f}
      PROVE  Asked(left) = {} /\ \A k \in 1..Len(left) : left[k] # {}
  <2>1. \A f \in Read : \E k \in 1..4 : f \in left[k]
    BY <1>3
  <2>2. Asked(left) = {}
    BY <1>1, <1>3, <2>1
  <2>3. \A k \in 1..4 : left[k] # {}
    BY <1>3
  <2> QED
    BY <1>3, <2>2, <2>3
<1>4. 1 \in 1..4 /\ 2 \in 1..4 /\ 3 \in 1..4 /\ 4 \in 1..4
      /\ \A k \in 1..4 : k = 1 \/ k = 2 \/ k = 3 \/ k = 4
  OBVIOUS
<1>5. CASE reader = "baicells"
  <2>1. /\ Len(BaicellsValues) = 4 /\ BaicellsValues[1] = {"imei"} /\ BaicellsValues[2] = {"mac"}
        /\ BaicellsValues[3] = {"imsi"} /\ BaicellsValues[4] = {"signal"}
    BY DEF BaicellsValues
  <2>2. Requests(reader) = BaicellsValues
    BY <1>5 DEF Requests
  <2>3. /\ \A f \in Read : \E k \in 1..4 : BaicellsValues[k] = {f}
        /\ \A k \in 1..4 : \E f \in Read : BaicellsValues[k] = {f}
    BY <1>4, <2>1 DEF Read
  <2> QED
    BY <1>3, <2>1, <2>2, <2>3
<1>6. CASE reader = "12000"
  <2>1. /\ Len(SnmpTelrad12000) = 4 /\ SnmpTelrad12000[1] = {"mac"}
        /\ SnmpTelrad12000[2] = {"imei"} /\ SnmpTelrad12000[3] = {"imsi"}
        /\ SnmpTelrad12000[4] = {"signal"}
    BY DEF SnmpTelrad12000
  <2>2. Requests(reader) = SnmpTelrad12000
    BY <1>6 DEF Requests
  <2>3. /\ \A f \in Read : \E k \in 1..4 : SnmpTelrad12000[k] = {f}
        /\ \A k \in 1..4 : \E f \in Read : SnmpTelrad12000[k] = {f}
    BY <1>4, <2>1 DEF Read
  <2> QED
    BY <1>3, <2>1, <2>2, <2>3
<1>7. CASE reader = "bec"
  <2>1. /\ Len(SnmpBec6900) = 4 /\ SnmpBec6900[1] = {"mac"} /\ SnmpBec6900[2] = {"signal"}
        /\ SnmpBec6900[3] = {"imei"} /\ SnmpBec6900[4] = {"imsi"}
    BY DEF SnmpBec6900
  <2>2. Requests(reader) = SnmpBec6900
    BY <1>7 DEF Requests
  <2>3. /\ \A f \in Read : \E k \in 1..4 : SnmpBec6900[k] = {f}
        /\ \A k \in 1..4 : \E f \in Read : SnmpBec6900[k] = {f}
    BY <1>4, <2>1 DEF Read
  <2> QED
    BY <1>3, <2>1, <2>2, <2>3
<1> QED
  BY <1>2, <1>5, <1>6, <1>7

\* A read by SNMP that has not found out yet what the device is.
LEMMA ReadsBySnmp ==
    ASSUME NEW t, NEW d \in Devices, Reads(t, d), t.reader = "snmp"
    PROVE  /\ Kind[d] \in {"12000", "bec"}
           /\ t.left = SnmpFirst \/ (t.left = <<{"test"}>> /\ t.banner = d)
<1>1. Kind[d] \in Kinds
  BY DevicesAssumption
<1>2. ReaderOf(d) # "snmp"
  BY <1>1 DEF ReaderOf, Kinds
<1> QED
  BY <1>2 DEF Reads

\* The device says what it is.
LEMMA BannerFits ==
    ASSUME IInv, NEW t \in tasks, NEW d \in Devices, Reads(t, d), GetBanner(t),
           d = holder[t.at], Unharmed(d)'
    PROVE  \E u : tasks' = (tasks \ {t}) \cup {u} /\ u.at = t.at /\ Reads(u, d)
<1>1. t.left # <<>> /\ Head(t.left) = {"banner"}
  BY DEF GetBanner, Running
<1>2. /\ DOMAIN t = {"at", "of", "reader", "left", "got", "banner", "from"}
      /\ DOMAIN t.got = Fields
  BY <1>1, HasRead
<1>3. t.reader = "snmp" /\ Tail(t.left) = <<{"test"}>>
  BY <1>1, WhatItIs
<1>4. Kind[d] \in {"12000", "bec"}
  BY <1>3, ReadsBySnmp
<1>5. d \in Understands(t.reader, Head(t.left))
  <2>1. KindsThat("snmp", {"banner"}) = Kinds \ {"baicells"}
    BY DEF KindsThat
  <2> QED
    BY <1>1, <1>3, <1>4, <2>1 DEF Understands, Kinds
<1>6. ~Note(t, "lost", {"banner"})
  BY <1>5, MishapHarms
<1>7. Goes(t, [t EXCEPT !.banner = holder[t.at], !.from = Who(t)])
  BY <1>6 DEF GetBanner
<1> DEFINE v == [t EXCEPT !.banner = holder[t.at], !.from = Who(t)]
<1>8. /\ DOMAIN v = DOMAIN t /\ v.at = t.at /\ v.of = t.of /\ v.got = t.got
      /\ v.reader = t.reader /\ v.banner = d
  BY <1>2
<1> HIDE DEF v
<1>9. Goes(t, v)
  BY <1>7 DEF v
<1>10. DOMAIN v.got = Fields
  BY <1>2, <1>8
<1>11. PICK u : /\ tasks' = (tasks \ {t}) \cup {u}
                /\ u.at = t.at /\ u.of = t.of /\ u.reader = t.reader /\ u.banner = v.banner
                /\ u.left = Tail(t.left)
                /\ u.got.ip = v.got.ip
  <2>1. \E u : /\ tasks' = (tasks \ {t}) \cup {u}
               /\ u.at = t.at /\ u.of = t.of /\ u.reader = t.reader /\ u.banner = v.banner
               /\ u.left = Tail(t.left)
               /\ u.got = IF t.reader = "baicells" /\ Tail(t.left) = <<>> THEN Assigned(v.got)
                                                                        ELSE v.got
               /\ u.got.ip = v.got.ip
    BY <1>2, <1>8, <1>9, <1>10, GoesMakes
  <2> QED
    BY <2>1
<1>12. t.of.ip = t.at /\ t.got.ip = Absent
  BY DEF Reads
<1>13. Reads(u, d)
  BY <1>3, <1>4, <1>8, <1>11, <1>12 DEF Reads
<1> QED
  BY <1>11, <1>13

\* The reader of its kind is chosen for a device that has answered what it understands.
LEMMA ReaderIsChosen ==
    ASSUME IInv, NEW t \in tasks, NEW d \in Devices, Reads(t, d), d = holder[t.at],
           t.left # <<>>, Head(t.left) = {"test"}, NEW tested \in BOOLEAN,
           tested => Answers(t), Note(t, "lost", IF tested THEN {} ELSE {"test"}), Unharmed(d)'
    PROVE  /\ ReaderFor(t, tested) = Kind[d] /\ ModelFor(t, Kind[d]) = Kind[d]
           /\ Kind[d] \in {"12000", "bec"} /\ t.reader = "snmp"
<1>1. t.reader = "snmp"
  BY WhatItIs
<1>2. t.left = <<{"test"}>>
  BY WhatItIs
<1>3. t.left # SnmpFirst
  BY <1>2 DEF SnmpFirst
<1>4. Kind[d] \in {"12000", "bec"} /\ t.banner = d
  BY <1>1, <1>3, ReadsBySnmp
<1>5. d \in Understands(t.reader, Head(t.left)) <=> Kind[d] = "12000"
  BY <1>1 DEF Understands, KindsThat
<1>6. Says(t, {"12300"}) = FALSE /\ d # None
  BY <1>4, DevicesAssumption DEF Says
<1>7. CASE Kind[d] = "12000"
  <2>1. tested
    <3>1. ASSUME ~tested PROVE FALSE
      <4>1. Note(t, "lost", {"test"})
        BY <3>1
      <4> QED
        BY <1>5, <1>7, <4>1, MishapHarms
    <3> QED
      BY <3>1
  <2> QED
    BY <1>1, <1>7, <2>1 DEF ReaderFor, ModelFor
<1>8. CASE Kind[d] = "bec"
  <2>1. ~tested
    BY <1>5, <1>8 DEF Answers
  <2>2. d \notin GdmBanner
    BY <1>8, DevicesAssumption
  <2>3. Says(t, {"bec"}) /\ ~Says(t, {"12300", "12000"})
    BY <1>4, <1>6, <1>8 DEF Says
  <2>4. ~SaysGdm(t) /\ IsBec(t)
    BY <1>4, <1>6, <2>2, <2>3 DEF SaysGdm, IsBec
  <2> QED
    BY <1>1, <1>8, <2>1, <2>3, <2>4 DEF ReaderFor, ModelFor
<1> QED
  BY <1>4, <1>7, <1>8

LEMMA TestFits ==
    ASSUME IInv, NEW t \in tasks, NEW d \in Devices, Reads(t, d), GetTest(t),
           d = holder[t.at], Unharmed(d)'
    PROVE  \E u : tasks' = (tasks \ {t}) \cup {u} /\ u.at = t.at /\ Reads(u, d)
<1>1. t.left # <<>> /\ Head(t.left) = {"test"}
  BY DEF GetTest, Running
<1>2. DOMAIN t = {"at", "of", "reader", "left", "got", "banner", "from"}
  BY <1>1, HasRead
<1>3. PICK tested \in BOOLEAN :
        LET reader == ReaderFor(t, tested)
        IN /\ tested => Answers(t)
           /\ Note(t, "lost", IF tested THEN {} ELSE {"test"})
           /\ tasks' = (tasks \ {t}) \cup
                  {[t EXCEPT !.reader = reader, !.left = Requests(reader),
                             !.got = [Bare EXCEPT !.model = ModelFor(t, reader)],
                             !.from = IF tested THEN Who(t) ELSE t.from]}
  BY DEF GetTest
<1>4. /\ ReaderFor(t, tested) = Kind[d] /\ ModelFor(t, Kind[d]) = Kind[d]
      /\ Kind[d] \in {"12000", "bec"}
  BY <1>1, <1>3, ReaderIsChosen
<1> DEFINE got == [Bare EXCEPT !.model = Kind[d]]
           from == IF tested THEN Who(t) ELSE t.from
           u == [t EXCEPT !.reader = Kind[d], !.left = Requests(Kind[d]), !.got = got,
                          !.from = from]
<1>5. tasks' = (tasks \ {t}) \cup {u}
  BY <1>3, <1>4
<1>6. got.model = Kind[d] /\ got.ip = Absent
  BY DEF Bare
<1> HIDE DEF got, from
<1>7. u.reader = Kind[d] /\ u.left = Requests(Kind[d]) /\ u.got = got /\ u.at = t.at /\ u.of = t.of
  BY <1>2
<1> HIDE DEF u
<1>8. Asked(u.left) = {} /\ \A k \in 1..Len(u.left) : u.left[k] # {}
  BY <1>4, <1>7, AllIsAsked
<1>9. ReaderOf(d) = Kind[d] /\ t.of.ip = t.at
  BY <1>4 DEF ReaderOf, Reads
<1>10. Reads(u, d)
  BY <1>6, <1>7, <1>8, <1>9 DEF Reads
<1> QED
  BY <1>5, <1>7, <1>10

\* Whatever a read of the device gets to hear that is no mishap of it, it is still one
\* that has had all its answers.
LEMMA ReplyFits ==
    ASSUME IInv, NEW t \in tasks, Reply(t), NEW d \in Devices, Reads(t, d), d = holder[t.at],
           Unharmed(d)'
    PROVE  \E u : tasks' = (tasks \ {t}) \cup {u} /\ u.at = t.at /\ Reads(u, d)
<1>1. CASE GetBanner(t)
  BY <1>1, BannerFits
<1>2. CASE GetTest(t)
  BY <1>2, TestFits
<1>3. ASSUME t.left # <<>>, t.reader # "snmp", ~GetValue(t) PROVE ~Reply(t) \/ GetBanner(t) \/ GetTest(t)
  <2>1. t.reader = ReaderOf(d)
    BY <1>3 DEF Reads
  <2>2. d \in Understands(t.reader, Head(t.left)) /\ Head(t.left) # {} /\ Head(t.left) \subseteq Read
    <3>1. d \in Understands(t.reader, Head(t.left))
      BY <1>3, <2>1, ReaderIsUnderstood
    <3>2. t.left \in Seq(SUBSET Read)
      BY <1>3, LeftType
    <3>3. 1 \in 1..Len(t.left) /\ Head(t.left) = t.left[1]
      BY <1>3, <3>2
    <3> QED
      BY <1>3, <3>1, <3>3, AskedForValues DEF Reads
  <2>3. \A what, about : about # {} => ~Note(t, what, about)
    BY <2>2, MishapHarms
  <2>4. ~NoValue(t)
    BY <2>2, <2>3 DEF NoValue
  <2>5. ~GetPartOfPage(t)
    BY <2>3 DEF GetPartOfPage
  <2>6. ~GetUnusableIdentifier(t)
    <3>1. \A f : {f} # {}
      OBVIOUS
    <3> QED
      BY <2>3, <3>1 DEF GetUnusableIdentifier
  <2>7. ~GetRaises(t) /\ ~NoSession(t)
    <3>1. Read # {}
      BY DEF Read
    <3> QED
      BY <2>3, <3>1 DEF GetRaises, NoSession
  <2> QED
    BY <1>3, <2>4, <2>5, <2>6, <2>7 DEF Reply
<1>4. CASE ~GetBanner(t) /\ ~GetTest(t)
  <2>1. t.left # <<>> /\ t.reader # "snmp"
    BY <1>4 DEF Reply, GetValue, NoValue, GetPartOfPage, GetUnusableIdentifier, GetRaises,
                NoSession, Asks, Running
  <2>2. GetValue(t)
    BY <1>3, <1>4, <2>1
  <2> QED
    BY <2>1, <2>2, AnswerFits
<1> QED
  BY <1>1, <1>2, <1>4

-----------------------------------------------------------------------------
(* What is owed: the results are added. *)

\* An item that is whole has all identifiers, so it equals all that has one of them.
LEMMA WholeIsSame ==
    ASSUME NEW d \in Devices, NEW i, WholeItem(i, d)
    PROVE  /\ d \in Ids(i) /\ Keys(i) # {}
           /\ \A j : d \in Ids(j) => Same(j, i)
<1>1. \A f \in {"mac", "imei", "imsi"} : i[f] = d /\ i[f] \notin Missing
  BY DevicesAssumption DEF WholeItem, Read, Missing
<1>2. \A f \in {"mac", "imei", "imsi"} : <<f, d>> \in Keys(i)
  BY <1>1 DEF Keys
<1>3. d \in Ids(i) /\ Keys(i) # {}
  BY <1>2 DEF Ids
<1>4. ASSUME NEW j, d \in Ids(j) PROVE Same(j, i)
  <2>1. PICK f \in {"mac", "imei", "imsi"} : <<f, j[f]>> \in Keys(j) /\ j[f] = d
    BY <1>4 DEF Ids, Keys
  <2> QED
    BY <1>2, <2>1 DEF Same
<1> QED
  BY <1>3, <1>4

\* All that is merged with an item of a device nothing has happened to is of it, and
\* nothing of it is lost.
LEMMA MergedOfUnharmed ==
    ASSUME NEW items, NEW n, NEW r, Joined(items, n, r),
           \A k \in 1..n : EmptyIsExcused(items[k]),
           NEW d \in Devices, Unharmed(d), \E k \in 1..n : d \in Its(items[k])
    PROVE  /\ \A k \in 1..n : d \in Ids(items[k])
           /\ \A k \in 1..n : \A f \in Read : items[k][f] \notin Missing => Merged(items)[f] = d
           /\ \A k \in 1..n : items[k].model = Kind[d] => Merged(items).model = Kind[d]
           /\ \A k \in 1..n : WholeItem(items[k], d) => WholeItem(Merged(items), d)
           /\ Merged(items).ip \notin Missing => \E k \in 1..n : items[k].ip = Merged(items).ip
<1> DEFINE m == Merged(items)
<1>1. \A k \in 1..n : Its(items[k]) = {d} /\ Ids(items[k]) = {d}
  BY NothingHappened, AllOfOne
<1>2. /\ n \in Nat \ {0} /\ DOMAIN items = 1..n
      /\ \A k \in 1..n : DOMAIN items[k] = Fields /\ OwnItem(items[k])
  BY DEF Joined, OwnItem
<1>3. Read \subseteq Fields /\ "model" \in Fields /\ "ip" \in Fields
  BY DEF Fields
<1>4. \A f \in Fields :
          \/ m[f] = Absent /\ \A k \in 1..n : items[k][f] = Absent
          \/ \E k \in 1..n : m[f] = items[k][f] /\ items[k][f] # Absent
  BY <1>2, MergedField
<1> HIDE DEF m
<1>5. ASSUME NEW k \in 1..n, NEW f \in Read, items[k][f] \notin Missing PROVE m[f] = d
  <2>1. f \in Fields /\ items[k][f] # Absent
    BY <1>3, <1>5 DEF Missing
  <2>2. PICK j \in 1..n : m[f] = items[j][f] /\ items[j][f] # Absent
    BY <1>4, <2>1
  <2>3. items[j][f] # None
    BY <1>1, NothingHappened DEF EmptyIsExcused
  <2>4. items[j][f] \in Its(items[j])
    BY <2>2, <2>3 DEF Its, Missing
  <2> QED
    BY <1>1, <2>2, <2>4
<1>6. ASSUME NEW k \in 1..n, items[k].model = Kind[d] PROVE m.model = Kind[d]
  <2>1. CASE m["model"] = Absent /\ \A j \in 1..n : items[j]["model"] = Absent
    BY <1>6, <2>1
  <2>2. CASE \E j \in 1..n : m["model"] = items[j]["model"] /\ items[j]["model"] # Absent
    <3>1. PICK j \in 1..n : m["model"] = items[j]["model"] /\ items[j]["model"] # Absent
      BY <2>2
    <3>2. RightModel(items[j]) /\ d \in Ids(items[j])
      BY <1>1, <1>2, NothingHappened, OwnFromOne
    <3> QED
      BY <3>1, <3>2, NothingHappened DEF RightModel
  <2> QED
    BY <1>3, <1>4, <2>1, <2>2
<1>7. ASSUME NEW k \in 1..n, WholeItem(items[k], d) PROVE WholeItem(m, d)
  <2>1. d \notin Missing
    BY DevicesAssumption DEF Missing
  <2>2. \A f \in Read : m[f] = d
    BY <1>5, <1>7, <2>1 DEF WholeItem
  <2> QED
    BY <1>6, <1>7, <2>2 DEF WholeItem
<1>8. m.ip \notin Missing => \E k \in 1..n : items[k].ip = m.ip
  BY <1>3, <1>4 DEF Missing
<1> QED
  BY <1>1, <1>5, <1>6, <1>7, <1>8 DEF m

\* Once all items of a device are whole they stay so, and they are as soon as one that is
\* whole is merged.
LEMMA MergeWhole ==
    ASSUME IInv, EmptyInv, NEW r \in todo, Merge(r), NEW d \in Devices, Unharmed(d),
           AllWhole(d) \/ WholeItem(r.item, d)
    PROVE  AllWhole(d)'
<1>1. PICK s, items, n :
        /\ Joined(items, n, r.item)
        /\ \A i \in ToSet(s) : \E k \in 1..n : i = items[k]
        /\ inv' = (inv \ ToSet(s)) \cup {Merged(items)}
        /\ \A k \in 1..n : items[k] \in inv \cup {r.item}
        /\ \E k \in 1..n : items[k] \in inv
        /\ \E k \in 1..n : items[k] = r.item
        /\ \A i \in Equal(r) \ ToSet(s) : ~Same(i, Merged(items))
  BY MergeJoins
<1> DEFINE m == Merged(items)
<1>2. \A k \in 1..n : EmptyIsExcused(items[k])
  BY <1>1 DEF EmptyInv
<1>3. ASSUME \E k \in 1..n : d \in Its(items[k])
      PROVE  /\ \A k \in 1..n : d \in Ids(items[k])
             /\ \A k \in 1..n : WholeItem(items[k], d) => WholeItem(m, d)
  BY <1>1, <1>2, <1>3, MergedOfUnharmed
<1>4. d \in Ids(m) => \E k \in 1..n : d \in Its(items[k])
  BY <1>1, IdsAreIts, MergedIts
<1> HIDE DEF m
<1>5. ASSUME NEW k \in 1..n, WholeItem(items[k], d) PROVE WholeItem(m, d)
  BY <1>3, <1>5, WholeIsSame, IdsAreIts
<1>6. inv' = (inv \ ToSet(s)) \cup {m} /\ \A i \in Equal(r) \ ToSet(s) : ~Same(i, m)
  BY <1>1 DEF m
<1>7. CASE WholeItem(r.item, d)
  <2>1. WholeItem(m, d)
    BY <1>1, <1>5, <1>7
  <2>2. ASSUME NEW i \in inv \ ToSet(s), d \in Ids(i) PROVE FALSE
    <3>1. Same(i, r.item) /\ Same(i, m)
      BY <1>7, <2>1, <2>2, WholeIsSame
    <3> QED
      BY <1>6, <3>1 DEF Equal
  <2>3. \A i \in inv' : d \in Ids(i) => WholeItem(i, d)
    BY <1>6, <2>1, <2>2
  <2> QED
    BY <1>6, <2>1, <2>3 DEF AllWhole
<1>8. CASE AllWhole(d)
  <2>1. PICK w \in inv : WholeItem(w, d)
    BY <1>8 DEF AllWhole
  <2>2. w \in ToSet(s) => WholeItem(m, d)
    BY <1>1, <1>5, <2>1
  <2>3. ASSUME d \in Ids(m) PROVE WholeItem(m, d)
    <3>1. PICK k \in 1..n : items[k] \in inv
      BY <1>1
    <3>2. d \in Ids(items[k])
      BY <1>3, <1>4, <2>3
    <3>3. WholeItem(items[k], d)
      BY <1>8, <3>1, <3>2 DEF AllWhole
    <3> QED
      BY <1>5, <3>3
  <2>4. \A i \in inv' : d \in Ids(i) => WholeItem(i, d)
    BY <1>6, <1>8, <2>3 DEF AllWhole
  <2>5. \E i \in inv' : WholeItem(i, d)
    BY <1>6, <2>1, <2>2
  <2> QED
    BY <2>4, <2>5 DEF AllWhole
<1> QED
  BY <1>7, <1>8

LEMMA AddOwed ==
    ASSUME IInv, EmptyInv, Add, NEW d \in Devices, Unharmed(d), NEW a, Owed(a, d)
    PROVE  Owed(a, d)'
<1>1. PICK r \in todo : AddNothing(r) \/ AddNew(r) \/ Merge(r)
  BY DEF Add
<1>2. CASE \E t \in tasks : t.at = a /\ Reads(t, d)
  <2>1. UNCHANGED tasks
    BY DEF Add
  <2> QED
    BY <1>2, <2>1 DEF Owed
<1>3. \A q \in todo \ {r} : ~q.own => q \in todo'
  <2>1. CASE Merge(r)
    BY <2>1, MergeJoins
  <2> QED
    BY <1>1, <2>1 DEF AddNothing, AddNew
<1>4. ASSUME AddNew(r), AllWhole(d) \/ WholeItem(r.item, d) PROVE AllWhole(d)'
  <2>1. inv' = inv \cup {r.item} /\ \A i \in inv : ~Same(i, r.item)
    BY <1>4 DEF AddNew, Equal
  <2>2. CASE AllWhole(d)
    <3>1. PICK w \in inv : WholeItem(w, d)
      BY <2>2 DEF AllWhole
    <3>2. Same(r.item, w) => Same(w, r.item)
      BY DEF Same
    <3>3. d \notin Ids(r.item)
      BY <2>1, <3>1, <3>2, WholeIsSame
    <3> QED
      BY <2>1, <2>2, <3>3 DEF AllWhole
  <2>3. CASE WholeItem(r.item, d)
    <3>1. \A i \in inv : d \notin Ids(i)
      BY <2>1, <2>3, WholeIsSame
    <3> QED
      BY <2>1, <2>3, <3>1 DEF AllWhole
  <2> QED
    BY <1>4, <2>2, <2>3
<1>5. CASE AllWhole(d)
  <2>1. CASE AddNothing(r)
    BY <1>5, <2>1 DEF AddNothing, AllWhole, Owed
  <2> QED
    BY <1>1, <1>4, <1>5, <2>1, MergeWhole DEF Owed
<1>6. CASE \E q \in todo : ~q.own /\ WholeItem(q.item, d)
  <2>1. PICK q \in todo : ~q.own /\ WholeItem(q.item, d)
    BY <1>6
  <2>2. CASE q # r
    BY <1>3, <2>1, <2>2 DEF Owed
  <2>3. CASE q = r
    <3>1. ~AddNothing(r)
      BY <2>1, <2>3, WholeIsSame DEF AddNothing
    <3> QED
      BY <1>1, <1>4, <2>1, <2>3, <3>1, MergeWhole DEF Owed
  <2> QED
    BY <2>2, <2>3
<1> QED
  BY <1>2, <1>5, <1>6 DEF Owed

\* The readers can tell a merged item as they could what it is made of.
LEMMA MergedIsTold ==
    ASSUME NEW items, NEW n, NEW r, Joined(items, n, r),
           \A k \in 1..n : EmptyIsExcused(items[k]),
           NEW d \in Devices, Unharmed(d), d \in Ids(Merged(items)), Merged(items).ip \notin Missing,
           \A k \in 1..n : d \in Ids(items[k]) /\ items[k].ip \notin Missing => Told(items[k], d)
    PROVE  Told(Merged(items), d) /\ \E k \in 1..n : /\ items[k].ip = Merged(items).ip
                                                    /\ d \in Ids(items[k])
<1> DEFINE m == Merged(items)
<1>1. \E k \in 1..n : d \in Its(items[k])
  BY IdsAreIts, MergedIts
<1>2. /\ \A k \in 1..n : d \in Ids(items[k])
      /\ \A k \in 1..n : \A f \in Read : items[k][f] \notin Missing => m[f] = d
      /\ \A k \in 1..n : items[k].model = Kind[d] => m.model = Kind[d]
      /\ \E k \in 1..n : items[k].ip = m.ip
  BY <1>1, MergedOfUnharmed
<1>3. m.ip \notin Missing
  OBVIOUS
<1> HIDE DEF m
<1>4. PICK k \in 1..n : items[k].ip = m.ip
  BY <1>2
<1>5. Told(items[k], d)
  BY <1>2, <1>3, <1>4
<1>6. d \notin Missing /\ {"imei", "mac"} \subseteq Read
  BY DevicesAssumption DEF Missing, Read
<1>7. ASSUME Kind[d] = "12300" PROVE m.imei = d
  <2>1. items[k]["imei"] \notin Missing
    BY <1>5, <1>6, <1>7 DEF Told
  <2>2. m["imei"] = d
    BY <1>2, <1>6, <2>1
  <2> QED
    BY <2>2
<1>8. ASSUME Kind[d] = "baicells" PROVE IsBaicells(m)
  <2>1. CASE items[k].model = "baicells"
    BY <1>2, <1>3, <1>8, <2>1 DEF IsBaicells
  <2>2. CASE \E f \in {"imei", "mac"} : items[k][f] \notin Missing
    <3>1. PICK f \in {"imei", "mac"} : items[k][f] \notin Missing
      BY <2>2
    <3>2. m[f] = d
      BY <1>2, <1>6, <3>1
    <3> QED
      BY <1>3, <1>6, <1>8, <3>2 DEF IsBaicells
  <2> QED
    BY <1>5, <1>8, <2>1, <2>2 DEF Told, IsBaicells
<1> QED
  BY <1>2, <1>4, <1>7, <1>8 DEF Told, m

LEMMA AddScan ==
    ASSUME IInv, EmptyInv, ScanInv, Add
    PROVE  ScanInv'
<1>1. UNCHANGED <<pc, holder, tasks, mishaps>>
  BY DEF Add
<1> SUFFICES ASSUME NEW d \in Devices, Unharmed(d), Recognized(d),
                    NEW i \in Items', d \in Ids(i), i.ip \notin Missing
             PROVE  Told(i, d) /\ (Turn(d) /\ holder[i.ip] = d => Owed(i.ip, d)')
  BY <1>1 DEF ScanInv, Unharmed, Turn
<1>2. \A j \in Items : d \in Ids(j) /\ j.ip \notin Missing =>
          Told(j, d) /\ (Turn(d) /\ holder[j.ip] = d => Owed(j.ip, d))
  BY DEF ScanInv
<1>3. \A a : Owed(a, d) => Owed(a, d)'
  BY AddOwed
<1>4. CASE i \in Items
  BY <1>2, <1>3, <1>4
<1>5. CASE i \notin Items
  <2>1. PICK r \in todo : AddNothing(r) \/ AddNew(r) \/ Merge(r)
    BY DEF Add
  <2>2. Merge(r)
    <3>1. AddNothing(r) \/ AddNew(r) => Items' \subseteq Items
      BY DEF AddNothing, AddNew, Items
    <3> QED
      BY <1>5, <2>1, <3>1
  <2>3. PICK s, items, n :
          /\ Joined(items, n, r.item)
          /\ inv' = (inv \ ToSet(s)) \cup {Merged(items)}
          /\ \A q \in todo' : \E p \in todo : q = p \/ q = [p EXCEPT !.item = Merged(items)]
          /\ \A k \in 1..n : items[k] \in inv \cup {r.item}
    BY <2>2, MergeJoins
  <2>4. i = Merged(items)
    <3> DEFINE m == Merged(items)
    <3>1. inv' \subseteq inv \cup {m} /\ \A q \in todo' : \E p \in todo : q = p \/ q = [p EXCEPT !.item = m]
      BY <2>3
    <3> HIDE DEF m
    <3>2. \A p \in todo : DOMAIN p = {"item", "own"}
      BY DEF IInv, ResultsAreOwn
    <3>3. \A q \in todo' : q.item \in {p.item : p \in todo} \cup {m}
      BY <3>1, <3>2
    <3>4. Items' \subseteq Items \cup {m}
      BY <3>1, <3>3 DEF Items
    <3> QED
      BY <1>5, <3>4 DEF m
  <2>5. \A k \in 1..n : items[k] \in Items
    BY <2>3 DEF Items
  <2>6. \A k \in 1..n : EmptyIsExcused(items[k])
    BY <2>3 DEF EmptyInv
  <2>7. \A k \in 1..n : d \in Ids(items[k]) /\ items[k].ip \notin Missing => Told(items[k], d)
    BY <1>2, <2>5
  <2>8. Told(i, d) /\ \E k \in 1..n : items[k].ip = i.ip /\ d \in Ids(items[k])
    BY <2>3, <2>4, <2>6, <2>7, MergedIsTold
  <2> QED
    BY <1>2, <1>3, <2>5, <2>8
<1> QED
  BY <1>4, <1>5

-----------------------------------------------------------------------------
(* What is owed: the readers begin and end, and the addresses pass on. *)

\* The results of a reader are whole if what was asked for was answered.
LEMMA GatheredOwed ==
    ASSUME IInv, PhaseInv, Gathered, NEW d \in Devices, NEW a, a \notin Missing, Owed(a, d)
    PROVE  Owed(a, d)'
<1>1. tasks # {} /\ (\A t \in tasks : t.left = <<>>) /\ UNCHANGED inv
  BY DEF Gathered
<1>2. todo = {}
  BY <1>1 DEF PhaseInv
<1>3. CASE AllWhole(d)
  BY <1>1, <1>3 DEF AllWhole, Owed
<1>4. CASE \E t \in tasks : t.at = a /\ Reads(t, d)
  <2>1. PICK t \in tasks : t.at = a /\ Reads(t, d)
    BY <1>4
  <2>2. t.left = <<>>
    BY <1>1
  <2>3. t.left # SnmpFirst /\ t.left # <<{"test"}>>
    BY <2>2 DEF SnmpFirst
  <2>4. /\ t.of.ip = a /\ t.got.ip = Absent /\ t.reader = ReaderOf(d)
        /\ \A f \in Asked(t.left) : t.got[f] = d
        /\ t.reader = "baicells" \/ t.got.model = Kind[d]
    BY <2>1, <2>3 DEF Reads
  <2>5. Asked(t.left) = Read
    BY <2>2 DEF Asked
  <2>6. t.got # t.of
    BY <2>4 DEF Missing
  <2>7. /\ pc = "baicells" <=> t.reader = "baicells"
        /\ DOMAIN t.got = Fields
    BY DEF PhaseInv, TaskInPhase, IInv, TasksAreOwn, TaskIsOwn
  <2> DEFINE item == IF pc = "baicells" THEN Set(t.got, {"model"}, "baicells") ELSE t.got
  <2>8. WholeItem(item, d)
    <3>1. CASE pc = "baicells"
      <4>1. Kind[d] = "baicells"
        <5>1. Kind[d] \in Kinds
          BY DevicesAssumption
        <5> QED
          BY <2>4, <2>7, <3>1, <5>1 DEF ReaderOf, Kinds
      <4>2. /\ \A f \in Read : Set(t.got, {"model"}, "baicells")[f] = t.got[f]
            /\ Set(t.got, {"model"}, "baicells").model = "baicells"
        BY <2>7, SetModel
      <4> QED
        BY <2>4, <2>5, <3>1, <4>1, <4>2 DEF WholeItem
    <3>2. CASE pc # "baicells"
      BY <2>4, <2>5, <2>7, <3>2 DEF WholeItem
    <3> QED
      BY <3>1, <3>2
  <2>9. [item |-> item, own |-> t.got = t.of] \in todo'
    BY DEF Gathered
  <2> HIDE DEF item
  <2>10. \E r \in todo' : ~r.own /\ WholeItem(r.item, d)
    BY <2>6, <2>8, <2>9
  <2> QED
    BY <2>10 DEF Owed
<1> QED
  BY <1>2, <1>3, <1>4 DEF Owed

LEMMA GatheredScan ==
    ASSUME IInv, PhaseInv, ScanInv, Gathered
    PROVE  ScanInv'
<1>1. UNCHANGED <<pc, inv, holder, mishaps>>
  BY DEF Gathered
<1> SUFFICES ASSUME NEW d \in Devices, Unharmed(d), Recognized(d),
                    NEW i \in Items', d \in Ids(i), i.ip \notin Missing
             PROVE  Told(i, d) /\ (Turn(d) /\ holder[i.ip] = d => Owed(i.ip, d)')
  BY <1>1 DEF ScanInv, Unharmed, Turn
<1>2. ASSUME NEW j \in inv, d \in Ids(j), j.ip \notin Missing
      PROVE  Told(j, d) /\ (Turn(d) /\ holder[j.ip] = d => Owed(j.ip, d)')
  <2>1. Told(j, d) /\ (Turn(d) /\ holder[j.ip] = d => Owed(j.ip, d))
    BY <1>2 DEF ScanInv, Items
  <2> QED
    BY <1>2, <2>1, GatheredOwed
<1>3. CASE i \in inv
  BY <1>2, <1>3
<1>4. CASE i \notin inv
  <2>1. PICK r \in todo' : i = r.item
    BY <1>1, <1>4 DEF Items
  <2>2. PICK t \in tasks :
          r = [item |-> IF pc = "baicells" THEN Set(t.got, {"model"}, "baicells") ELSE t.got,
               own |-> t.got = t.of]
    BY DEF Gathered
  <2>3. i = IF pc = "baicells" THEN Set(t.got, {"model"}, "baicells") ELSE t.got
    BY <2>1, <2>2
  <2>4. DOMAIN t.got = Fields
    BY DEF IInv, TasksAreOwn, TaskIsOwn
  <2>5. i.ip = t.got.ip
    BY <2>3, <2>4, SetIp, FieldsOfItems
  <2>6. t.of \in inv /\ t.got = t.of
    BY <2>5 DEF PhaseInv, TaskInPhase, Missing
  <2>7. CASE pc = "baicells"
    <3>1. /\ Ids(i) = Ids(t.of) /\ i.model = "baicells"
          /\ \A f \in Read : i[f] = t.of[f]
      BY <2>3, <2>4, <2>6, <2>7, SetModel
    <3>2. Told(t.of, d) /\ (Turn(d) /\ holder[i.ip] = d => Owed(i.ip, d)')
      BY <1>2, <2>5, <2>6, <3>1
    <3>3. i["imei"] = t.of["imei"]
      BY <3>1 DEF Read
    <3> QED
      BY <3>1, <3>2, <3>3 DEF Told, IsBaicells
  <2>8. CASE pc # "baicells"
    BY <1>4, <2>3, <2>6, <2>8
  <2> QED
    BY <2>7, <2>8
<1> QED
  BY <1>3, <1>4

LEMMA ReplyScan ==
    ASSUME IInv, PhaseInv, ScanInv, NEW t \in tasks, Reply(t)
    PROVE  ScanInv'
<1>1. UNCHANGED <<pc, inv, holder, todo>>
  BY DEF Reply, GetValue, NoValue, GetPartOfPage, GetUnusableIdentifier, GetRaises, NoSession,
         GetBanner, GetTest, Asks
<1>2. mishaps \subseteq mishaps'
  <2>1. \A what, about : Note(t, what, about) => mishaps \subseteq mishaps'
    BY DEF Note
  <2>2. CASE GetValue(t)
    BY <2>1, <2>2 DEF GetValue
  <2>3. CASE NoValue(t)
    BY <2>1, <2>3 DEF NoValue
  <2>4. CASE GetPartOfPage(t)
    BY <2>1, <2>4 DEF GetPartOfPage
  <2>5. CASE GetUnusableIdentifier(t)
    BY <2>1, <2>5 DEF GetUnusableIdentifier
  <2>6. CASE GetRaises(t)
    BY <2>1, <2>6 DEF GetRaises
  <2>7. CASE NoSession(t)
    BY <2>1, <2>7 DEF NoSession
  <2>8. CASE GetBanner(t)
    BY <2>1, <2>8 DEF GetBanner
  <2>9. CASE GetTest(t)
    BY <2>1, <2>9 DEF GetTest
  <2> QED
    BY <2>2, <2>3, <2>4, <2>5, <2>6, <2>7, <2>8, <2>9 DEF Reply
<1> SUFFICES ASSUME NEW d \in Devices, Unharmed(d)', Recognized(d),
                    NEW i \in Items, d \in Ids(i), i.ip \notin Missing
             PROVE  Told(i, d) /\ (Turn(d) /\ holder[i.ip] = d => Owed(i.ip, d)')
  BY <1>1 DEF ScanInv, Turn, Items
<1>3. Told(i, d) /\ (Turn(d) /\ holder[i.ip] = d => Owed(i.ip, d))
  BY <1>2, WasUnharmed DEF ScanInv
<1>4. ASSUME holder[i.ip] = d, Owed(i.ip, d) PROVE Owed(i.ip, d)'
  <2>1. CASE AllWhole(d) \/ \E r \in todo : ~r.own /\ WholeItem(r.item, d)
    BY <1>1, <2>1 DEF Owed, AllWhole
  <2>2. CASE \E x \in tasks : x.at = i.ip /\ Reads(x, d)
    <3>1. PICK x \in tasks : x.at = i.ip /\ Reads(x, d)
      BY <2>2
    <3>2. CASE x = t
      <4>1. PICK u : tasks' = (tasks \ {t}) \cup {u} /\ u.at = t.at /\ Reads(u, d)
        BY <1>4, <3>1, <3>2, ReplyFits
      <4>2. u \in tasks' /\ u.at = i.ip
        BY <3>1, <3>2, <4>1
      <4> QED
        BY <4>1, <4>2 DEF Owed
    <3>3. CASE x # t
      <4>1. \E u : tasks' = (tasks \ {t}) \cup {u}
        BY ReplyMakes
      <4>2. x \in tasks'
        BY <3>3, <4>1
      <4> QED
        BY <3>1, <4>2 DEF Owed
    <3> QED
      BY <3>2, <3>3
  <2> QED
    BY <1>4, <2>1, <2>2 DEF Owed
<1> QED
  BY <1>3, <1>4

LEMMA MoveScan ==
    ASSUME PlaceInv, ScanInv, NEW a \in Addresses, NEW e \in Devices, Move(a, e)
    PROVE  ScanInv'
<1>1. /\ UNCHANGED <<pc, inv, tasks, todo>> /\ mishaps \subseteq mishaps'
      /\ \A x \in {holder[a], e} \ {None} : <<"moved", x, "ip">> \in mishaps'
      /\ holder' = [x \in Addresses |->
                       IF x = a THEN e ELSE IF holder[x] = e THEN None ELSE holder[x]]
  BY DEF Move
<1> SUFFICES ASSUME NEW d \in Devices, Unharmed(d)', Recognized(d),
                    NEW i \in Items, d \in Ids(i), i.ip \notin Missing
             PROVE  Told(i, d) /\ (Turn(d) /\ holder'[i.ip] = d => Owed(i.ip, d))
  BY <1>1 DEF ScanInv, Turn, Items, Owed, AllWhole
<1>2. Told(i, d) /\ (Turn(d) /\ holder[i.ip] = d => Owed(i.ip, d))
  BY <1>1, WasUnharmed DEF ScanInv
<1>3. i.ip \in Addresses
  BY DEF PlaceInv, Placed, Items
<1>4. d # None /\ d # e
  <2>1. d # None /\ e # None
    BY DevicesAssumption
  <2>2. <<"moved", e, "ip">> \in mishaps'
    BY <1>1, <2>1
  <2>3. <<"moved", e, "ip">>[2] # d
    BY <2>2 DEF Unharmed
  <2> QED
    BY <2>1, <2>3
<1>5. holder'[i.ip] = d => holder[i.ip] = d
  BY <1>1, <1>3, <1>4
<1> QED
  BY <1>2, <1>5

LEMMA AskTelradsScan ==
    ASSUME PhaseInv, ScanInv, AskTelrads
    PROVE  ScanInv'
<1>1. UNCHANGED <<inv, holder, todo, mishaps>> /\ pc' = "telrad"
  BY DEF AskTelrads
<1>2. todo = {}
  BY DEF AskTelrads, PhaseInv, Idle
<1> SUFFICES ASSUME NEW d \in Devices, Unharmed(d), Recognized(d),
                    NEW i \in inv, d \in Ids(i), i.ip \notin Missing
             PROVE  Told(i, d) /\ (Kind[d] = "12300" => Owed(i.ip, d)')
  BY <1>1, <1>2 DEF ScanInv, Turn, Items, Unharmed
<1>3. Told(i, d)
  BY DEF ScanInv, Items
<1>4. ASSUME Kind[d] = "12300" PROVE Owed(i.ip, d)'
  <2> DEFINE t == [Task(i, "telrad") EXCEPT !.got.model = "12300"]
  <2>1. i.imei = d /\ d \notin Missing
    BY <1>3, <1>4, DevicesAssumption DEF Told, Missing
  <2>2. t \in tasks'
    BY <1>4, <2>1 DEF AskTelrads
  <2>3. /\ t.of = i /\ t.got.ip = Absent /\ t.got.model = "12300" /\ t.at = i.ip
        /\ t.reader = "telrad" /\ t.left = TelradPages
    BY TelradTaskIs
  <2> HIDE DEF t
  <2>4. Asked(t.left) = {} /\ \A k \in 1..Len(t.left) : t.left[k] # {}
    BY <2>3, AllIsAsked DEF Requests
  <2>5. Reads(t, d)
    BY <1>4, <2>3, <2>4 DEF Reads, ReaderOf
  <2> QED
    BY <2>2, <2>3, <2>5 DEF Owed
<1> QED
  BY <1>3, <1>4

\* A Telrad's items are not taken for a Baicells'.
LEMMA WholeTelradsStay ==
    ASSUME IInv, AskBaicells, NEW d \in Devices, Kind[d] = "12300", AllWhole(d)
    PROVE  AllWhole(d)'
<1>1. ASSUME NEW n \in inv, d \in Ids(n) PROVE WholeItem(n, d) /\ ~IsBaicells(n)
  <2>1. WholeItem(n, d)
    BY <1>1 DEF AllWhole
  <2>2. n["imei"] = d /\ n["mac"] = d /\ n.model = "12300"
    BY <2>1 DEF WholeItem, Read
  <2> QED
    BY <2>1, <2>2 DEF IsBaicells
<1>2. PICK asked : asked = {n \in inv : IsBaicells(n)}
  OBVIOUS
<1>3. PICK noted : noted = {Set(n, {"model"}, "baicells") : n \in asked}
  OBVIOUS
<1>4. inv' = (inv \ asked) \cup noted
  BY <1>2, <1>3 DEF AskBaicells
<1>5. ASSUME NEW i \in noted, d \in Ids(i) PROVE FALSE
  <2>1. PICK n \in inv : IsBaicells(n) /\ i = Set(n, {"model"}, "baicells")
    BY <1>2, <1>3
  <2>2. DOMAIN n = Fields
    BY DEF IInv, ItemsAreOwn, OwnItem
  <2>3. d \in Ids(n)
    BY <1>5, <2>1, <2>2, SetModel
  <2> QED
    BY <1>1, <2>1, <2>3
<1>6. PICK w \in inv : WholeItem(w, d)
  BY DEF AllWhole
<1>7. w \in inv'
  BY <1>1, <1>2, <1>4, <1>6, WholeIsSame
<1>8. \A i \in inv' : d \in Ids(i) => WholeItem(i, d)
  BY <1>1, <1>4, <1>5
<1> QED
  BY <1>6, <1>7, <1>8 DEF AllWhole

LEMMA AskBaicellsScan ==
    ASSUME IInv, ScanInv, AskBaicells
    PROVE  ScanInv'
<1>1. UNCHANGED <<holder, todo, mishaps>> /\ pc = "telrad" /\ pc' = "baicells" /\ Idle
  BY DEF AskBaicells
<1> SUFFICES ASSUME NEW d \in Devices, Unharmed(d), Recognized(d),
                    NEW i \in inv', d \in Ids(i), i.ip \notin Missing
             PROVE  /\ Told(i, d)
                    /\ Kind[d] \in {"12300", "baicells"} /\ holder[i.ip] = d => Owed(i.ip, d)'
  BY <1>1 DEF ScanInv, Turn, Items, Unharmed, Idle
<1>2. PICK asked : asked = {n \in inv : IsBaicells(n)}
  OBVIOUS
<1>3. PICK noted : noted = {Set(n, {"model"}, "baicells") : n \in asked}
  OBVIOUS
<1>4. inv' = (inv \ asked) \cup noted /\ tasks' = {Task(n, "baicells") : n \in noted}
  BY <1>2, <1>3 DEF AskBaicells
<1>5. PICK n \in inv : /\ n.ip = i.ip /\ Ids(n) = Ids(i) /\ n.imei = i.imei
                       /\ \/ i = n /\ ~IsBaicells(n)
                          \/ i \in noted /\ IsBaicells(i)
  <2>1. CASE i \in noted
    <3>1. PICK n \in inv : IsBaicells(n) /\ i = Set(n, {"model"}, "baicells")
      BY <1>2, <1>3, <2>1
    <3>2. DOMAIN n = Fields
      BY DEF IInv, ItemsAreOwn, OwnItem
    <3>3. Ids(i) = Ids(n) /\ i.model = "baicells" /\ i["imei"] = n["imei"]
      BY <3>1, <3>2, SetModel DEF Read
    <3>4. i.ip = n.ip
      BY <3>1, <3>2, SetIp, FieldsOfItems
    <3>5. IsBaicells(i)
      BY <3>3 DEF IsBaicells
    <3> QED
      BY <2>1, <3>3, <3>4, <3>5
  <2>2. CASE i \in inv \ asked
    BY <1>2, <2>2
  <2> QED
    BY <1>4, <2>1, <2>2
<1>6. Told(n, d) /\ (Kind[d] = "12300" /\ holder[n.ip] = d => Owed(n.ip, d))
  BY <1>1, <1>5 DEF ScanInv, Items, Turn
<1>7. Told(i, d)
  BY <1>5, <1>6 DEF Told
<1>8. ASSUME Kind[d] = "12300", holder[i.ip] = d PROVE Owed(i.ip, d)'
  <2>1. AllWhole(d)
    BY <1>1, <1>5, <1>6, <1>8 DEF Owed, Idle
  <2> QED
    BY <1>8, <2>1, WholeTelradsStay DEF Owed
<1>9. ASSUME Kind[d] = "baicells" PROVE Owed(i.ip, d)'
  <2> DEFINE t == Task(i, "baicells")
  <2>1. i \in noted
    BY <1>5, <1>7, <1>9 DEF Told
  <2>2. t \in tasks'
    BY <1>4, <2>1
  <2>3. /\ t.of = i /\ t.got.ip = Absent /\ t.at = i.ip
        /\ t.reader = "baicells" /\ t.left = Requests("baicells")
    BY TaskIs
  <2> HIDE DEF t
  <2>4. Asked(t.left) = {} /\ \A k \in 1..Len(t.left) : t.left[k] # {}
    BY <2>3, AllIsAsked
  <2>5. Reads(t, d)
    BY <1>9, <2>3, <2>4 DEF Reads, ReaderOf
  <2> QED
    BY <2>2, <2>3, <2>5 DEF Owed
<1> QED
  BY <1>7, <1>8, <1>9

LEMMA AskSnmpScan ==
    ASSUME ScanInv, AskSnmp
    PROVE  ScanInv'
<1>1. UNCHANGED <<inv, holder, todo, mishaps>> /\ pc = "baicells" /\ pc' = "snmp" /\ Idle
  BY DEF AskSnmp
<1> SUFFICES ASSUME NEW d \in Devices, Unharmed(d), Recognized(d),
                    NEW i \in inv, d \in Ids(i), i.ip \notin Missing
             PROVE  Told(i, d) /\ (holder[i.ip] = d => Owed(i.ip, d)')
  BY <1>1 DEF ScanInv, Turn, Items, Unharmed, Idle
<1>2. /\ Told(i, d)
      /\ Kind[d] \in {"12300", "baicells"} /\ holder[i.ip] = d => Owed(i.ip, d)
  BY <1>1 DEF ScanInv, Items, Turn
<1>3. ASSUME Kind[d] \in {"12300", "baicells"}, holder[i.ip] = d PROVE Owed(i.ip, d)'
  <2>1. AllWhole(d)
    BY <1>1, <1>2, <1>3 DEF Owed, Idle
  <2> QED
    BY <1>1, <2>1 DEF Owed, AllWhole
<1>4. ASSUME Kind[d] \in {"12000", "bec"} PROVE Owed(i.ip, d)'
  <2> DEFINE t == Task(i, "snmp")
  <2>1. t \in tasks'
    BY DEF AskSnmp
  <2>2. /\ t.of = i /\ t.got.ip = Absent /\ t.at = i.ip
        /\ t.reader = "snmp" /\ t.left = Requests("snmp")
    BY TaskIs
  <2> HIDE DEF t
  <2>3. t.left = SnmpFirst
    BY <2>2 DEF Requests
  <2>4. Reads(t, d)
    BY <1>4, <2>2, <2>3 DEF Reads
  <2> QED
    BY <2>1, <2>2, <2>4 DEF Owed
<1>5. Kind[d] \in {"12300", "baicells", "12000", "bec"}
  BY DevicesAssumption DEF Kinds
<1> QED
  BY <1>2, <1>3, <1>4, <1>5

LEMMA StartIsOwed == Init => ScanInv
<1> SUFFICES ASSUME Init, NEW d \in Devices, Recognized(d),
                    NEW i \in Items, d \in Ids(i), i.ip \notin Missing
             PROVE  Told(i, d) /\ ~Turn(d)
  BY DEF ScanInv
<1>1. inv \in Known /\ todo = {} /\ pc = "start"
  BY DEF Init
<1>2. i \in inv
  BY <1>1 DEF Items
<1>3. Told(i, d)
  BY <1>1, <1>2 DEF Recognized, Told
<1> QED
  BY <1>1, <1>3 DEF Turn

LEMMA StepKeepsScan ==
    IInv /\ PlaceInv /\ EmptyInv /\ PhaseInv /\ ScanInv /\ [Next]_vars => ScanInv'
<1> SUFFICES ASSUME IInv, PlaceInv, EmptyInv, PhaseInv, ScanInv, [Next]_vars PROVE ScanInv'
  OBVIOUS
<1>1. ASSUME UNCHANGED <<inv, holder, tasks, todo, mishaps>>,
             pc' = pc \/ (pc = "snmp" /\ pc' = "end")
      PROVE  ScanInv'
  <2>1. \A d \in Devices : Turn(d)' => Turn(d)
    BY <1>1 DEF Turn
  <2>2. \A d \in Devices : \A a : Owed(a, d)' <=> Owed(a, d)
    BY <1>1 DEF Owed, AllWhole
  <2> QED
    BY <1>1, <2>1, <2>2 DEF ScanInv, Items, Unharmed
<1>2. CASE Ask
  <2>1. CASE End
    BY <1>1, <2>1 DEF End
  <2> QED
    BY <1>2, <2>1, AskTelradsScan, AskBaicellsScan, AskSnmpScan DEF Ask
<1>3. CASE UNCHANGED vars
  BY <1>1, <1>3 DEF vars
<1> QED
  BY <1>2, <1>3, ReplyScan, GatheredScan, AddScan, MoveScan DEF Next

-----------------------------------------------------------------------------
(* The third theorem. *)

LEMMA ExcusedHolds == Spec => []EmptyInv
BY PlaceHolds, StartIsExcused, StepKeepsExcused, PTL DEF Spec

\* The readers get all of every device they can tell that stays at its address and
\* answers, and add keeps it, whichever of the other reads, of this reader or another,
\* fail or are answered by another device, and in whatever order they do.
THEOREM WhoAnswersIsKnown == Spec => []OthersUnharmed
<1>1. PlaceInv /\ PhaseInv /\ ScanInv => OthersUnharmed
  <2> SUFFICES ASSUME PlaceInv, PhaseInv, ScanInv, pc = "end", NEW i \in inv, i.ip \notin Missing,
                      NEW d, d = holder[i.ip], d \in Ids(i), Unharmed(d), Recognized(d)
               PROVE  WholeItem(i, d)
    BY DEF OthersUnharmed, WholeItem
  <2>1. i.ip \in Addresses
    BY DEF PlaceInv, Placed
  <2>2. d # None
    BY IdsAreIts DEF Its, Missing
  <2>3. d \in Devices
    BY <2>1, <2>2 DEF PhaseInv
  <2>4. Owed(i.ip, d)
    BY <2>3 DEF ScanInv, Items, Turn
  <2>5. tasks = {} /\ todo = {}
    BY DEF PhaseInv, Idle
  <2> QED
    BY <2>4, <2>5 DEF Owed, AllWhole
<1>2. Spec => []PhaseInv
  BY PlaceHolds, StartIsInPhase, StepKeepsPhase, PTL DEF Spec
<1>3. Spec => []ScanInv
  BY PlaceHolds, ExcusedHolds, <1>2, StartIsOwed, StepKeepsScan, PTL DEF Spec
<1> QED
  BY PlaceHolds, <1>1, <1>2, <1>3, PTL
=============================================================================
