----------------------------- MODULE DeviceScan -----------------------------
(***************************************************************************)
(* What the devices at the customers' addresses say of themselves, and     *)
(* what the inventory makes of it: the second half of                      *)
(* get_inventory_network_information and get_detailed_inventory_stats in   *)
(* src/polling_agent.py, with the three kinds of readers they start,       *)
(* src/web_scraper/telrad.py, src/web_scraper/baicells.py and src/snmp.py. *)
(*                                                                         *)
(* The readers run one after the other; each reads all its devices         *)
(* concurrently, request by request, and its results are added to the      *)
(* inventory when all are there.  A request is lost or answered with       *)
(* something unusable, and an address, known from an earlier answer of     *)
(* Raemis, passes to another device at any moment.                         *)
(***************************************************************************)
EXTENDS Naturals, FiniteSets, SequencesExt

CONSTANTS
    Devices,     \* an identifier, or a measurement, is named by its device
    Kind,        \* the kind of each device, also the name of its model
    GdmBanner,   \* the Telrad 12000 that say of themselves what a 12300 says
    Addresses,   \* of the data sessions
    Holder,      \* the device each address was given to when Raemis was asked
    Known,       \* inventories before the scan: sets of items
    Absent,      \* an attribute that is not in the item's __dict__
    None,        \* one that is there and empty; also: nobody
    MaxFaults    \* bound: requests that go wrong and addresses that pass to another device

Kinds == {"12300", "12000", "bec", "baicells"}

ASSUME DevicesAssumption == /\ Kind \in [Devices -> Kinds]
                            /\ GdmBanner \subseteq {d \in Devices : Kind[d] = "12000"}
                            /\ Holder \in [Addresses -> Devices \cup {None}]
                            /\ Absent \notin Devices \cup {None}
                            /\ None \notin Devices
ASSUME BoundsAssumption == MaxFaults \in Nat

Missing == {Absent, None}
Read == {"mac", "imei", "imsi", "signal"}    \* signal: all that is measured

\* What is known before is right, but for the address of the session, which may be
\* another's by now.
ASSUME KnownAssumption ==
    \A items \in Known :
        /\ IsFiniteSet(items)
        /\ \A i \in items :
             /\ DOMAIN i = Read \cup {"model", "ip"}
             /\ i.ip \in Addresses \cup Missing
             /\ \E d \in Devices : /\ \A f \in Read : i[f] \in {d, Absent, None}
                                  /\ i.model \in {Kind[d], Absent}

\* An item that knows nothing.
Bare == [mac |-> Absent, imei |-> Absent, imsi |-> Absent, signal |-> Absent,
         model |-> Absent, ip |-> Absent]

VARIABLES
    pc,       \* which readers are running
    inv,      \* _inventory
    holder,   \* the device at each address now
    tasks,    \* the reads gather waits for
    todo,     \* results not added yet; own: it is an item of the inventory itself
    mishaps,  \* history: what went wrong, with which device and what was asked of it
    faults    \* counter for the bound

vars == <<pc, inv, holder, tasks, todo, mishaps, faults>>

-----------------------------------------------------------------------------
(* Items and their merge; module MergeSet has add step by step. *)

Keys(i) == {<<f, i[f]>> : f \in {g \in {"mac", "imei", "imsi"} : i[g] \notin Missing}}
Ids(i) == {k[2] : k \in Keys(i)}

Same(i, j) == Keys(i) \cap Keys(j) # {}

\* All that is in each one's __dict__, one after the other, is set on top of what the
\* first has: of each field the last one's word counts, the empty included.
Merged(items) ==
    [f \in DOMAIN items[1] |->
        LET has == {k \in DOMAIN items : items[k][f] # Absent}
        IN IF has = {} THEN Absent ELSE items[Max(has)][f]]

-----------------------------------------------------------------------------
(* The requests of the readers, each with what it asks for. *)

\* Three pages of a Telrad 12300; the values of a Baicells one by one; by SNMP what a
\* device says of itself and a test, and then what is asked of each kind.
TelradPages    == <<{"imsi", "imei", "signal"}, {"signal"}, {"mac"}>>
BaicellsValues == <<{"imei"}, {"mac"}, {"imsi"}, {"signal"}>>
SnmpFirst      == <<{"banner"}, {"test"}>>
SnmpTelrad12300 == <<{"mac"}>>
SnmpTelrad12000 == <<{"mac"}, {"imei"}, {"imsi"}, {"signal"}>>
SnmpBec6900    == <<{"mac"}, {"signal"}, {"imei"}, {"imsi"}>>

Requests(reader) ==
    CASE reader = "telrad"   -> TelradPages
      [] reader = "baicells" -> BaicellsValues
      [] reader = "snmp"     -> SnmpFirst
      [] reader = "12300"    -> SnmpTelrad12300
      [] reader = "12000"    -> SnmpTelrad12000
      [] reader = "bec"      -> SnmpBec6900
      [] reader = "none"     -> <<>>

\* Who understands a request: the web pages and the private tables belong to one
\* kind; the system's description and interface table are everybody's but Baicells'.
KindsThat(reader, ask) ==
    IF reader = "telrad" THEN {"12300"}
    ELSE IF reader = "baicells" THEN {"baicells"}
    ELSE IF ask = {"test"} THEN {"12000"}
    ELSE IF ask = {"banner"} \/ (ask = {"mac"} /\ reader # "12000") THEN Kinds \ {"baicells"}
    ELSE {reader}
Understands(reader, ask) == {d \in Devices : Kind[d] \in KindsThat(reader, ask)}

\* A read of the device at item n's address; from: the devices that have answered.
Task(n, reader) == [at |-> n.ip, of |-> n, reader |-> reader, left |-> Requests(reader),
                    got |-> Bare, banner |-> None, from |-> {}]

Running(t) == t \in tasks /\ t.left # <<>>
Answers(t) == holder[t.at] \in Understands(t.reader, Head(t.left))
Set(i, S, v) == [f \in DOMAIN i |-> IF f \in S THEN v ELSE i[f]]

\* Baicells._assign: what was not read is set, and empty.
Assigned(i) == [f \in DOMAIN i |-> IF f \in Read /\ i[f] = Absent THEN None ELSE i[f]]

\* The task goes on to its next request, with what it has got so far.
Goes(t, u) ==
    LET rest == Tail(t.left)
    IN tasks' = (tasks \ {t}) \cup
           {[u EXCEPT !.left = rest,
                      !.got = IF t.reader = "baicells" /\ rest = <<>> THEN Assigned(u.got)
                                                                     ELSE u.got]}

\* The task is over.
Ends(t, i) == tasks' = (tasks \ {t}) \cup {[t EXCEPT !.left = <<>>, !.got = i]}

Fault == faults < MaxFaults /\ faults' = faults + 1
Fine == UNCHANGED faults

\* Those that have answered when this request has; for two of them, a torn read.
\* A mishap befalls those of them that understand the request.
Who(t) == t.from \cup ({holder[t.at]} \cap Understands(t.reader, Head(t.left)))
Note(t, what, about) ==
    mishaps' = mishaps \cup {<<what, d, f>> : d \in Who(t) \cap Understands(t.reader, Head(t.left)),
                                          f \in about}
                       \cup (IF Cardinality(Who(t)) > 1 THEN {<<"torn", d, "ip">> : d \in Who(t)}
                                                      ELSE {})

-----------------------------------------------------------------------------
\* An identifier in Sonar or Raemis that does not parse is there, and empty.
Unusable(i) == {<<"unusable", d, f>> : d \in Ids(i), f \in {g \in Read : i[g] = None}}

Init ==
    /\ pc = "start"
    /\ inv \in Known
    /\ holder = Holder
    /\ tasks = {}
    /\ todo = {}
    /\ mishaps = UNION {Unusable(i) : i \in inv}
    /\ faults = 0

Idle == tasks = {} /\ todo = {}

\* Telrad12300.get_items: the imei tells a 12300.
AskTelrads ==
    /\ pc = "start"
    /\ pc' = "telrad"
    /\ tasks' = {[Task(n, "telrad") EXCEPT !.got.model = "12300"] :
                    n \in {m \in inv : /\ m.ip \notin Missing
                                       /\ m.imei \notin Missing /\ Kind[m.imei] = "12300"}}
    /\ UNCHANGED <<inv, holder, todo, mishaps, faults>>

IsBaicells(n) ==
    /\ n.ip \notin Missing
    /\ \/ n.model = "baicells"
       \/ \E f \in {"imei", "mac"} : n[f] \notin Missing /\ Kind[n[f]] = "baicells"

\* Baicells.get_items; get_item notes the model in the inventory's own item.
AskBaicells ==
    /\ pc = "telrad" /\ Idle
    /\ pc' = "baicells"
    /\ LET asked == {n \in inv : IsBaicells(n)}
           noted == {Set(n, {"model"}, "baicells") : n \in asked}
       IN inv' = (inv \ asked) \cup noted /\ tasks' = {Task(n, "baicells") : n \in noted}
    /\ UNCHANGED <<holder, todo, mishaps, faults>>

\* Session.get_all_values.
AskSnmp ==
    /\ pc = "baicells" /\ Idle
    /\ pc' = "snmp"
    /\ tasks' = {Task(n, "snmp") : n \in {m \in inv : m.ip \notin Missing}}
    /\ UNCHANGED <<inv, holder, todo, mishaps, faults>>

End ==
    /\ pc = "snmp" /\ Idle
    /\ pc' = "end"
    /\ UNCHANGED <<inv, holder, tasks, todo, mishaps, faults>>

\* A request for values, which the device at the address understands or not.
Asks(t) == Running(t) /\ t.reader # "snmp" /\ UNCHANGED <<pc, inv, holder, todo>>

\* Mutant: what is read is set in the one item all reads share.
GetValueShared(t) ==
    /\ Asks(t) /\ Answers(t) /\ Fine
    /\ tasks' = {[u EXCEPT !.got = Set(u.got, Head(t.left), holder[t.at]),
                           !.left = IF u = t THEN Tail(t.left) ELSE u.left] : u \in tasks}
    /\ Note(t, "lost", {})

\* It is answered.
GetValue(t) ==
    /\ Asks(t) /\ Answers(t) /\ Fine
    /\ Goes(t, [t EXCEPT !.got = Set(t.got, Head(t.left), holder[t.at]), !.from = Who(t)])
    /\ Note(t, "lost", {})

\* Mutant: the readers note that they have found nothing.
NoValueEmpties(t) ==
    /\ Asks(t)
    /\ IF Answers(t) THEN Fault ELSE Fine
    /\ Note(t, "lost", Head(t.left))
    /\ IF t.reader = "telrad" THEN Ends(t, Bare)
                              ELSE Goes(t, [t EXCEPT !.got = Set(t.got, Head(t.left), None)])

\* It is not understood, or it or its answer is lost: the Telrad scraper gives up,
\* the others go on without the value.
NoValue(t) ==
    /\ Asks(t)
    /\ IF Answers(t) THEN Fault ELSE Fine
    /\ Note(t, "lost", Head(t.left))
    /\ IF t.reader = "telrad" THEN Ends(t, Bare) ELSE Goes(t, t)

\* A page of a Telrad 12300 lacks some of the tags.
GetPartOfPage(t) ==
    /\ Asks(t) /\ Answers(t) /\ Fault
    /\ t.reader = "telrad"
    /\ \E lacks \in (SUBSET Head(t.left)) \ {{}} :
         /\ Note(t, "lost", lacks)
         /\ Goes(t, [t EXCEPT !.got = Set(t.got, Head(t.left) \ lacks, holder[t.at]),
                              !.from = Who(t)])

\* An identifier of the subscriber or the device that does not parse is empty.
GetUnusableIdentifier(t) ==
    /\ Asks(t) /\ Answers(t) /\ Fault
    /\ \E f \in Head(t.left) \cap {"imei", "imsi"} :
         /\ Note(t, "unusable", {f})
         /\ Goes(t, [t EXCEPT !.got = Set(Set(t.got, Head(t.left), holder[t.at]), {f}, None),
                              !.from = Who(t)])

\* A MAC address that does not parse and a measurement that SNMP gives in another
\* form raise.
Raises(t) == \/ t.reader \in {"telrad", "baicells"} /\ Head(t.left) = {"mac"}
             \/ t.reader \in {"12000", "bec"} /\ Head(t.left) = {"signal"}

\* Mutant: the exception is gather's, and nothing comes of the other reads.
GetRaisesForAll(t) ==
    /\ Asks(t) /\ Answers(t) /\ Fault
    /\ Raises(t)
    /\ Note(t, "lost", Read)
    /\ tasks' = {[u EXCEPT !.left = <<>>, !.got = Bare] : u \in tasks}

\* Then the read comes to nothing: None, or an empty item.
GetRaises(t) ==
    /\ Asks(t) /\ Answers(t) /\ Fault
    /\ Raises(t)
    /\ Note(t, "lost", Read)
    /\ Ends(t, Bare)

\* The Baicells scraper cannot open or close its session: it returns the
\* inventory's own item.
NoSession(t) ==
    /\ Asks(t) /\ Fault
    /\ t.reader = "baicells"
    /\ Note(t, "lost", Read)
    /\ Ends(t, t.of)

\* _get_device_info.
GetBanner(t) ==
    /\ Running(t) /\ Head(t.left) = {"banner"}
    /\ \/ /\ Answers(t) /\ Fine
          /\ Goes(t, [t EXCEPT !.banner = holder[t.at], !.from = Who(t)])
          /\ UNCHANGED mishaps
       \/ /\ IF Answers(t) THEN Fault ELSE Fine
          /\ Goes(t, t)
          /\ Note(t, "lost", {"banner"})
    /\ UNCHANGED <<pc, inv, holder, todo>>

Says(t, kinds) == t.banner # None /\ Kind[t.banner] \in kinds
SaysGdm(t) == Says(t, {"12300"}) \/ t.banner \in GdmBanner
IsBec(t) == Says(t, {"bec"}) \/ (t.of.imei \notin Missing /\ Kind[t.of.imei] = "bec")

\* Mutant: the narrower of the two patterns for Telrads is enough.
ReaderForUntested(t, tested) ==
    IF SaysGdm(t) THEN "12300"
    ELSE IF Says(t, {"12300", "12000"}) \/ tested THEN "12000"
    ELSE IF IsBec(t) THEN "bec" ELSE "none"

\* The reader is chosen by what the device says of itself, by whether it answered
\* the test, which only a Telrad 12000 understands, and by the item's own imei.
\* The wider pattern matches what either of the Telrads says.
ReaderFor(t, tested) ==
    IF SaysGdm(t) /\ ~tested THEN "12300"
    ELSE IF Says(t, {"12300", "12000"}) \/ tested THEN "12000"
    ELSE IF IsBec(t) THEN "bec" ELSE "none"

\* A BEC's model is only known from what it says.
ModelFor(t, reader) ==
    IF reader = "none" \/ (reader = "bec" /\ ~Says(t, {"bec"})) THEN Absent ELSE reader

\* The test, and the choice.
GetTest(t) ==
    /\ Running(t) /\ Head(t.left) = {"test"}
    /\ \E tested \in {TRUE, FALSE} :
         LET reader == ReaderFor(t, tested)
         IN /\ tested => Answers(t)
            /\ IF Answers(t) /\ ~tested THEN Fault ELSE Fine
            /\ Note(t, "lost", IF tested THEN {} ELSE {"test"})
            /\ tasks' = (tasks \ {t}) \cup
                   {[t EXCEPT !.reader = reader, !.left = Requests(reader),
                              !.got = [Bare EXCEPT !.model = ModelFor(t, reader)],
                              !.from = IF tested THEN Who(t) ELSE t.from]}
    /\ UNCHANGED <<pc, inv, holder, todo>>

\* gather has all its results; polling_agent notes the model of Baicells' ones.
Gathered ==
    /\ tasks # {}
    /\ \A t \in tasks : t.left = <<>>
    /\ tasks' = {}
    /\ todo' = {[item |-> IF pc = "baicells" THEN Set(t.got, {"model"}, "baicells") ELSE t.got,
                 own |-> t.got = t.of] : t \in tasks}
    /\ UNCHANGED <<pc, inv, holder, mishaps, faults>>

\* The loops around self._inventory.add: what has no identifier is not added, and the
\* inventory's own item is merged into itself.
AddNothing(r) ==
    /\ Keys(r.item) = {} \/ (r.own /\ r.item \in inv)
    /\ todo' = todo \ {r}
    /\ UNCHANGED inv

Equal(r) == {n \in inv : Same(n, r.item)}

AddNew(r) ==
    /\ Keys(r.item) # {} /\ Equal(r) = {}
    /\ todo' = todo \ {r}
    /\ inv' = inv \cup {r.item}

\* The item is merged into one that equals it, then one by one those that equal what
\* has become of it, until none does.  What it is merged into may itself be a result
\* that is still to be added.
Merge(r) ==
    /\ ~(r.own /\ r.item \in inv)
    /\ \E s \in SetToAllKPermutations(Equal(r)) \ {<<>>} :
         LET mine(k) == Merged(<<s[1], r.item>> \o SubSeq(s, 2, k))
         IN /\ \A k \in 2..Len(s) : Same(s[k], mine(k - 1))
            /\ \A n \in Equal(r) \ ToSet(s) : ~Same(n, mine(Len(s)))
            /\ inv' = (inv \ ToSet(s)) \cup {mine(Len(s))}
            /\ todo' = {IF q.own /\ q.item = s[1] THEN [q EXCEPT !.item = mine(Len(s))] ELSE q :
                          q \in todo \ {r}}

Add == /\ \E r \in todo : AddNothing(r) \/ AddNew(r) \/ Merge(r)
       /\ UNCHANGED <<pc, holder, tasks, mishaps, faults>>

\* The mobile network gives an address to another device.
Move(a, d) ==
    /\ pc # "end"
    /\ Fault
    /\ holder[a] # d
    /\ holder' = [x \in Addresses |-> IF x = a THEN d ELSE IF holder[x] = d THEN None ELSE holder[x]]
    /\ mishaps' = mishaps \cup {<<"moved", x, "ip">> : x \in {holder[a], d} \ {None}}
    /\ UNCHANGED <<pc, inv, tasks, todo>>

-----------------------------------------------------------------------------
Ask == AskTelrads \/ AskBaicells \/ AskSnmp \/ End
Reply(t) == \/ GetValue(t) \/ NoValue(t) \/ GetPartOfPage(t) \/ GetUnusableIdentifier(t)
            \/ GetRaises(t) \/ NoSession(t) \/ GetBanner(t) \/ GetTest(t)
Next == \/ Ask
        \/ \E t \in tasks : Reply(t)
        \/ Gathered \/ Add
        \/ \E a \in Addresses, d \in Devices : Move(a, d)

Spec == Init /\ [][Next]_vars

-----------------------------------------------------------------------------
(* Properties. *)

Happened(what, d, f) == <<what, d, f>> \in mishaps

\* An item's model is that of its device, unless a 12000 that says what a 12300 says
\* did not answer the test.
RightModel(i) ==
    \A d \in Ids(i) : i.model = Absent \/ i.model = Kind[d]
                   \/ (d \in GdmBanner /\ Happened("lost", d, "test"))

\* However the requests fail and the addresses pass on, all an item of the inventory
\* knows is of one device, and its model is that device's, unless the address passed
\* on between two requests of one read, or only the lost test could have told the model.
OwnValues ==
    \A i \in inv :
        LET its == {i[f] : f \in Read} \ Missing
        IN \/ Cardinality(its) <= 1 /\ RightModel(i)
           \/ \E d \in its : Happened("torn", d, "ip")

\* What an inventory knows of a device.
Knows(items, d) == {f \in Read : \E i \in items : d \in Ids(i) /\ i[f] \notin Missing}

\* What the inventory knew of a device it still knows after the readers, however their
\* requests failed, but for an identifier that was once read and unusable, and what a
\* Baicells, its session cut off or its address passed on, left unread, or unless its
\* address passed on in the middle of a read.
ForgottenOnlyIfUnread ==
    [][\A d \in Devices : \A f \in Knows(inv, d) \ Knows(inv', d) :
         \/ Happened("unusable", d, f) \/ Happened("torn", d, "ip")
         \/ /\ Kind[d] = "baicells"
            /\ Happened("lost", d, f) \/ Happened("moved", d, "ip")]_vars

Unharmed(d) == \A m \in mishaps : m[2] # d

\* Its readers can tell from what was known before which items are the device's: a
\* Telrad 12300 by the imei, a Baicells by the model or the address of its maker.
Recognized(d) == \A items \in Known : \A i \in items : d \in Ids(i) /\ i.ip \notin Missing =>
    /\ Kind[d] = "12300" => i.imei = d
    /\ Kind[d] = "baicells" => IsBaicells(i)

\* Whatever happens to other devices' reads at the same time, at the end of the scan
\* all is known of a device that its reader can tell, that is still at its address and
\* that answered every request.
OthersUnharmed ==
    pc = "end" => \A i \in inv : i.ip \notin Missing =>
        LET d == holder[i.ip]
        IN d \in Ids(i) /\ Unharmed(d) /\ Recognized(d) =>
               (\A f \in Read : i[f] = d) /\ i.model = Kind[d]
=============================================================================
