---------------------------- MODULE InventorySync ----------------------------
(***************************************************************************)
(* The inventory of devices kept in step between Raemis, the devices       *)
(* themselves and Sonar: the scan methods of src/polling_agent.py and the  *)
(* inventory half of src/sonar/api_connection.py (create_missing,          *)
(* match_names_and_link, link_to_accounts, update_needed).                 *)
(*                                                                         *)
(* A script runs these methods one after the other in one process.  What   *)
(* they learn of the devices is merged in a MergeSet: module MergeSet has  *)
(* its hashes and objects in detail.  create_item and match_names_and_link *)
(* change items inside the set, which then remain filed under the hash     *)
(* they had.                                                               *)
(*                                                                         *)
(* The calls to Sonar of one method run concurrently.  A call fails, loses *)
(* its answer, or the process is killed, and the next process knows what   *)
(* Sonar tells it.                                                         *)
(***************************************************************************)
EXTENDS Naturals, Sequences, FiniteSets

CONSTANTS
    Devices,     \* the customers' devices; an identifier is named by its device
    Reader,      \* what reads a device: telrad (12300), baicells (OD06) or snmp (12000, BEC)
    Attached,    \* the devices that hold a data session and answer when scanned
    Garbled,     \* pairs <<d, f>>: what d has in field f, IMEI or IMSI, does not parse
    Names,       \* of subscribers and accounts
    Raemis,      \* the name each device's subscriber has in Raemis
    Torn,        \* customers between whose devices an address may pass on during a read
    Accounts,    \* the sequence of Sonar's accounts, each with its name
    Contains,    \* pairs <<n, m>>: n contains every word of m, as match_names splits it
    Absent,      \* an attribute that is not in the item's __dict__
    None,        \* one that is there and None
    Empty,       \* an IMEI or IMSI that does not parse, which is there and empty
    Known,       \* the tables of Sonar's inventory at the start
    MaxRecords,  \* bound: create_missing is not run when it could make more records
    MaxFaults    \* bound: failed calls, lost answers, failed reads, killed processes

Readers == {"telrad", "baicells", "snmp"}

ASSUME DevicesAssumption == /\ Reader \in [Devices -> Readers]
                            /\ Attached \subseteq Devices
                            /\ Garbled \subseteq Devices \X {"imei", "imsi"}
                            /\ Raemis \in [Devices -> Names]
                            /\ Torn \subseteq {Raemis[d] : d \in Devices}
ASSUME AccountsAssumption == /\ Accounts \in Seq(Names)
                             /\ Contains \subseteq Names \X Names
ASSUME BoundsAssumption == MaxFaults \in Nat /\ MaxRecords \in Nat

AcctIds == DOMAIN Accounts
Acct == [id : AcctIds \cup {None}, name : Names]
Missing == {Absent, None, Empty}
Identifiers == {"mac", "imei", "imsi"}

ASSUME MissingAssumption == /\ Absent # None /\ Absent # Empty /\ None # Empty
                            /\ Missing \cap Devices = {}
                            /\ Missing \cap (Nat \cup BOOLEAN \cup Readers) = {}
                            /\ Missing \cap Acct = {}

\* A record of Sonar's inventory: its model and fields, the account at whose address it is,
\* and the account where it was at the start, which is history.
Record == [mac : Devices \cup {None}, imei : Devices \cup {None}, imsi : Devices \cup {None},
           model : Readers \cup {None}, acct : AcctIds \cup {None}, was : AcctIds \cup {None}]

IdentifiersIn(r) == {r[f] : f \in Identifiers} \ Missing

\* The customers one of whom has the device: those of Torn count as one.
Group(n) == IF n \in Torn THEN Torn ELSE {n}
Whose(d) == Group(Raemis[d])

\* All its identifiers are of devices of one customer, as Whose counts them.
OneCustomer(r) == \A d, e \in IdentifiersIn(r) : Whose(d) = Whose(e)

\* No record has one device's identifiers together with another customer's.
ASSUME KnownAssumption == /\ Known \subseteq Seq(Record)
                          /\ \A table \in Known : \A id \in DOMAIN table :
                               OneCustomer(table[id]) /\ table[id].was = table[id].acct

VARIABLES
    sonar,    \* Sonar's inventory; a record's sonar_id is its place
    inv,      \* _inventory: its items, each with the keys it was filed under
    pc,       \* where the script is
    next,     \* where it goes when todo is done
    todo,     \* results a method has got and not added yet; own: it is an item of the set
    mine,     \* the item add works on, and the hash it is still filed under
    tasks,    \* the entries whose task of the running gather is not done
    done,     \* history: the scans this process has completed without a fault
    faults    \* counter for the bound

vars == <<sonar, inv, pc, next, todo, mine, tasks, done, faults>>

Places == {"down", "accounts", "inventory", "add", "absorb", "ready", "telrad", "baicells",
           "noted", "create", "created", "match", "link", "matched", "update"}

-----------------------------------------------------------------------------
(* Items. *)

\* An item as Item() makes it; one made by __new__ has no linked_to_account.
Bare == [id |-> Absent, mac |-> Absent, imei |-> Absent, imsi |-> Absent,
         acct |-> Absent, linked |-> FALSE, model |-> Absent, ip |-> Absent]

\* Item.key: the account counts as the pair of its id and name.
Keys(i) == {<<f, i[f]>> : f \in {g \in {"id", "mac", "imei", "imsi", "acct"} :
                                     i[g] \notin Missing}}

Has(i, f) == i[f] \notin Missing
Same(i, j) == Keys(i) \cap Keys(j) # {}

\* All that is in j's __dict__ is set on top of i's, the empty included.
Overwrite(i, j) == [f \in DOMAIN i |-> IF j[f] = Absent THEN i[f] ELSE j[f]]

File(i) == [item |-> i, filed |-> Keys(i)]
Removable(n) == n.filed = Keys(n.item)
Items == {n.item : n \in inv}

-----------------------------------------------------------------------------
(* MergeSet.add: the loop that merges into mine what equals it. *)

NotFiled == {}
Nobody == [item |-> Bare, stuck |-> NotFiled]

\* Mutant: the merged item is not put back.
GoesAndForgets(m, rest, stuck) ==
    pc' = "add" /\ inv' = rest /\ mine' = Nobody

\* mine is put back when nothing equals it: no other element, nor it itself, which is
\* in the set as long as it could not be removed, filed under stuck.
Goes(m, rest, stuck) ==
    IF stuck = NotFiled /\ \A n \in rest : ~Same(n.item, m)
    THEN pc' = "add" /\ inv' = rest \cup {File(m)} /\ mine' = Nobody
    ELSE pc' = "absorb" /\ inv' = rest /\ mine' = [item |-> m, stuck |-> stuck]

\* A result that is the object changed changes with it.
Became(old, new, results) ==
    {IF r.own /\ r.item = old THEN [r EXCEPT !.item = new] ELSE r : r \in results}

AddNothing(r) ==
    /\ Keys(r.item) = {}
    /\ todo' = todo \ {r}
    /\ UNCHANGED <<pc, inv, mine>>

AddNew(r) ==
    /\ Keys(r.item) # {}
    /\ \A n \in inv : ~Same(n.item, r.item)
    /\ inv' = inv \cup {File(r.item)}
    /\ todo' = todo \ {r}
    /\ UNCHANGED <<pc, mine>>

\* The element found first; a KeyError of its removal is logged.
AddTo(r, n) ==
    /\ Same(n.item, r.item)
    /\ LET m == Overwrite(n.item, r.item)
       IN /\ Goes(m, inv \ {n}, IF Removable(n) THEN NotFiled ELSE n.filed)
          /\ todo' = Became(n.item, m, todo \ {r})

\* The loops around self._inventory.add.
Add == /\ pc = "add"
       /\ \E r \in todo : AddNothing(r) \/ AddNew(r) \/ \E n \in inv : AddTo(r, n)
       /\ UNCHANGED <<sonar, next, tasks, done, faults>>

Absorb ==
    /\ pc = "absorb"
    /\ \E n \in inv :
         /\ Same(n.item, mine.item)
         /\ Removable(n)
         /\ LET m == Overwrite(mine.item, n.item)
            IN Goes(m, inv \ {n}, mine.stuck) /\ todo' = Became(mine.item, m, todo)
    /\ UNCHANGED <<sonar, next, tasks, done, faults>>

\* It finds itself; by now it may have the keys again that it is filed under.
AbsorbItself ==
    /\ pc = "absorb"
    /\ mine.stuck # NotFiled /\ mine.stuck = Keys(mine.item)
    /\ Goes(mine.item, inv, NotFiled)
    /\ UNCHANGED <<sonar, next, todo, tasks, done, faults>>

-----------------------------------------------------------------------------
Init ==
    /\ sonar \in Known
    /\ inv = {}
    /\ pc = "down"
    /\ next = "down"
    /\ todo = {}
    /\ mine = Nobody
    /\ tasks = {}
    /\ done = {}
    /\ faults = 0

Fault == faults < MaxFaults /\ faults' = faults + 1
Fine == UNCHANGED faults

Start ==
    /\ pc = "down"
    /\ pc' = "accounts"
    /\ UNCHANGED <<sonar, inv, next, todo, mine, tasks, done, faults>>

\* The process has ended: by itself, by an exception or killed.
Down == /\ pc' = "down"
        /\ next' = "down"
        /\ inv' = {} /\ todo' = {} /\ mine' = Nobody /\ tasks' = {} /\ done' = {}
        /\ UNCHANGED sonar

Exit == pc = "ready" /\ Down /\ Fine
Killed == pc # "down" /\ Fault /\ Down

\* A KeyError of the loop of add leaves the script.
AddRaises ==
    /\ pc = "absorb"
    /\ \/ \E n \in inv : Same(n.item, mine.item) /\ ~Removable(n)
       \/ mine.stuck # NotFiled /\ mine.stuck # Keys(mine.item)
    /\ Down /\ Fine

Results(items) == {[item |-> i, own |-> FALSE] : i \in items}

\* A read hands items to add; one that fails, at any page, only some or none.
Receive(items, scan, then) ==
    /\ pc' = "add"
    /\ next' = then
    /\ \/ todo' = Results(items) /\ done' = done \cup scan /\ Fine
       \/ todo' \in SUBSET Results(items) /\ done' = {} /\ Fault
    /\ UNCHANGED <<sonar, inv, mine, tasks>>

\* An empty field is left out.
FromRecord(id) ==
    LET Value(f) == IF sonar[id][f] = None THEN Absent ELSE sonar[id][f]
    IN [Bare EXCEPT !.id = id, !.mac = Value("mac"), !.imei = Value("imei"),
                    !.imsi = Value("imsi"), !.model = Value("model"), !.linked = Absent]

\* get_all_clients_and_assigned_inventory: of each account that has any, the
\* first item at its first address, which is one of them.
ReadAccounts ==
    /\ pc = "accounts"
    /\ LET At(a) == {id \in DOMAIN sonar : sonar[id].acct = a}
           served == {a \in AcctIds : At(a) # {}}
       IN \E first \in [served -> DOMAIN sonar] :
            /\ \A a \in served : first[a] \in At(a)
            /\ Receive({[FromRecord(first[a]) EXCEPT !.linked = TRUE,
                            !.acct = [id |-> a, name |-> Accounts[a]]] : a \in served},
                       {}, "inventory")

\* get_inventory_items.
ReadInventory ==
    /\ pc = "inventory"
    /\ Receive({FromRecord(id) : id \in DOMAIN sonar}, {"base"}, "ready")

\* get_subscriber_information.
ReadSubscribers ==
    /\ pc = "ready"
    /\ Receive({[Bare EXCEPT !.imei = d, !.imsi = d,
                             !.acct = [id |-> None, name |-> Raemis[d]]] : d \in Devices},
               {"subscribers"}, "ready")

\* get_inventory_network_information: the data sessions, with their addresses.
ReadSessions ==
    /\ pc = "ready"
    /\ Receive({[Bare EXCEPT !.imsi = d, !.ip = d] : d \in Attached}, {}, "telrad")

\* The identifiers a reader gets from a device: of a 12300, SNMP reads only the MAC.
Says(reader, d) ==
    IF Reader[d] = reader THEN Identifiers
    ELSE IF reader = "snmp" /\ Reader[d] = "telrad" THEN {"mac"} ELSE {}

Said(d, f) == IF <<d, f>> \in Garbled THEN Empty ELSE d

\* A field that was not read: Baicells._assign sets it to None, the others leave it out.
Unread(reader) == IF reader = "baicells" THEN None ELSE Absent

\* The item a reader makes of a device that answers.
Whole(reader, d) ==
    LET Value(f) == IF f \in Says(reader, d) THEN Said(d, f) ELSE Unread(reader)
        model == IF reader # "snmp" THEN reader
                 ELSE IF Says(reader, d) = {} THEN Absent ELSE Reader[d]
    IN [Bare EXCEPT !.mac = Value("mac"), !.imei = Value("imei"), !.imsi = Value("imsi"),
                    !.model = model]

\* What it makes of a read some or all of whose answers were lost, by one of these
\* devices or, when the address passes on meanwhile, by several, one after the other.
Parts(reader, devices) ==
    LET Values(f) == {Unread(reader)}
                         \cup {Said(d, f) : d \in {e \in devices : f \in Says(reader, e)}}
        models == IF reader # "snmp" THEN {reader} ELSE {"telrad", "snmp", Absent}
    IN [id : {Absent}, mac : Values("mac"), imei : Values("imei"), imsi : Values("imsi"),
        acct : {Absent}, linked : {FALSE}, model : models, ip : {Absent}]

\* The items a reader takes for a device of its own, with an address.  SNMP asks them all.
IsTelrad(i) == Has(i, "imei") /\ Reader[i.imei] = "telrad"
IsBaicells(i) == \/ i.model = "baicells"
                 \/ \E f \in {"imei", "mac"} : Has(i, f) /\ Reader[i[f]] = "baicells"
Asked(reader) == {n \in inv : /\ Has(n.item, "ip")
                              /\ reader = "telrad" => IsTelrad(n.item)
                              /\ reader = "baicells" => IsBaicells(n.item)}

\* One of the reads fails, or is of the devices the address passes on to.  The Baicells
\* scraper may then return the inventory's own item.
Misread(reader, n) ==
    UNION {Results(Parts(reader, {d \in Devices : Whose(d) = Whose(e)})) : e \in Devices}
        \cup {[item |-> n.item, own |-> TRUE] : k \in {reader} \cap {"baicells"}}

\* A reader's get_items.  A scan finds what it can only after the one before it in
\* run_full_scan: a device is recognised by what Raemis and Sonar say of it, and has
\* its address from the sessions.
Scan(reader, scan, after, then) ==
    /\ LET asked == Asked(reader)
           All(entries) == Results({Whole(reader, n.item.ip) : n \in entries})
       IN \/ /\ Fine
             /\ todo' = All(asked)
             /\ done' = IF after \subseteq done THEN done \cup scan ELSE done
          \/ /\ Fault /\ done' = {}
             /\ \E n \in asked : \E r \in Misread(reader, n) : todo' = All(asked \ {n}) \cup {r}
    /\ pc' = "add"
    /\ next' = then
    /\ UNCHANGED <<sonar, inv, mine, tasks>>

\* The rest of get_inventory_network_information.
ScanTelrads == pc = "telrad" /\ Scan("telrad", {}, {}, "baicells")

\* Before it logs in, get_item sets the model of the inventory's own item.
NoteBaicells ==
    /\ pc = "baicells"
    /\ pc' = "noted"
    /\ inv' = (inv \ Asked("baicells"))
                 \cup {[n EXCEPT !.item.model = "baicells"] : n \in Asked("baicells")}
    /\ UNCHANGED <<sonar, next, todo, mine, tasks, done, faults>>

ScanBaicells == pc = "noted" /\ Scan("baicells", {"network"}, {"subscribers"}, "ready")

\* get_detailed_inventory_stats.
ScanSnmp == pc = "ready" /\ Scan("snmp", {"stats"}, {"network"}, "ready")

AddedAll ==
    /\ pc = "add"
    /\ todo = {}
    /\ pc' = next
    /\ UNCHANGED <<sonar, inv, next, todo, mine, tasks, done, faults>>

-----------------------------------------------------------------------------
(* The methods that write to Sonar: each makes its tasks and gathers them. *)

Gather(entries, place) ==
    /\ pc = "ready"
    /\ pc' = place
    /\ tasks' = entries
    /\ UNCHANGED <<sonar, next, todo, mine>>

\* create_missing, with the conditions of create_item: an empty IMEI or IMSI will do.
Creatable(i) == /\ ~Has(i, "id")
                /\ Has(i, "model")
                /\ Has(i, "mac")
                /\ \A f \in {"imei", "imsi"} : i[f] \notin {Absent, None}

CreateMissing ==
    /\ LET missing == {n \in inv : Creatable(n.item)}
       IN Len(sonar) + Cardinality(missing) <= MaxRecords /\ Gather(missing, "create")
    /\ UNCHANGED <<inv, done, faults>>

Field(v) == IF v \in Missing THEN None ELSE v
NewRecord(i) == [mac |-> Field(i.mac), imei |-> Field(i.imei), imsi |-> Field(i.imsi),
                 model |-> i.model, acct |-> None, was |-> None]

\* A task ends; its item, in the set, is now i.
TaskEnds(n, i) ==
    /\ tasks' = tasks \ {n}
    /\ inv' = (inv \ {n}) \cup {[n EXCEPT !.item = i]}
    /\ UNCHANGED <<pc, next, todo, mine>>

\* Mutant: the id is not stored.
CreateItemForgets(n) ==
    /\ pc = "create"
    /\ sonar' = Append(sonar, NewRecord(n.item))
    /\ TaskEnds(n, n.item)
    /\ UNCHANGED <<done, faults>>

\* Mutant: the id stored is that of the record before.
CreateItemOffByOne(n) ==
    /\ pc = "create"
    /\ sonar' = Append(sonar, NewRecord(n.item))
    /\ TaskEnds(n, [n.item EXCEPT !.id = IF sonar = <<>> THEN 1 ELSE Len(sonar)])
    /\ UNCHANGED <<done, faults>>

\* Sonar creates the record and create_item stores its id.
CreateItem(n) ==
    /\ pc = "create"
    /\ sonar' = Append(sonar, NewRecord(n.item))
    /\ TaskEnds(n, [n.item EXCEPT !.id = Len(sonar) + 1])
    /\ UNCHANGED <<done, faults>>

\* The call fails, or it succeeds and its answer is lost: the error is logged.
CreateItemFails(n) ==
    /\ pc = "create"
    /\ Fault
    /\ sonar' \in {sonar, Append(sonar, NewRecord(n.item))}
    /\ TaskEnds(n, n.item)
    /\ done' = {}

\* match_names_and_link looks at items in Sonar that Raemis gave an account.
Nameless(i) == ~Has(i, "id") \/ ~Has(i, "acct") \/ i.acct.id # None \/ i.linked = TRUE

\* It takes the first account it got whose name contains the item's.
Candidates(i, seen) == {a \in seen : <<Accounts[a], i.acct.name>> \in Contains}
\* Mutant: the loop goes on, and the last one counts.
LastOne(i, seen) == CHOOSE a \in Candidates(i, seen) : \A b \in Candidates(i, seen) : a >= b
First(i, seen) == CHOOSE a \in Candidates(i, seen) : \A b \in Candidates(i, seen) : a <= b

\* Mutant: the setter accepts whatever it is given.
LinkableToAny(i, seen) == ~Nameless(i) /\ Candidates(i, seen) # {}

\* The setter of account raises unless the two share their name; then the item is
\* left as it is and no further account is tried.
Linkable(i, seen) == /\ ~Nameless(i)
                     /\ Candidates(i, seen) # {}
                     /\ Accounts[First(i, seen)] = i.acct.name

Link(n, seen) ==
    LET a == First(n.item, seen) IN [n EXCEPT !.item.acct = [id |-> a, name |-> Accounts[a]]]

\* get_accounts: a page that fails leaves its accounts out, the first leaves out all.
GetAccounts(seen) == \/ seen = AcctIds /\ Fine /\ UNCHANGED done
                     \/ seen \in SUBSET AcctIds /\ Fault /\ done' = {}

\* Mutant: the account is set on copies of the items.
MatchNamesOfCopies ==
    \E seen \in SUBSET AcctIds :
        /\ GetAccounts(seen)
        /\ Gather({Link(n, seen) : n \in {m \in inv : Linkable(m.item, seen)}}, "match")
        /\ UNCHANGED inv

MatchNames ==
    \E seen \in SUBSET AcctIds :
        /\ GetAccounts(seen)
        /\ LET chosen == {n \in inv : Linkable(n.item, seen)}
               linked == {Link(n, seen) : n \in chosen}
           IN Gather(linked, "match") /\ inv' = (inv \ chosen) \cup linked

LinkToAccounts ==
    /\ Gather({n \in inv : /\ Has(n.item, "id")
                           /\ Has(n.item, "acct") /\ n.item.acct.id # None
                           /\ n.item.linked # TRUE}, "link")
    /\ UNCHANGED <<inv, done, faults>>

\* assign_inventory_item; whether its answer is lost makes no difference.
Assign(n) ==
    /\ pc \in {"match", "link"}
    /\ TaskEnds(n, n.item)
    /\ \/ sonar' = [sonar EXCEPT ![n.item.id].acct = n.item.acct.id] /\ Fine /\ UNCHANGED done
       \/ Fault /\ done' = {} /\ UNCHANGED sonar

UpdateNeeded ==
    /\ Gather({n \in inv : Has(n.item, "id") /\ Has(n.item, "model")}, "update")
    /\ UNCHANGED <<inv, done, faults>>

\* update_item_fields: the fields that are not empty.
UpdateItem(n) ==
    /\ pc = "update"
    /\ TaskEnds(n, n.item)
    /\ LET New(f) == IF Has(n.item, f) THEN n.item[f] ELSE sonar[n.item.id][f]
       IN \/ /\ sonar' = [sonar EXCEPT ![n.item.id] =
                    [@ EXCEPT !.mac = New("mac"), !.imei = New("imei"), !.imsi = New("imsi")]]
             /\ Fine /\ UNCHANGED done
          \/ Fault /\ done' = {} /\ UNCHANGED sonar

\* gather has all its results.
Gathered ==
    /\ pc \in {"create", "match", "link", "update"}
    /\ tasks = {}
    /\ pc' = CASE pc = "create" -> "created"
               [] pc = "match" -> "matched"
               [] OTHER -> "ready"
    /\ UNCHANGED <<sonar, inv, next, todo, mine, tasks, done, faults>>

Return ==
    /\ pc \in {"created", "matched"}
    /\ pc' = "ready"
    /\ UNCHANGED <<sonar, inv, next, todo, mine, tasks, done, faults>>

-----------------------------------------------------------------------------
Reads == \/ Start \/ ReadAccounts \/ ReadInventory \/ ReadSubscribers \/ ReadSessions
         \/ ScanTelrads \/ NoteBaicells \/ ScanBaicells \/ ScanSnmp
Adds == Add \/ Absorb \/ AbsorbItself \/ AddRaises \/ AddedAll
Writes == \/ CreateMissing \/ MatchNames \/ LinkToAccounts \/ UpdateNeeded
          \/ \E n \in tasks : CreateItem(n) \/ CreateItemFails(n) \/ Assign(n) \/ UpdateItem(n)
          \/ Gathered \/ Return
Next == Reads \/ Adds \/ Writes \/ Exit \/ Killed

Spec == Init /\ [][Next]_vars

-----------------------------------------------------------------------------
(* Properties. *)

Optional(S) == S \cup Missing
ItemType == [id : Optional(DOMAIN sonar), mac : Optional(Devices), imei : Optional(Devices),
             imsi : Optional(Devices), acct : Acct \cup {Absent},
             linked : BOOLEAN \cup {Absent}, model : Readers \cup {Absent}, ip : Optional(Devices)]

\* Every variable has the type its comment gives it; tasks are on items of the set.
TypeOK ==
    /\ sonar \in Seq(Record)
    /\ \A n \in inv : n.item \in ItemType
    /\ pc \in Places /\ next \in Places
    /\ todo \subseteq [item : ItemType, own : BOOLEAN]
    /\ mine.item \in ItemType
    /\ tasks \subseteq inv
    /\ done \subseteq {"base", "subscribers", "network", "stats"}
    /\ faults \in 0..MaxFaults

\* However the scans, the reads of Sonar, the links and the updates are ordered and fail,
\* no item of the inventory and no record of Sonar has identifiers of two customers'
\* devices, but of two between whose devices an address passes on while it is read: for
\* those of Torn it comes to that, and it does not spread to anybody else.
OneDeviceEach ==
    \A r \in Items \cup {sonar[id] : id \in DOMAIN sonar} : OneCustomer(r)

\* The customers whose devices' identifiers it has.
Owners(r) == {Whose(d) : d \in IdentifiersIn(r)}

\* Updates change a record, merged and re-merged items bring it other identifiers, but it
\* never passes from one customer to another, but among those of Torn.
RecordsStayTheirs == [][\A id \in DOMAIN sonar : Owners(sonar'[id]) = Owners(sonar[id])]_vars

RecordsIn(table, d) == {id \in DOMAIN table : d \in IdentifiersIn(table[id])}
RecordsOf(d) == RecordsIn(sonar, d)

\* What is read of the device is its own and nobody else's.  Its subscriber shares its name
\* with no other, the account is a key and two devices under one name become one item;
\* its address does not pass on while it is read; its IMEI and IMSI parse, without them
\* what it says of itself may be added, and created, beside its record.
Alone(d) == /\ \A e \in Devices : Whose(e) = Whose(d) => e = d
            /\ \A f \in Identifiers : <<d, f>> \notin Garbled

\* At the start Sonar has one record of the device at the most.
KnownOnce(d) == \A table \in Known : \A id, o \in RecordsIn(table, d) : id = o

\* A device that can be told from the others gets a second record only by a failure, one
\* for each: a create whose answer is lost, a process killed before it stored the
\* id, a read of Sonar's inventory that came back short.
FewDuplicates ==
    \A d \in Devices : Alone(d) /\ KnownOnce(d) => Cardinality(RecordsOf(d)) <= 1 + faults

\* A record is put at the address of an account, where it has not been.
PutAt(id, a) == sonar[id].acct # a /\ sonar'[id].acct = a

\* match_names_and_link puts a device at no customer's address but one that has the name
\* Raemis gives the device, or one whose devices' addresses pass to and from it.
MatchedByExactName ==
    [][pc = "match" => \A id \in DOMAIN sonar, a \in AcctIds :
         PutAt(id, a) => \E o \in Owners(sonar[id]) : Accounts[a] \in o]_vars

\* At the start a record of these customers was at the account.
BeenAt(owners, a) == \E o \in DOMAIN sonar : Owners(sonar[o]) = owners /\ sonar[o].was = a

\* link_to_accounts, which links what the match did not, neither, but where somebody else
\* has put a record of the same customer, of which this one may be a duplicate.
LinkedByExactName ==
    [][pc # "match" => \A id \in DOMAIN sonar, a \in AcctIds : PutAt(id, a) =>
         \/ \E o \in Owners(sonar[id]) : Accounts[a] \in o
         \/ BeenAt(Owners(sonar[id]), a)]_vars

\* What run_full_scan does, in its order.  In another a device may not be recognised, or
\* not asked.
AllScanned == done = {"base", "subscribers", "network", "stats"}

\* When a process has run the full scan, whatever it did before and in between, and created
\* what was missing without a failure, every device that is attached and can be told
\* from the others is in Sonar.
FoundAreCreated ==
    pc = "created" /\ AllScanned => \A d \in Attached : Alone(d) => RecordsOf(d) # {}

Namesakes(d) == {a \in AcctIds : Accounts[a] = Raemis[d]}
AtNamesake(d) == \E id \in RecordsOf(d) : sonar[id].acct \in Namesakes(d)

\* Of the accounts whose names contain the words of the device's, the first has that name
\* itself.  There may be none: a name with an ampersand does not contain its words.
FirstIsNamesake(d) ==
    LET found == {a \in AcctIds : <<Accounts[a], Raemis[d]>> \in Contains}
    IN \E a \in found \cap Namesakes(d) : \A b \in found : a <= b

\* At the start the records Sonar has of the device have its IMSI.  One that has not may be
\* merged only after Raemis has been read, the account it is at over the name from Raemis.
KnownByImsi(d) == \A table \in Known : \A id \in RecordsIn(table, d) : table[id].imsi = d

\* When a process has read Sonar's inventory and Raemis's subscribers and matched the names,
\* and nothing failed, every device in Sonar whose name is an account's is at that account's
\* address, unless match_names finds another name first or none.
NamesakesAreLinked ==
    pc = "matched" /\ {"base", "subscribers"} \subseteq done => \A d \in Devices :
        Alone(d) /\ KnownByImsi(d) /\ RecordsOf(d) # {} /\ FirstIsNamesake(d) => AtNamesake(d)

-----------------------------------------------------------------------------
(* What the repository says of the program, and the code does not do. *)

\* README, Features: if the subscriber's name in Raemis is the same as that of a
\* customer's account in Sonar, the device is associated with that account.
LinkedByName ==
    pc = "matched" /\ AllScanned => \A d \in Attached :
        RecordsOf(d) # {} /\ Namesakes(d) # {} => AtNamesake(d)
=============================================================================
