# Verification of the polling agent

TLA+ modules, TLC configurations and TLAPS proofs for the program in `src/`: an
agent of a fixed-wireless provider that reads which LTE subscribers hold which IP
addresses from the EPC (Raemis) and keeps the table of IP assignments in the
billing system (Sonar) in step with it.

Run everything inside this directory: `tlc -config AllocPass.cfg MCPullAllocator`,
`tlapm PullAllocatorProofs.tla`.

## 1. The system

### 1.1 What runs

`python polling_agent.py` runs `__main__` of `polling_agent.py`: it starts a manager
process, reads the inventory from Sonar once, starts the poll thread and waits for
it.  The poll thread repeats a pass every few seconds until the stop event is set,
which the SIGINT handler does.  The scans of the network (Raemis subscribers,
Telrad, Baicells, SNMP) and what they lead to in Sonar (items created, linked to
customers' accounts, updated) are methods of the same class for scripts; `__main__`
does not call them.  The RouterOS client and the work pipeline are libraries of the
package; nothing in it imports the pipeline.

### 1.2 Components

| component | state | operations | talks to |
|---|---|---|---|
| IP allocator, `sonar/ip_allocation.py` | the assignments read in this pass, the sessions read, `can_delete` | `poll` | Sonar and Raemis clients, stop event, inventory list |
| Sonar client, IP assignments, `sonar/api_connection.py` | none; the table is Sonar's | read, create, update, delete an assignment | Sonar over GraphQL |
| Sonar client, paged queries | the pages of one call | `_execute_paged_query` | Sonar |
| Sonar client, inventory and accounts | none of its own, it changes items of the inventory | create, update, link, note | Sonar, the inventory set |
| Raemis client, `raemis/api_connection.py` | none | data sessions, subscribers | Raemis over HTTP |
| program lifecycle, `polling_agent.py` | manager process, event, thread | startup, inventory, `run_allocator`, `shutdown`, SIGINT | all of the above |
| inventory set, `model/structures.py` | a hash set of mutable items | `add`, which merges | everybody who scans |
| items and accounts, `model/atoms.py` | attributes; equality by shared key | `key`, `__eq__`, conversions | the set |
| network values, `model/network.py` | none | addresses, netmasks, MAC, IMEI, IMSI | items |
| work pipeline, `pipeline.py` | thread pool, process pool, the cursor future | start after a future, merge futures | callers' functions |
| Raemis event listener, `raemis/event_listener.py` | POST counters | `do_POST` | Raemis |
| RouterOS client, `routeros_api/` | tags and their answer buffers, the socket | send, receive, reconnect, length encoding | routers |
| MikroTik router, `routers.py` | a connection | reads | RouterOS client |
| Baicells, BEC, Telrad scrapers, `web_scraper/` | an HTTP session each | log in, read value by value | the devices |
| SNMP session, `snmp.py` | none | classify a device, read its values | the devices |
| GenieACS client, configuration | none | one GET; reading a file | GenieACS, the disk |

### 1.3 What is hard

* **Two snapshots and many writes.**  A pass reads the table, then the sessions, then
  writes row by row while both change; it has no transaction.  It is correct if
  every deletion is of a row nobody reported needs, and if what a failure leaves
  behind is mended by a later pass.
* **Swallowed errors.**  Nearly every remote call is inside a bare `except` that logs
  and returns something plausible: an empty list for "unreachable", part of a list
  for "failed half way", the argument for "failed to update".  The callers cannot
  tell.
* **Pairing.**  Rows are paired with sessions by item first, by address second, in
  whatever order; exchanged addresses, duplicates and several sessions per item all
  have to end in the same table.
* **Signals.**  SIGINT runs `shutdown` on top of whatever the main thread does,
  including another `shutdown`, before anything it uses exists or after it is gone.
* **Mutable hashed items.**  The inventory is a Python set whose elements change their
  keys, by merging and by code that knows the items.
* **Paging a changing table.**  Rows move between pages while they are read.
* **One device, four sources.**  Sonar, Raemis, the web pages and SNMP each know part of
  a device; an item is what they have been merged into, by keys that overlap, and a
  wrong merge puts one customer's identifiers on another's device for good.
* **Addresses that move.**  A device is asked at the address its session had a moment
  ago; what answers may be another device.
* **Creating without a transaction.**  Sonar creates a record, the answer is lost, and
  nothing but the next scan can tell.
* **Waiting inside a pool.**  A function that waits for a future holds a worker.

What makes each component correct is stated as properties below.

## 2. Modules

| module | models | properties proved / checked |
|---|---|---|
| `PullAllocator` | `PullAllocator.poll` with the Sonar and Raemis calls it makes, Sonar's table, the sessions, operators, the stop event | both |
| `IpamArbiter` | abstract: what changes of the table an allocator may make | refined by `PullAllocator` |
| `MCPullAllocator` | instances | |
| `PullAllocatorProofs` | theorems about `PullAllocator` | |
| `PagedQuery` | one call of `_execute_paged_query` | both |
| `PagedQueryProofs` | theorems about `PagedQuery` | |
| `PollingAgent` | the main thread, SIGINT handlers, manager process and poll thread | both |
| `PollingAgentProofs` | theorems about `PollingAgent` | |
| `MergeSet` | `MergeSet.add` over a heap of items, Python's set with its stored hashes, `create_item` | both |
| `MCMergeSet` | instances | |
| `MergeSetProofs` | theorems about `MergeSet` | |
| `RouterOsClient` | the pool of the RouterOS client, its connections, commands in flight and the way their answers are read | both |
| `RouterOsClientProofs` | theorems about `RouterOsClient` | |
| `InventorySync` | the scan methods and the inventory half of the Sonar client: read, merge, create, link, update | both |
| `MCInventorySync` | instances | |
| `InventorySyncProofs` | theorems about `InventorySync` | |
| `DeviceScan` | the Telrad, Baicells and SNMP readers, request by request, and the merge of what they read | both |
| `MCDeviceScan` | instance | |
| `DeviceScanProofs` | theorems about `DeviceScan` | |
| `Pipeline` | the work pipeline's executors, futures and submissions | both |
| `PipelineProofs` | theorems about `Pipeline` | |

How they fit: `PagedQuery` is what `PullAllocator`'s `GetAssignments` does inside;
`GetAssignments` takes over its results (the whole table, or any part of it when
something failed).  `PullAllocator`'s pass is the single step `PollPass` of
`PollingAgent`, which takes over that it ends or raises.  `MergeSet` justifies
`InventoryAssumption` of `PullAllocator`: no sonar_id is in two items.  `InventorySync`
follows the loop of `add` too, over items with their fields and without a heap of objects;
`DeviceScan` uses `add` as a relation between the sets before and after, and
is the step `Scan` of `InventorySync` in detail, which takes over whom each reader asks and
that a read yields the device's own values, or some of them, or those of the devices the
address passed between, or the item it was given.
`RouterOsClient` and `Pipeline` stand alone, as what they model does.

### 2.1 PullAllocator

| code | here |
|---|---|
| the IP assignments in Sonar | `sonar`, from id to row (item, address) |
| Raemis's data sessions | `sessions`, sets of (IMSI, address) |
| `self._event` | `event` |
| local `attachments`, `addresses`, `can_delete`; the loop's position | variables of these names; `todo`; `pc` |
| the inventory list, fixed at startup | constant `ItemOf` |
| `while not event.is_set()` (102) | `CheckEvent` |
| `Sonar.get_ip_address_assignments` (103) | `GetAssignments` |
| `Raemis.get_data_sessions` (104-107) | `GetAddresses`: `RaemisAnswers`, `RaemisUnreachable` (the empty list), `RaemisGarbled` (no list at all; the thread dies) |
| loop body (108-218) | `SkipUnmatched`, `CreateAssignment`, `SkipWithoutId`, `Confirm`, `UpdateAssignment` |
| 219-236 | `FinishLoop`, `DeleteAssignment`, `FinishDeletes` |
| 237 | `Sleep` |

Sets replace lists because the order in which the loop meets sessions and rows is
not determined by the program; `\E s \in todo` and `\E a \in attachments` are all the
orders.  One remote call is one step, at the moment the service executes it; whether
its reply is lost makes no difference to `poll`, which ignores it.  A call that fails
leaves Sonar as it was and `poll` as if it had succeeded (`Swallowed`).

`clean` is a history variable: since the table was read no Sonar call of this pass
failed and nobody else edited the table.  Without it hardly anything can be promised;
with it the promises are exact.  The mapping `ItemOf` is constant since the inventory
is read once.

Abstractions: `GetAssignments` is assumed to return although `PagedDiffer` shows a
case where it does not; ids of removed rows may be used again (the code compares ids
only with rows it holds); strings, netmasks and the JSON are left out, an address is
a model value; a session of Raemis has an IMSI.

### 2.2 IpamArbiter

The abstract requirement: a row is created only for a reported pair nobody records;
only a row that records nothing reported is given to another pair; a row is released
only when all that is recorded and reported stays so.  The mapping takes `table` to
`sonar` and `report` to the (item, address) pairs of the resolved sessions of the
pass.

### 2.3 PagedQuery

`page`, `numPages`, `currPage`, `invItems` are the code's.  `TakePage`, `RequestFails`,
`PagesDiffer` and `Return` are the branches of the loop (565-598); `Skip` is what both
failures share (588-593: log, go on with the next page).  `FirstPage` includes a first
request that raises.  Sonar's paginator is modelled from how the code uses it: rows in
order of id, `total_pages` at least 1, pages past the end empty.  `stayed` and
`skipped` are history.

### 2.4 PollingAgent

`main` is the line of `__main__` (with the calls it makes) the main thread is at,
`handlers` the stack of SIGINT handlers running on top of it.  `Raise` is an exception
leaving a handler: it unwinds all of them and the main program, unless that was
reading the inventory below one of the bare `except`s of the Sonar client, which
swallow even `SystemExit`.  The poll thread ends when the event is set or when its
manager is gone.  A further Ctrl-C after the interpreter has begun to exit is not
modelled.  The manager process ignores SIGINT, as Python's does.

### 2.5 MergeSet

`heap` holds the items as they are now, `stored` the hash set: each entry is an object
with the keys it had when it was inserted (its hash; collisions of different key sets
are left out).  `Slots` is what `set.remove` finds, `Matches` what iterating with `==`
finds.  The two differ as soon as somebody changes a key of a stored item, which
`CreateItem` (Sonar's `create_item`) does.  `FindOld`, `Merge`, `Absorb`, `PutBack`,
`AddNew`, `AddNothing` are the steps of `add`; the element found first is any.  An
attribute that is missing from an item's `__dict__` (`Absent`) overwrites nothing, one
that is there and empty (`Blank`) removes what it overwrites.  `given` is history.

### 2.6 RouterOsClient

A promise is a pair (connection, tag).  `response_buffor`, `response`, `index`, `tag`,
`connected` and `socket` are the code's; `reading` is the `receive` or `__next__` that
is in progress.  Every step that reads takes one sentence from the reader's connection
(`process_single_response`), whosever it is: `ReadRow`, `ReadTrap`, `ReadDone`, and
those that raise: `ReadUnknown` (no buffer for the tag), `ReadFatal`, `ReadGarbled`,
`ReadNothing` (closed, reset or 15 s without an answer).  `Raise` with or without
`Disconnect` is the exception and what `CloseConnectionExceptionHandler` makes of it:
a tagged `!fatal` and a garbled sentence do not disconnect, the others do, and they
disconnect the pool's present connection even when the failing command belongs to an
earlier one.  The router is a choice made when a sentence is read; `said` and `router`
record what it chose.  A sentence that cannot be parsed, or a trap without a message, is
consumed by the read it ends (`ReadGarbled`): `lost` notes the row or trap it was, and the
`get`, which has kept its buffer, may be tried again and then returns without it.
When a login fails the pool keeps the socket without being connected; the next
`get_api` replaces it and Python's reference count closes it.

Left out: calls that raise before they change anything (a refused connect, a second
`get` after the buffer is gone), the mapping of keys and values, several threads in one
client (nothing in the repository does that).

### 2.7 InventorySync

| code | here |
|---|---|
| Sonar's inventory: identifiers and the account whose address an item is at | `sonar`, a sequence of records |
| `self._inventory` | `inv`; each entry an item with the keys it was filed under |
| the script's place, `pc`, `next`; results in the loop around `add`, `todo`; the tasks of a gather, `tasks` | |
| `get_base_inventory_information` | `Start`, `ReadAccounts`, `ReadInventory` |
| `get_subscriber_information` | `ReadSubscribers` |
| `get_inventory_network_information` | `ReadSessions`, `ScanTelrads`, `NoteBaicells`, `ScanBaicells` |
| `get_detailed_inventory_stats` | `ScanSnmp` |
| a reader's `get_items`: whom it asks, what it makes of the answers | `Scan`, `Asked`; `Whole`, `Misread` |
| every loop around `self._inventory.add` | `Add`: `AddNothing`, `AddNew`, `AddTo`; `AddedAll` |
| the loop of `add` and its local `mine` | `Absorb`, `AbsorbItself`, `Goes`; `AddRaises`, the `KeyError` that ends the script |
| `create_missing`, `create_item` | `CreateMissing`, `CreateItem`, `CreateItemFails` |
| `match_names_and_link` with the setter of `account`, `get_accounts` | `MatchNames`, `Linkable`, `GetAccounts`, `Assign` |
| `link_to_accounts`, `update_needed` | `LinkToAccounts`, `Assign`, `UpdateNeeded`, `UpdateItem` |
| the script ends, or is killed; the next one starts with an empty set | `Exit`, `Killed`, `Down` |

After the inventory has been read the methods may be called in any order and any number of
times, as the scripts that use the class do.  The calls of one method run
concurrently; each task is one step, at the moment Sonar executes it.

A reader asks only the items it recognises: the Telrad scraper a 12300's IMEI
(`telrad.py:31`), the Baicells scraper its maker, IMEI or MAC (`baicells.py:51-55`), SNMP every
item with an address; the 12000 and BEC devices are read only by SNMP, which of a 12300 reads
only the MAC.  What it asks is the device at the item's address (`ip`, named by the device that
had it when the sessions were read).  A scan is one step.  In it all reads succeed, or one
(`Misread`) fails, the others not: it yields some or none of the values, or it is of other
devices.  The address may have passed on before the read, to anybody's device, or while it
is read: then, value by value, identifiers of several devices come together
(`Parts`).  How far such a torn read reaches depends on who gets whose address, so it is a
parameter: `Torn` is the set of the customers between whose devices an address passes on
during a read.  With `Torn` empty reads are late or partial but not torn.
An IMEI or IMSI that does not parse (`Garbled`) is there and empty.

`create_item` and `match_names_and_link` change keys of items inside the set, which stay
filed under the hash they had (`filed`).  `AddTo` takes the element found first.  If it can be
removed it is out of the set until it is put back; if not, the `KeyError` is logged
(`structures.py:33`), the element stays in the set under the old hash (`stuck`), and the loop
finds it again: `AbsorbItself` when its keys are by then those it is filed under,
`AddRaises` otherwise.  A result that is an item of the set itself (`own`: the Baicells scraper
returns it when it cannot log in) changes with that item (`Became`).
Names are values; `Contains` says which name has all the words of which other.

Left out: serial numbers, models by kind, addresses and notes; accounts without an
address; a name that Raemis and Sonar spell differently; an identifier of Sonar's or Raemis's
that does not parse, of a device only what it says of itself; a MAC that does not parse, which a
reader leaves out or gives up the device for, as in a partial read.  Two devices of one customer
are one item as soon as both have been read with their name (the account is a key):
the properties that count records exempt them (`Alone`), `OneDeviceEach` does not.  `Alone`
also exempts devices of `Torn` and of `Garbled`.

### 2.8 DeviceScan

A task is the read of one device at one address: `reader`, the requests `left`, what it
has `got`.  The three kinds of readers run one after the other, the reads of one kind
concurrently; the results are added when the last has ended (`gather`).  A request is
answered by whatever device is at the address now (`holder`), if it understands it.
`NoValue`: no answer.  `GetPartOfPage`, `GetUnusableIdentifier`, `GetRaises`: an answer that is not
what it should be, with what each reader makes of that: the Telrad scraper gives up
the device, the Baicells scraper goes on and at the end sets what it has not read to
`None`, SNMP goes on or loses the device.  `NoSession`: the Baicells scraper returns the
inventory's own item, which is then added to the set it is in (`own`).  `ReaderFor` is
the choice of `get_item_values`: by the banner, the test request and the item's imei.
`Move` lets the mobile network give an address to another device at any moment.

`Merge` is `add` of an item that others equal, in one step: the order in which `add`
finds the elements that equal what it has so far is any (`SetToAllKPermutations`), and
`Merged` is what overwriting attribute by attribute in that order leaves: of each field
the last item's word that has it, the empty included.  What was known before the scan
may have identifiers that are there and empty, since Sonar's and Raemis's do not
always parse; `Unusable` notes them in `mishaps` at the start.

Identifiers and measurements are named by the device they are of, so that a mixture
shows.  Measurements count as one field, computed values and settings pages are left
out, and Netgear devices, which no reader is chosen for, do not occur.

### 2.9 Pipeline

`task` is the history of submissions; a task is named by its place in it, which is also
its future.  `cursor`, the executors (by the construction they belong to, `pools`: a
second `Pipeline()` replaces those of the one instance) and the length of the default
argument lists (`defaults`) are the code's state.  An executor takes its tasks in the order
of submission when a worker is free.  A task that waits for a future is running, and
spinning, until that is done.  `hangs` marks those that wait, through whatever tasks,
for the bare future every construction leaves in `cursor`: they never end and hold their
worker for good.  One thread calls the pipeline.

## 3. Runs

Symmetry is used for the ids of Sonar's rows, which are interchangeable, and only in
runs without liveness.  Deadlock is checked except in `DeviceScan` and `Pipeline`: the
scan's script goes on elsewhere, and the pipeline may run out of submissions or be
left with tasks that wait for ever.  Elsewhere states in which the program has ended
have an explicit stuttering action.

| run | question | bounds |
|---|---|---|
| `AllocPass` | is a pass exact, does it leave a right table alone, are its deletions safe and its writes ones the arbiter allows? | 3 subscribers, one without an id in Sonar, 2 addresses, tables of up to 3 rows, 5 ids, 1 failed read of Raemis, 1 change |
| `AllocConverges` | does the table come right after faults, edits and changes, and does the thread stop? | 2 subscribers, empty start table, 1 fault of any kind, 1 edit, 1 change |
| `AllocFailedUpdate` | finding 1 | 1 failed write |
| `PagedChanging` | what may a paged read miss or repeat, and when does it end? | pages of 2, up to 6 rows, 2 inserted, 3 removed, 2 failed requests |
| `PagedDiffer` | finding 2 | pages of 2, up to 4 rows |
| `AgentInterrupted` | does Ctrl-C, three times and anywhere, end the program cleanly? | 3 signals |
| `MergeScan` | what does `add` make of partial, overlapping and contradicting items in every order? | 3 key fields, 2 devices, 4 calls, 1 key changed inside the set |
| `RouterOsCommands` | do answers reach their commands however they are read, does every read come back, and what does a failure leave behind? | 2 connections, 2 commands, 2 rows each, 2 faults |
| `Inventory` | are devices created once and linked to their customer and nobody else's account, however the methods are ordered and fail, and how far do torn reads reach? | 4 devices of 3 kinds and 4 customers, 3 of them attached, `Torn` the last two customers, the last device's IMSI does not parse, 3 accounts, an empty table or a record at another customer's, up to 4 records, 1 fault |
| `InventoryUnlinked` | finding 3 | 4 devices, 2 attached, 3 accounts, no fault |
| `DeviceScan` | can a failing request or a passed-on address corrupt what is known of a device, its own or another's? | one device of each of 4 kinds, 4 inventories, one with an IMSI that does not parse, 2 mishaps |
| `Pipeline` | can spinning workers starve the pool, and is a call done when its future is? | 2 threads, 1 process, 5 submissions, 2 constructions, calls of up to 2 functions |

Why the bounds are enough.  The hard cases of the matching loop need two items and
two addresses (exchange, theft, duplicates) and, for the promise to outlive a third,
an item that cannot be recorded; more rows than sessions, for deletions; one fault
at any step, since a second one makes the pass no less clean; one change, because a
pass reads the sessions once.  `AllocConverges` starts with an empty table: the rows it has to
mend are those an operator's edit, a failed call and a changed session leave behind.
The proofs of section 5 cover all sizes, and subscribers with several sessions.
A paged read needs three pages, rows removed before and after the page asked for, and
a table that both grows and shrinks across a page's boundary.  A third signal is the first that can meet
a handler on top of a handler; for the manager the proof covers any number.  Merging
needs an item that joins two elements and then a third: four calls with three key
fields.  The RouterOS client needs two commands, on one connection for answers that
interleave and on two for the command left over from the earlier connection; the
second fault is the one after a reconnect.  `Inventory` needs a device of each kind, as each
is recognised by something else and in another scan, names that contain another in either
order, and two customers who get each other's address beside others who might be drawn in; the
two count as one customer, with two devices.  One fault makes a duplicate or one misread device a
scan: a second one would be read by itself, and what the mixture meets later is covered by
scanning again, which the script may at any time.  Four records leave room for a duplicate.
That several faults, and several devices of one customer who share an account, change nothing is
left to the proofs.  `DeviceScan` needs each kind once, since the
readers differ by kind and meet only in the merge and in a passed-on address, and two
mishaps: a stale address and a lost request.  `Pipeline` needs as many waiting tasks as
workers and one more; the proof covers all sizes.

The properties:

* `PassExact` - a clean pass whose sessions were all resolved leaves exactly one row per
  session, whatever the table held before.
* `DeleteKeepsReported` - the deletions of a clean pass never take the last row of a
  reported session.
* `QuietWhenExact` - the allocator settles: no writes to a table that is right.  It is
  conditional on one session per subscriber; with two APNs per subscriber the code
  pairs by item first and may exchange their rows in every pass, each still exact.
* `ImplementsArbiter` - see 2.2; for the runs in which nobody disturbs the table.
* `Converges`, `Stops` - liveness under weak fairness of the poll thread.  A session list of Raemis
  that cannot be converted ends the thread (`RaemisGarbled`, `raemis/api_connection.py:162`): nothing
  converges after that, and `Converges` says so; in the run it may happen at any pass.
* `NoRowTwice`, `FewMissing`, `EndsWhenPagesSettle` - paged reads.
* `ManagerOutlivesPoller`, `InterruptEnds`, `NoIdleProgram` - lifecycle.
* `OwnAnswers`, `NoCollateral`, `OneSocket`, `ReadsEnd` - the RouterOS client: the rows of a
  command are its own, all but those that were not understood and in order, and it raises exactly its
  own trap, unless that was not understood and the `get` was tried again; abandoning
  or mixing `get` and iteration costs no other command its answer; no socket but the
  pool's stays open; every read ends.  `NoCollateral` speaks of connections nobody
  breaks: a command does lose its answer to a fault that another command runs into.
* `Disjoint`, `LastFound`, `Components`, `AddEnds` - the inventory: no identifier is in
  two elements; what was added is found; parts of one device are one element exactly
  when some item joins them; `add` ends.

* `OneDeviceEach` - no item and no record has identifiers of two customers' devices, but of
  customers of `Torn`, who count as one (`Whose`): a torn read does mix their devices, in an item and
  in the record that is made or updated from it.  What is shown is that this does not spread, to
  anybody's device whose address did not pass on, by merges over shared keys, links, duplicates and
  updates; with `Torn` empty, that there is no mixture.
* `RecordsStayTheirs` - no step makes a record that of another customer's device, in the same sense.
* `FewDuplicates` - a device that Sonar has once at most, that has a name of its own and whose
  identifiers parse (`Alone`), gets one more record for each failure at the most.
* `FoundAreCreated` - when the scans were done in the order of `run_full_scan` and what is missing
  was created without a failure, every attached device of that kind is in Sonar.  In another order
  that is not so: before Raemis's subscribers are read a device is known by its IMSI only,
  which no web scraper recognises, and without a model and a MAC it is not created.
* `NamesakesAreLinked` - when Sonar's inventory and Raemis's subscribers were read and the names
  matched without a failure, every device in Sonar is at the account of its name.  Two
  premises are the code's own limits: the first account that contains the name's words is
  that account (else finding 3), and Sonar's records of the device have its IMSI.  One that has
  not may join the device's item only through a scan, after Raemis was read, and if it is
  at another account, that account takes the place of the name (`structures.py:44`).
* `MatchedByExactName`, `LinkedByExactName` - `match_names_and_link` puts a device at nobody's
  address but that of the account of its very name (or, of `Torn`, of theirs), also when some pages
  of the accounts are missing; `link_to_accounts` in addition at
  one where somebody had put a record of the same customer before (`was`), which it does
  to a duplicate of that record.  It may be another device of that customer: records with
  identifiers of two of them join both in one item.
* `OwnValues` - all an item knows is of one device and its model is that device's.  The
  exceptions are those the code has: an address that passes on between two requests
  of one read, and a Telrad 12000 with the banner of a 12300 whose test got lost.
* `ForgottenOnlyIfUnread` - reading and merging never erase what was known, but for an
  identifier that came back, or was recorded, unusable, what a Baicells left unread, and
  a read torn by an address that passed on.
* `OthersUnharmed` - a device that answered everything is known whole at the end,
  whatever happened to the others.  Its reader must be able to tell from the inventory that
  the device is one of its own (`Recognized`): `Telrad.get_items` knows a 12300 by its imei and
  `Baicells.get_items` a Baicells by its maker, its imei or its MAC.  One that is known by its
  IMSI only is asked by neither, and a 12300 without an imei gets what SNMP says of it.
* `NoStarvation` - while fewer tasks hang than a pool has workers, there is always
  an unfinished task whose worker may end or a queued one a worker may take.
* `CallDone` - the future a call returns is done after all its functions, and bears the
  exception of one that raised; the first of the two submissions `start_fn` makes of a
  function is exempt, as the code keeps no future of it.  So it does not speak of functions that run
  twice, nor of a call that raises, which returns no future.

### Fairness

`WF_vars(Poll)`: the thread is scheduled and its calls return (a call to Sonar ends
after 240 s, one to Raemis after the HTTP client's default of five minutes; the paged
read around the former is the exception `PagedDiffer` shows).
Nothing is assumed of Raemis's answers, Sonar's operators, the subscribers or the
user; `Converges` holds for behaviours in which these come to rest.  `WF_vars(Call)`: the
requests are made and answered, well or badly.  `WF_vars(Main)` and `WF_vars(Poller)`:
the operating system schedules both threads.  `WF_vars(Step)`: a call of `add` runs.
`WF_vars(Read)`: a receive ends with a sentence or with the socket's timeout; what the
sentence is, and whether it ever is the awaited `!done`, is not assumed.  No
strong fairness is used.

## 4. Findings

1. `AllocFailedUpdate`, `sonar/api_connection.py:268`.  `poll` handles an update that
   raises by not deleting in this pass (`ip_allocation.py:204-208`), but the update
   function catches everything and returns.  In the run a subscriber with one session has
   two rows, the right one and a duplicate with another address; the duplicate is taken
   to be updated, the update fails, and the right row, left over, is deleted.
2. `PagedDiffer`, `sonar/api_connection.py:585`.  The `ValueError` for a changed number of
   pages is caught by the loop that raised it, which may then never end.
3. `InventoryUnlinked`, `sonar/api_connection.py:173`.  README.md:46 promises that a device
   whose name is an account's is associated with it.  The first account whose name
   contains all its words is taken instead; if that is a longer name, the setter
   refuses it, a bare `except` drops the item, and the right account is never reached.

### Seen while modelling

Behaviour the models have, or that was read next to them, and no run is about:

* `raemis/api_connection.py:163`: Raemis unreachable looks like "no sessions"; the pass
  then deletes the whole table (`RaemisUnreachable`).
* `sonar/ip_allocation.py:121`: one session of a device outside the inventory turns the
  deletions off in every pass until the restart.
* `model/structures.py:53`: an element that got its sonar_id inside the set (`create_item`) is found
  but cannot be removed; the next `add` that meets it raises `KeyError`, and an element
  taken out before is lost.  In `InventorySync` this ends the script (`AddRaises`).
* `model/structures.py:22`: `test_empty` (`model/test/test_structures.py:109-112`) adds the empty item
  to an empty set and asserts that the set is not empty; `add` ignores an item without a key,
  so the test fails.  `TypeOK` of `MergeSet` says what the code does.
* `sonar/api_connection.py:170`: " & " is taken out of the device's name and not out of the
  account's: the subscriber "A & B" is looked for as the one word "AB", which the account "A & B"
  does not contain.  `Contains` need not be reflexive.
* Two devices of one customer are merged through the account (README.md:45 promises both are
  created): one may never get a record, or a second record is made of the other.
* `web_scraper/baicells.py:175-180`: of the two data rates the second overwrites the first in
  `it`, so `rx_rate` is the upload rate and `tx_rate` its second character; 189-213 sum the
  characters of the last text instead of the list.
* `snmp.py:206`: the mean of the signal values is the last one divided by their number.
  `snmp.py:62` asks the new, empty item for its manufacturer: the branch is dead.
* `snmp.py:58`: an item with a BEC's imei makes whatever device answers at its address a BEC by
  manufacturer.
* `model/network.py:181`: the contiguity test accepts 6.0.0.0 although the comment at line 162
  rules it out.
* `model/test/test_atoms.py:39-45` expects a `ValueError` for a bad
  IMSI; it becomes the empty string.
* `async_decorator.py:15-18`: a `get` that met a trap it could not read may be tried again and then
  returns as if the router had done what it refused (`OwnAnswers` allows that, and nothing else).
* A device whose IMEI or IMSI does not parse is created with that field empty
  (`sonar/api_connection.py:88-90` ask only whether it is `None`).
* `pipeline.py:78-80` submits a function started on the threads twice; `pipeline.py:107` shares its
  default lists between calls, so that a later call with more functions than the first
  raises `IndexError` when some are submitted (`StartTooManyFns`).

## 5. Proofs

`PullAllocatorProofs` (for all finite or infinite sets of subscribers, items,
addresses and ids, all inventories, bounds and fault kinds, from the named
assumptions of `PullAllocator` only):

* `TypeCorrect`: `Spec => []TypeOK`.
* `PassInvariant`: `Spec => []PassInv`.  `PassExact` is not inductive: it speaks of the end
  of a pass.  `PassInv` says what the loop has done so far.  In a clean pass the table
  consists of the rows still in `attachments`, unchanged since they were read
  (`Agree`, `AllRead`), and the settled ones; each settled row records a session the
  loop has reached (`SettledAreReached`), no two have the same address
  (`SettledDiffer`), and each session reached has its settled row unless it cannot
  have one (`ReachedAreSettled`).  `FlagInv` ties `can_delete` to the sessions reached,
  `LegalInv` says that no address is reported twice, `PlaceInv` what is finished where.
  One lemma per part and one step per action: a step either makes the pass unclean,
  changes nothing of this (`FrameTable`), or settles one row (`SettleTable`).
* `PassIsExact`, `DeletesAreSafe`, `AllocatorSettles`: the three properties of these
  names in section 3, from `PassInvariant`.
* `AllocatorImplementsArbiter`: under `Undisturbed` (one session per subscriber, no
  operators' edits, Sonar calls succeed; Raemis may fail as it likes) the allocator
  implements `IpamArbiter`.  Without it the refinement is false: finding 1 is a step
  the arbiter does not allow.

`PollingAgentProofs`, for any number of signals: `TypeCorrect`, and `ManagerIsKept`
(`ManagerOutlivesPoller`) from the invariant `ManagerInv`: up to the start of the thread
the manager is up because no handler gets past the join of a thread not started; a
handler that got past it has waited for a thread that ended, and that never starts
again.

`PipelineProofs`, for pools of any size and any number of tasks: `PoolsNeverStarve`
(`NoStarvation`).  The invariant: what a task waits for is earlier than the task
(`WaitsEarlier`), a task hangs if one it waits for does (`HangsIfWaitsDo`), and an
executor's queued tasks come after all it has taken (`InOrder`).  `SubmitKeeps` shows it for any
well-formed submission and each call has a lemma that its submission is well formed.
The earliest unfinished task that does not hang waits for nothing unfinished: if it runs
it may end, and if it is queued, all that hold its executor's workers hang, which by
the premise leaves one free (`QueueMoves`).  `CallsAreDone` (`CallDone`) from a second
invariant: each function of a call is the task its future belongs to or one that task
waits for (`CallsAttached`), and a task is done only when what it waited for is, and bears
its exceptions (`DoneAfterWaits`).

`MergeSetProofs`, for any items, any number of calls and any items changed inside the set,
from `ValuesAssumption`, `DevicesAssumption` and `InputsAssumption`: `TypesHold`, `DisjointHolds`,
`LastIsFound`, `ElementsAreComponents`.  `Disjoint` is not inductive: while `add` runs, the
element it works on may share identifiers with others.  `Shape` says that what it shares
it shares because of the argument (`SharedByElement`) and that an element changed inside the
set is filed under fewer identifiers than it has and never under another's (`Filed`,
`FiledApart`), so that `remove` takes that element or raises.  `Parted` says that every set of
identifiers an element holds is connected by the items given and every item given is
inside one element.

`PagedQueryProofs`, for pages of any size and a table that changes any number of times,
from `PageAssumption`: `TypesHold`, `NoRowIsTwice`, `FewAreMissing`.  What is behind the page last
asked for is larger than all that was collected (`Ahead`); what is at or before it and
was not collected (`Lost`) is paid for by a removal or a skipped page (`FewLost`).

`RouterOsClientProofs`, for any number of connections, commands, rows and faults:
`TypesHold`, `AnswersAreOwn`, `NobodyPays`, `OneSocketHolds`.  The invariant relates what the
router has said of a command and what was lost of it to what its response holds (`Agree`), says that a tag not
given out has no state (`Fresh`) and that until the first fault there is one connection
on which every answer is complete or still to come (`NoFaultYet`).

`DeviceScanProofs`, for any devices, addresses and inventories, from `DevicesAssumption` and
`KnownAssumption`:

* `ItemsKnowTheirDevice` (`OwnValues`).  A read has its values from the devices that answered
  it, which are noted as torn when they are two (`FromTorn`), and what it says of the model
  is true of them (`ModelFits`).  An item is of one device, or all it knows is of torn ones
  (`OwnItem`); items that share an identifier share that device (`AllOfOne`), so merging
  keeps it.
* `OnlyTheUnreadIsForgotten` (`ForgottenOnlyIfUnread`).  An item loses a field only to a later
  one that has it empty, so every empty field must be excused (`EmptyInv`), and that must be
  shown from the requests on: `EmptyCameBack` of what a read has empty, `UnreadIsExcused` of
  what a Baicells was asked and did not say, before its scraper makes that empty.
  `PlaceInv` says that the addresses asked are Raemis's.
* `WhoAnswersIsKnown` (`OthersUnharmed`).  Two more invariants.  `PhaseInv`: which readers run
  in which phase, and that a read returns an item without the address, but for one of the
  inventory's own that it has not touched.  `ScanInv`: once the readers of a device have been
  started (`Turn`) and nothing has happened to it, all of it is being read, or has been and is
  to be added, or is in the inventory (`Owed`); a read has the device's answer to everything
  it has asked (`Reads`).  An address that passes on, or a fault in another device's read,
  takes that from nobody else, and each of the three readers takes up all that its
  predecessors left.  A merge keeps a whole item whole because the item it meets is of the
  same device (`AllOfOne`) and has nothing empty (`EmptyInv`): so this rests on the invariants
  of the other two.

`InventorySyncProofs`, for any devices, customers, accounts, names, tables of Sonar without a
mixture (`KnownAssumption`), any number of faults and records: `TypeCorrect`,
`NoMixture` (`OneDeviceEach`), `NoRecordPasses` (`RecordsStayTheirs`), `OnlyExactMatches`
(`MatchedByExactName`), `OnlyKnownLinks` (`LinkedByExactName`), `SeenIsInSonar` (`FoundAreCreated`),
`DuplicatesArePaidFor` (`FewDuplicates`), `NamesAreMatched` (`NamesakesAreLinked`).
`MissingAssumption` says that an empty field is no value.  The first invariant, `IInv`:

* All that an item knows is of one customer, those of `Torn` counting as one: its identifiers, its
  record and its account (`ItemOwn`).  Two items with an identifier, a record or Raemis's name in common are therefore
  of one customer, and so is what `add` makes of them (`SameOwners`, `MergeOwn`).
* An account of Sonar's does not tell the customer, since somebody may have put one
  customer's device at another's address.  Two items then share a key and are of two
  customers, and the invariant is not inductive without saying why `add` does not merge
  them.  Of the items that can still be merged, those with one account of Sonar's are of
  one customer (`Together(Live)`).  What `match_names_and_link` has linked inside the set is filed
  under an old hash and never becomes removable again (`Stale`); so `add` meets it only to
  raise.  If it is the element found first, or the result is such an item itself,
  `mine` does become a mixture, in memory and on the way to the exception: the invariant is
  `Merging` or `Doomed`, the latter says that `AddRaises` is all that is left.
* Each account of Sonar's an item or a record has is justified: by its name, or by a record
  of the customer that was there at the start (`Justified`).

Three more rest on it, each for one of the last theorems.  What a process holds of devices is
`Held`: the items of the set, the results not added yet and the item `add` works on.

* `FoundInv`.  As long as nothing has failed (`Clean`), nothing held of a device that is `Alone` has
  an empty identifier or another's address (`Plain`), so that no merge erases anything, and for
  every such device that is attached something is held that has what the scans so far must have
  brought (`Knows`, `Due`): from Raemis's subscribers on its IMEI, by which the web scrapers
  recognise it, from the sessions on its address, and once its reader's turn is over, in
  the order of `run_full_scan`, all of it.  `create_missing` then has a task for it or finds it in
  Sonar (`CreateInv`).
* `DupInv`.  A device has as many records as there were faults, and one more only if something
  held has a record of it, or Sonar is yet to be read (`Counted`).  The task that creates a
  record for it is on an item without one, and by `Apart` no other item is of the device: so
  none is recorded, and there is room for one.
* `NameInv`.  All that is held of a device has its IMSI, but for what SNMP reads of a 12300, which is
  only its MAC (`ByImsi`); so no two entries of the set have the IMSI, and parts of one device that
  have more than a MAC cannot pass each other by.  What Raemis says of it is still among the results,
  or everything taken up that has more than that is with the name from Raemis or the right account
  (`Titled`), since whatever is read later has no account of Sonar's, and what has a name from
  Raemis has an IMSI too (`Later`).  An item with the name and a record is taken by
  `match_names_and_link`, its first account being the namesake, and is at that account when its task
  is done (`Matched`).

TLC has checked the conjuncts of these invariants on the instances of the runs, and those of
`InventorySyncProofs` also on tables with half a record at another customer's, which is
what it takes to become doomed.

Only model-checked: all liveness (`Converges`, `Stops`, `EndsWhenPagesSettle`,
`InterruptEnds`, `NoIdleProgram`, `AddEnds`, `ReadsEnd`), which is beyond the prover as it needs
ENABLED.

## 6. What is not modelled

See `PROJECT.json`, `components`.  The GenieACS client and the configuration are pure
I/O.  The values of `model/network.py` are pure functions of text: what the program
sees of them, an identifier that is empty or an exception, is in `DeviceScan`.
Nothing imports `web_scraper/bec.py`; the program does not start the event listener, and
its handler shares nothing with the rest.  `MikroTikRouter` is a sequential caller of
the RouterOS client.  Within modelled components: the notes with Raemis's names
(`add_raemis_name_to_items`), which nobody reads back; `update_billing_parameters` and the
settings pages of the Baicells scraper, which nobody calls; `Pipeline.map`, which has no
state of its own; RouterOS's length encoding; logging, formatting and the conversion of
JSON field by field.

## 7. Plan

Done: the allocator with its proofs, the paged query, the lifecycle, the inventory
set, the RouterOS client, the inventory in Sonar, the readers of the devices, the
pipeline; the proofs of section 5.  What would come next:

1. `PollingAgent` composed with `PullAllocator` in place of `PollPass`.
2. RouterOS's length encoding and the netmask arithmetic against reference definitions.
3. The event listener's `do_POST` with its early returns, if the program comes to start it.
