---------------------------- MODULE PullAllocator ----------------------------
(***************************************************************************)
(* The polling allocator: PullAllocator.poll of src/sonar/ip_allocation.py *)
(* run against Sonar's table of IP assignments (the update/create/delete   *)
(* calls of src/sonar/api_connection.py, which swallow every error) and    *)
(* against the list of data sessions that Raemis answers with              *)
(* (src/raemis/api_connection.py).                                         *)
(*                                                                         *)
(* One pass reads both sides, pairs every session with at most one         *)
(* assignment, rewrites or creates what differs, and deletes the           *)
(* assignments nothing was paired with.  The poller is one thread that     *)
(* blocks on every call; what interleaves with it is the two services:     *)
(* sessions come and go in Raemis, operators edit the table in Sonar, and  *)
(* calls fail.  Each step of the poller decides from its local copies only *)
(* and contains one remote call, so it is atomic here at the moment Sonar  *)
(* or Raemis executes the call.                                            *)
(***************************************************************************)
EXTENDS Naturals, FiniteSets

CONSTANTS
    Imsis,       \* subscribers that can hold a data session
    Items,       \* Sonar ids of inventory items
    Addrs,       \* IPv4 addresses
    Ids,         \* Sonar ids of IP assignments
    NoItem,      \* an IMSI no inventory item carries
    NoId,        \* an inventory item without sonar_id
    NoAddr,      \* a session for which Raemis gives no address
    ItemOf,      \* the inventory list: IMSI -> sonar_id of the first item with it
    Faults,      \* the kinds of failure that can occur
    OneSession,  \* whether a subscriber holds one session at a time (one APN)
    MaxRows,     \* bound: assignments in Sonar when the program starts
    MaxFaults,   \* bound: failures in a behaviour
    MaxChanges,  \* bound: sessions attached or detached in a behaviour
    MaxEdits     \* bound: operators' edits of the Sonar table in a behaviour

FaultKinds == {"sonar_get", "sonar_write", "raemis_get", "raemis_bad"}

ASSUME NamesAssumption == /\ NoItem \notin Items
                          /\ NoId \notin Items
                          /\ NoItem # NoId
                          /\ NoAddr \notin Addrs
\* The inventory is a MergeSet, which keeps one element per sonar_id.
ASSUME InventoryAssumption ==
    /\ ItemOf \in [Imsis -> Items \cup {NoItem, NoId}]
    /\ \A m, n \in Imsis : ItemOf[m] = ItemOf[n] /\ ItemOf[m] \in Items => m = n
ASSUME FaultsAssumption == /\ Faults \subseteq FaultKinds
                           /\ OneSession \in BOOLEAN
ASSUME BoundsAssumption == /\ MaxRows \in Nat
                           /\ MaxFaults \in Nat
                           /\ MaxChanges \in Nat
                           /\ MaxEdits \in Nat

VARIABLES
    sessions,     \* Raemis: the data sessions that are up
    sonar,        \* Sonar: the IP assignments, from id to row
    event,        \* the stop event, shared with the main thread
    pc,           \* where the poll thread is
    attachments,  \* poll: the assignments of this pass nothing is paired with yet
    addresses,    \* poll: the sessions Raemis answered with in this pass
    todo,         \* poll: the part of addresses the loop has not reached
    can_delete,   \* poll: the flag of that name
    clean,        \* history: no failed Sonar call and no edit since the table was read
    faults, changes, edits  \* counters for the bounds

raemis == <<sessions, changes>>
poller == <<pc, attachments, addresses, todo, can_delete>>
vars == <<sessions, sonar, event, pc, attachments, addresses, todo, can_delete,
          clean, faults, changes, edits>>

Row == [item : Items, ipv4 : Addrs]
Session == [imsi : Imsis, ipv4 : Addrs \cup {NoAddr}]
Attachment == [sonar_id : Ids, item : Items, ipv4 : Addrs]
Places == {"check", "assignments", "addresses", "match", "delete", "sleep",
           "stopped", "dead"}

-----------------------------------------------------------------------------
(* The two services. *)

\* The EPC hands an address to one session at a time.
Legal(S) ==
    /\ \A s, t \in S : s.ipv4 = t.ipv4 /\ s.ipv4 # NoAddr => s = t
    /\ OneSession => \A s, t \in S : s.imsi = t.imsi => s = t

\* Sonar's table after a row is written under id, or removed.
Put(id, row) == [i \in DOMAIN sonar \cup {id} |-> IF i = id THEN row ELSE sonar[i]]
Drop(id) == [i \in DOMAIN sonar \ {id} |-> sonar[i]]

\* Sonar numbers new rows; the bounded model recycles a number nobody holds.
FreshIds == Ids \ (DOMAIN sonar \cup {a.sonar_id : a \in attachments})

Fault(kind) == /\ kind \in Faults
               /\ faults < MaxFaults
               /\ faults' = faults + 1

\* A write that Sonar executes.  Whether its reply arrives makes no difference:
\* the caller ignores the returned attachment and the error alike.
Accepted(table) == sonar' = table /\ UNCHANGED <<clean, faults>>

\* A write that Sonar does not execute; update_, create_ and
\* delete_ip_assignment log the error and return normally.
Swallowed == Fault("sonar_write") /\ clean' = FALSE /\ UNCHANGED sonar

Write(table) == Accepted(table) \/ Swallowed

-----------------------------------------------------------------------------
(* The pairing of sessions and assignments. *)

Item(s) == ItemOf[s.imsi]
Claim(s) == [item |-> Item(s), ipv4 |-> s.ipv4]
RowOf(a) == [item |-> a.item, ipv4 |-> a.ipv4]

\* No item has the session's IMSI, or its address is not one.
Unmatched(s) == Item(s) = NoItem \/ s.ipv4 = NoAddr

ByItem(s) == {a \in attachments : a.item = Item(s)}
ByAddress(s) == {a \in attachments : a.ipv4 = s.ipv4}

Candidates(s) == IF ByItem(s) # {} THEN ByItem(s) ELSE ByAddress(s)

-----------------------------------------------------------------------------
Init ==
    /\ sessions \in {S \in SUBSET Session : Legal(S)}
    /\ \E S \in SUBSET Ids : Cardinality(S) <= MaxRows /\ sonar \in [S -> Row]
    /\ event = FALSE
    /\ pc = "check"
    /\ attachments = {}
    /\ addresses = {}
    /\ todo = {}
    /\ can_delete = FALSE
    /\ clean = FALSE
    /\ faults = 0
    /\ changes = 0
    /\ edits = 0

\* Mutant: the loop runs on whatever the event says.
CheckEventIgnored ==
    /\ pc = "check"
    /\ pc' = "assignments"
    /\ UNCHANGED <<raemis, sonar, event, attachments, addresses, todo, can_delete,
                   clean, faults, edits>>

\* while not self._event.is_set()
CheckEvent ==
    /\ pc = "check"
    /\ pc' = IF event THEN "stopped" ELSE "assignments"
    /\ UNCHANGED <<raemis, sonar, event, attachments, addresses, todo, can_delete,
                   clean, faults, edits>>

Table == {[sonar_id |-> i, item |-> sonar[i].item, ipv4 |-> sonar[i].ipv4] :
            i \in DOMAIN sonar}

\* get_ip_address_assignments: the whole table, or, when the query, one of its
\* pages or some of its rows fail, whatever part of it was read.
GetAssignments ==
    /\ pc = "assignments"
    /\ pc' = "addresses"
    /\ \/ attachments' = Table /\ clean' = TRUE /\ UNCHANGED faults
       \/ /\ Fault("sonar_get")
          /\ attachments' \in SUBSET Table
          /\ clean' = (attachments' = Table)
    /\ UNCHANGED <<raemis, sonar, event, addresses, todo, can_delete, edits>>

\* Mutants: can_delete is not set again by a pass; the list is kept from the pass
\* before.
StartLoopKeepsFlag(S) ==
    pc' = "match" /\ addresses' = S /\ todo' = S /\ UNCHANGED can_delete
StartLoopKeepsList(S) ==
    pc' = "match" /\ todo' = S /\ can_delete' = TRUE /\ UNCHANGED addresses

StartLoop(S) ==
    /\ pc' = "match"
    /\ addresses' = S
    /\ todo' = S
    /\ can_delete' = TRUE

\* get_data_sessions returns the sessions as items.
RaemisAnswers == StartLoop(sessions) /\ UNCHANGED faults

\* Raemis cannot be reached: the list it started with, which is empty.
RaemisUnreachable == Fault("raemis_get") /\ StartLoop({})

\* The answer cannot be converted: what is returned is no list of items, and the
\* loop over it raises outside of every handler, which ends the thread.
RaemisGarbled ==
    /\ Fault("raemis_bad")
    /\ pc' = "dead"
    /\ UNCHANGED <<addresses, todo, can_delete>>

GetAddresses ==
    /\ pc = "addresses"
    /\ RaemisAnswers \/ RaemisUnreachable \/ RaemisGarbled
    /\ UNCHANGED <<raemis, sonar, event, attachments, clean, edits>>

\* The loop body is one of five cases; all of them advance the loop.
Advance(s) == /\ pc = "match"
              /\ s \in todo
              /\ todo' = todo \ {s}
              /\ UNCHANGED <<raemis, event, pc, addresses, edits>>

SkipUnmatched(s) ==
    /\ Advance(s)
    /\ Unmatched(s)
    /\ can_delete' = FALSE
    /\ UNCHANGED <<sonar, attachments, clean, faults>>

\* An item without sonar_id makes item_to_attachment leave sonar_item_id unset,
\* create_ip_assignment raises and the loop goes on.
CreateAssignment(s) ==
    /\ Advance(s)
    /\ ~Unmatched(s)
    /\ Candidates(s) = {}
    /\ IF Item(s) = NoId
       THEN UNCHANGED <<sonar, clean, faults>>
       ELSE \E id \in FreshIds : Write(Put(id, Claim(s)))
    /\ UNCHANGED <<attachments, can_delete>>

\* The assignment found cannot be updated for want of the item's sonar_id; it
\* is taken out of the set.
SkipWithoutId(s, a) ==
    /\ Advance(s)
    /\ ~Unmatched(s)
    /\ a \in Candidates(s)
    /\ Item(s) = NoId
    /\ attachments' = attachments \ {a}
    /\ UNCHANGED <<sonar, can_delete, clean, faults>>

\* Mutant: the attachment stays in the set.
ConfirmKeepsIt(s, a) ==
    /\ Advance(s)
    /\ ~Unmatched(s)
    /\ a \in Candidates(s)
    /\ Item(s) # NoId
    /\ RowOf(a) = Claim(s)
    /\ UNCHANGED <<sonar, attachments, can_delete, clean, faults>>

\* Mutant: break in place of continue.
ConfirmBreaks(s, a) ==
    /\ pc = "match"
    /\ s \in todo
    /\ ~Unmatched(s)
    /\ a \in Candidates(s)
    /\ Item(s) # NoId
    /\ RowOf(a) = Claim(s)
    /\ attachments' = attachments \ {a}
    /\ todo' = {}
    /\ UNCHANGED <<raemis, sonar, event, pc, addresses, can_delete, clean, faults, edits>>

\* The assignment found already says what Raemis says.
Confirm(s, a) ==
    /\ Advance(s)
    /\ ~Unmatched(s)
    /\ a \in Candidates(s)
    /\ Item(s) # NoId
    /\ RowOf(a) = Claim(s)
    /\ attachments' = attachments \ {a}
    /\ UNCHANGED <<sonar, can_delete, clean, faults>>

\* Mutant: the address is updated, the item is not.
UpdateAssignmentAddressOnly(s, a) ==
    /\ Advance(s)
    /\ ~Unmatched(s)
    /\ a \in Candidates(s)
    /\ Item(s) # NoId
    /\ RowOf(a) # Claim(s)
    /\ attachments' = attachments \ {a}
    /\ Write(IF a.sonar_id \in DOMAIN sonar
             THEN Put(a.sonar_id, [item |-> a.item, ipv4 |-> s.ipv4]) ELSE sonar)
    /\ UNCHANGED can_delete

\* Sonar rejects the update of a row that is gone.
UpdateAssignment(s, a) ==
    /\ Advance(s)
    /\ ~Unmatched(s)
    /\ a \in Candidates(s)
    /\ Item(s) # NoId
    /\ RowOf(a) # Claim(s)
    /\ attachments' = attachments \ {a}
    /\ Write(IF a.sonar_id \in DOMAIN sonar THEN Put(a.sonar_id, Claim(s)) ELSE sonar)
    /\ UNCHANGED can_delete

FinishLoop ==
    /\ pc = "match"
    /\ todo = {}
    /\ pc' = IF can_delete THEN "delete" ELSE "sleep"
    /\ UNCHANGED <<raemis, sonar, event, attachments, addresses, todo, can_delete,
                   clean, faults, edits>>

DeleteAssignment(a) ==
    /\ pc = "delete"
    /\ a \in attachments
    /\ attachments' = attachments \ {a}
    /\ Write(Drop(a.sonar_id))
    /\ UNCHANGED <<raemis, event, pc, addresses, todo, can_delete, edits>>

FinishDeletes ==
    /\ pc = "delete"
    /\ attachments = {}
    /\ pc' = "sleep"
    /\ UNCHANGED <<raemis, sonar, event, attachments, addresses, todo, can_delete,
                   clean, faults, edits>>

Sleep ==
    /\ pc = "sleep"
    /\ pc' = "check"
    /\ UNCHANGED <<raemis, sonar, event, attachments, addresses, todo, can_delete,
                   clean, faults, edits>>

-----------------------------------------------------------------------------
(* What happens around the poll thread. *)

SessionsChange(S) ==
    /\ changes < MaxChanges
    /\ changes' = changes + 1
    /\ Legal(S)
    /\ sessions' = S
    /\ UNCHANGED <<sonar, event, poller, clean, faults, edits>>

Attach(s) == s \notin sessions /\ SessionsChange(sessions \cup {s})
Detach(s) == s \in sessions /\ SessionsChange(sessions \ {s})

\* An operator writes or removes a row in Sonar.
Edit(table) ==
    /\ edits < MaxEdits
    /\ edits' = edits + 1
    /\ sonar' = table
    /\ clean' = FALSE
    /\ UNCHANGED <<raemis, event, poller, faults>>

OperatorWrites(id, row) == id \in DOMAIN sonar \cup FreshIds /\ Edit(Put(id, row))
OperatorRemoves(id) == id \in DOMAIN sonar /\ Edit(Drop(id))

\* PollingAgent.shutdown sets the event, from the main thread, at any moment.
SetEvent ==
    /\ ~event
    /\ event' = TRUE
    /\ UNCHANGED <<raemis, sonar, poller, clean, faults, edits>>

-----------------------------------------------------------------------------
MatchOne ==
    \E s \in todo :
        \/ SkipUnmatched(s)
        \/ CreateAssignment(s)
        \/ \E a \in attachments :
              SkipWithoutId(s, a) \/ Confirm(s, a) \/ UpdateAssignment(s, a)

Poll ==
    \/ CheckEvent
    \/ GetAssignments
    \/ GetAddresses
    \/ MatchOne
    \/ FinishLoop
    \/ \E a \in attachments : DeleteAssignment(a)
    \/ FinishDeletes
    \/ Sleep

Surroundings ==
    \/ \E s \in Session : Attach(s) \/ Detach(s)
    \/ \E id \in Ids : OperatorRemoves(id) \/ \E row \in Row : OperatorWrites(id, row)
    \/ SetEvent

\* The thread has ended, by the event or by an exception.
Ended == pc \in {"stopped", "dead"} /\ UNCHANGED vars

Next == Poll \/ Surroundings \/ Ended

Spec == Init /\ [][Next]_vars

\* The poll thread keeps running; nothing obliges Raemis, Sonar's operators or
\* the user to do anything.
FairSpec == Spec /\ WF_vars(Poll)

-----------------------------------------------------------------------------
(* Properties. *)

\* Ids with their rows.
IsTable(t) == \E S \in SUBSET Ids : t \in [S -> Row]

\* Every variable has the type its comment gives it.
TypeOK ==
    /\ sessions \in SUBSET Session
    /\ IsTable(sonar)
    /\ event \in BOOLEAN
    /\ pc \in Places
    /\ attachments \in SUBSET Attachment
    /\ addresses \in SUBSET Session
    /\ todo \in SUBSET addresses
    /\ can_delete \in BOOLEAN
    /\ clean \in BOOLEAN
    /\ faults \in Nat
    /\ changes \in Nat
    /\ edits \in Nat

\* The session is one the program can record: its item and its address are known.
Resolved(s) == Item(s) \in Items /\ s.ipv4 # NoAddr

\* The row records the session (the item is compared when it is known).
Holds(row, s) == row.ipv4 = s.ipv4 /\ (Item(s) \in Items => row.item = Item(s))
Held(s, table) == \E id \in DOMAIN table : Holds(table[id], s)

\* The table records the sessions S: each of them, nothing else, no address twice.
Exact(S) ==
    /\ \A s \in S : Resolved(s)
    /\ \A s \in S : \E id \in DOMAIN sonar : sonar[id] = Claim(s)
    /\ \A id \in DOMAIN sonar : \E s \in S : sonar[id] = Claim(s)
    /\ \A i, j \in DOMAIN sonar : sonar[i].ipv4 = sonar[j].ipv4 => i = j

\* A pass of poll in which no Sonar call failed and nobody else edited the table
\* leaves in Sonar exactly one assignment per session Raemis reported, whatever
\* the table held before (duplicates, swapped or stolen addresses, leftovers).
PassExact ==
    pc = "sleep" /\ clean /\ (\A s \in addresses : Resolved(s)) => Exact(addresses)

\* The deletes that close a clean pass (lines 220-236) never take away the last
\* row that records a session Raemis reported in that pass, resolved or not.
DeleteKeepsReported ==
    [][pc = "delete" /\ clean /\ edits' = edits =>
         \A s \in addresses : Held(s, sonar) => Held(s, sonar')]_vars

\* With one session per subscriber, poll writes nothing in a clean pass when the
\* table already records what Raemis reported: the allocator settles.
QuietWhenExact ==
    [][OneSession /\ pc \in {"match", "delete"} /\ clean /\ Exact(addresses)
         /\ edits' = edits => sonar' = sonar]_vars

\* Once sessions, operators and failures come to rest, with every session that
\* remains resolved, the poll loop brings the table to record the sessions that
\* are up and keeps it so, whatever failed or was edited before, unless an answer
\* of Raemis that cannot be converted has ended the thread (RaemisGarbled).
Converges ==
    [](~event /\ pc # "dead") /\ <>[](\A s \in sessions : Resolved(s)) => <>[]Exact(sessions)

\* After the stop event the poll thread ends: no pass can keep it for ever.
Stops == event ~> pc \in {"stopped", "dead"}

\* The rows that the resolved ones of the sessions S ask for.
ClaimsOf(S) == {Claim(s) : s \in {t \in S : Resolved(t)}}

\* The requirements of IpamArbiter, for the sessions poll can record.
Arbiter == INSTANCE IpamArbiter WITH table <- sonar, report <- ClaimsOf(addresses)

\* Every change poll makes to the table is one IpamArbiter allows: with one
\* session per subscriber no write of a clean run ever loses a recorded session.
ImplementsArbiter == Arbiter!Spec

-----------------------------------------------------------------------------
(* The invariant of the matching loop. *)

\* The rows of the table that are not, or no longer, in the set of attachments.
Settled(id) == \A a \in attachments : a.sonar_id # id

\* The sessions the loop has reached.
Reached == addresses \ todo

InLoop == pc \in {"match", "delete", "sleep"}

\* What Raemis reports is legal, and so is the copy poll works on.
LegalInv == Legal(sessions) /\ Legal(addresses)

\* The attachments of a clean pass are rows of the table as it is now.
Agree == clean => \A a \in attachments :
                     a.sonar_id \in DOMAIN sonar /\ sonar[a.sonar_id] = RowOf(a)

\* Before the loop they are all of them.
AllRead == clean /\ pc = "addresses" => \A id \in DOMAIN sonar : ~Settled(id)

\* Each settled row records a session that has been reached.
SettledAreReached ==
    clean /\ InLoop => \A id \in DOMAIN sonar : Settled(id) =>
        \E s \in Reached : ~Unmatched(s) /\ Holds(sonar[id], s)

\* No two settled rows have the same address.
SettledDiffer ==
    clean /\ InLoop => \A i, j \in DOMAIN sonar : Settled(i) /\ Settled(j)
                         /\ sonar[i].ipv4 = sonar[j].ipv4 => i = j

\* No row has the session's address and its item has no id: nothing to record.
Unrecordable(s) ==
    Item(s) = NoId /\ \A id \in DOMAIN sonar : sonar[id].ipv4 # s.ipv4

\* Each session reached has a settled row, unless it cannot have one.
ReachedAreSettled ==
    clean /\ InLoop => \A s \in Reached : ~Unmatched(s) =>
        (\E id \in DOMAIN sonar : Settled(id) /\ Holds(sonar[id], s)) \/ Unrecordable(s)

\* can_delete says whether every session reached was matched.
FlagInv == InLoop => (can_delete <=> \A s \in Reached : ~Unmatched(s))

PlaceInv == /\ pc \in {"delete", "sleep"} => todo = {}
            /\ pc = "delete" => can_delete
            /\ pc = "sleep" /\ can_delete => attachments = {}

TableInv == /\ Agree
            /\ AllRead
            /\ SettledAreReached
            /\ SettledDiffer
            /\ ReachedAreSettled

\* The loop of poll splits the table of a clean pass in two: the assignments still
\* in the set, as they were read, and the settled rows, one for each session
\* reached; and can_delete tells whether all of these were matched.
PassInv == LegalInv /\ FlagInv /\ PlaceInv /\ TableInv

-----------------------------------------------------------------------------
(* What the repository says of the program, and the code does not do. *)

\* Line 204-208: an update that fails is tried again next time and the pass
\* skips its deletes.  Hence a reported session that has its row keeps it.
FailedUpdateSkipsDeletes ==
    [][pc = "delete" /\ edits' = edits =>
         \A s \in addresses : Held(s, sonar) => Held(s, sonar')]_vars
=============================================================================
