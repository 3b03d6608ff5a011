------------------------- MODULE PullAllocatorProofs -------------------------
(***************************************************************************)
(* Proofs about PullAllocator, for every inventory, every initial table,   *)
(* every kind of failure and every bound.                                  *)
(*                                                                         *)
(* The properties speak of the end of a pass; the invariant that carries   *)
(* them through the loop is PassInv of that module, proved here in three   *)
(* parts: what Raemis reports is legal (LegalInv), can_delete and the      *)
(* place in the pass fit together (FlagInv, PlaceInv), and the table is    *)
(* split as the loop leaves it (TableInv).                                 *)
(***************************************************************************)
EXTENDS PullAllocator, TLAPS

-----------------------------------------------------------------------------
(* Type correctness. *)

\* A table stays a table when a row is written or removed.
LEMMA PutType ==
    ASSUME IsTable(sonar), NEW id \in Ids, NEW row \in Row
    PROVE  IsTable(Put(id, row))
<1>1. PICK S \in SUBSET Ids : sonar \in [S -> Row]
  BY DEF IsTable
<1>2. Put(id, row) \in [S \cup {id} -> Row] /\ S \cup {id} \in SUBSET Ids
  BY <1>1 DEF Put
<1> QED
  BY <1>2 DEF IsTable

LEMMA DropType ==
    ASSUME IsTable(sonar), NEW id \in Ids
    PROVE  IsTable(Drop(id))
<1>1. PICK S \in SUBSET Ids : sonar \in [S -> Row]
  BY DEF IsTable
<1>2. Drop(id) \in [S \ {id} -> Row] /\ S \ {id} \in SUBSET Ids
  BY <1>1 DEF Drop
<1> QED
  BY <1>2 DEF IsTable

LEMMA TableRows ==
    ASSUME TypeOK
    PROVE  Table \in SUBSET Attachment
BY DEF TypeOK, IsTable, Table, Attachment, Row

\* The counters stay numbers.
LEMMA FaultType ==
    ASSUME TypeOK, NEW kind, Fault(kind)
    PROVE  faults' \in Nat
BY DEF TypeOK, Fault

LEMMA EditType ==
    ASSUME TypeOK, NEW table, Edit(table)
    PROVE  edits' \in Nat
BY DEF TypeOK, Edit

LEMMA ClaimType ==
    ASSUME NEW s \in Session, ~Unmatched(s), Item(s) # NoId
    PROVE  Claim(s) \in Row
BY InventoryAssumption DEF Session, Unmatched, Item, Claim, Row

\* Spec keeps every variable within its type (TypeOK): the loop never holds a
\* half-built attachment or a session it did not receive.
THEOREM TypeCorrect == Spec => []TypeOK
<1>1. Init => TypeOK
  <2> SUFFICES ASSUME Init PROVE TypeOK
    OBVIOUS
  <2>1. IsTable(sonar)
    BY DEF Init, IsTable
  <2> QED
    BY <2>1 DEF Init, TypeOK, Places
<1>2. TypeOK /\ [Next]_vars => TypeOK'
  <2> SUFFICES ASSUME TypeOK, [Next]_vars PROVE TypeOK'
    OBVIOUS
  <2> USE DEF TypeOK
  <2>1. CASE CheckEvent
    BY <2>1 DEF CheckEvent, Places, raemis
  <2>2. CASE GetAssignments
    <3>1. attachments' \in SUBSET Attachment /\ clean' \in BOOLEAN
      BY <2>2, TableRows DEF GetAssignments
    <3>2. faults' \in Nat
      BY <2>2, FaultType DEF GetAssignments
    <3> QED
      BY <2>2, <3>1, <3>2 DEF GetAssignments, Places, raemis
  <2>3. CASE GetAddresses
    <3>1. faults' \in Nat
      BY <2>3, FaultType DEF GetAddresses, RaemisAnswers, RaemisUnreachable, RaemisGarbled
    <3>2. addresses' \in SUBSET Session /\ todo' \in SUBSET addresses'
      BY <2>3 DEF GetAddresses, RaemisAnswers, RaemisUnreachable,
         RaemisGarbled, StartLoop
    <3> QED
      BY <2>3, <3>1, <3>2 DEF GetAddresses, RaemisAnswers, RaemisUnreachable,
         RaemisGarbled, StartLoop, Places, raemis
  <2>4. ASSUME NEW s \in todo, SkipUnmatched(s) PROVE TypeOK'
    BY <2>4 DEF SkipUnmatched, Advance, raemis
  <2>5. ASSUME NEW s \in todo, CreateAssignment(s) PROVE TypeOK'
    <3>1. CASE UNCHANGED <<sonar, clean, faults>>
      BY <2>5, <3>1 DEF CreateAssignment, Advance, raemis
    <3>2. CASE Item(s) # NoId /\ \E id \in FreshIds : Accepted(Put(id, Claim(s)))
      <4>1. Claim(s) \in Row
        BY <2>5, <3>2, ClaimType DEF CreateAssignment
      <4>2. IsTable(sonar')
        BY <3>2, <4>1, PutType DEF Accepted, FreshIds
      <4> QED
        BY <2>5, <3>2, <4>2 DEF CreateAssignment, Advance, raemis, Accepted
    <3>3. CASE Swallowed
      <4>1. faults' \in Nat
        BY <3>3, FaultType DEF Swallowed
      <4> QED
        BY <2>5, <3>3, <4>1 DEF CreateAssignment, Advance, raemis, Swallowed
    <3> QED
      BY <2>5, <3>1, <3>2, <3>3 DEF CreateAssignment, Write
  <2>6. ASSUME NEW s \in todo, NEW a \in attachments, SkipWithoutId(s, a) PROVE TypeOK'
    BY <2>6 DEF SkipWithoutId, Advance, raemis
  <2>7. ASSUME NEW s \in todo, NEW a \in attachments, Confirm(s, a) PROVE TypeOK'
    BY <2>7 DEF Confirm, Advance, raemis
  <2>8. ASSUME NEW s \in todo, NEW a \in attachments, UpdateAssignment(s, a) PROVE TypeOK'
    <3>1. Claim(s) \in Row
      BY <2>8, ClaimType DEF UpdateAssignment
    <3>2. a.sonar_id \in Ids
      BY DEF Attachment
    <3>3. IsTable(sonar')
      BY <2>8, <3>1, <3>2, PutType DEF UpdateAssignment, Write, Accepted, Swallowed
    <3>4. faults' \in Nat /\ clean' \in BOOLEAN
      BY <2>8, FaultType DEF UpdateAssignment, Write, Accepted, Swallowed
    <3> QED
      BY <2>8, <3>3, <3>4 DEF UpdateAssignment, Advance, raemis
  <2>9. CASE FinishLoop
    BY <2>9 DEF FinishLoop, Places, raemis
  <2>10. ASSUME NEW a \in attachments, DeleteAssignment(a) PROVE TypeOK'
    <3>1. a.sonar_id \in Ids
      BY DEF Attachment
    <3>2. IsTable(sonar')
      BY <2>10, <3>1, DropType DEF DeleteAssignment, Write, Accepted, Swallowed
    <3>3. faults' \in Nat /\ clean' \in BOOLEAN
      BY <2>10, FaultType DEF DeleteAssignment, Write, Accepted, Swallowed
    <3> QED
      BY <2>10, <3>2, <3>3 DEF DeleteAssignment, raemis
  <2>11. CASE FinishDeletes
    BY <2>11 DEF FinishDeletes, Places, raemis
  <2>12. CASE Sleep
    BY <2>12 DEF Sleep, Places, raemis
  <2>13. ASSUME NEW s \in Session, Attach(s) \/ Detach(s) PROVE TypeOK'
    BY <2>13 DEF Attach, Detach, SessionsChange, poller
  <2>14. ASSUME NEW id \in Ids, OperatorRemoves(id) PROVE TypeOK'
    <3>1. IsTable(sonar')
      BY <2>14, DropType DEF OperatorRemoves, Edit
    <3> QED
      BY <2>14, <3>1, EditType DEF OperatorRemoves, Edit, raemis, poller
  <2>15. ASSUME NEW id \in Ids, NEW row \in Row, OperatorWrites(id, row) PROVE TypeOK'
    <3>1. IsTable(sonar')
      BY <2>15, PutType DEF OperatorWrites, Edit
    <3> QED
      BY <2>15, <3>1, EditType DEF OperatorWrites, Edit, raemis, poller
  <2>16. CASE SetEvent
    BY <2>16 DEF SetEvent, raemis, poller
  <2>17. CASE UNCHANGED vars
    BY <2>17 DEF vars
  <2> QED
    BY <2>1, <2>2, <2>3, <2>4, <2>5, <2>6, <2>7, <2>8, <2>9, <2>10, <2>11, <2>12,
       <2>13, <2>14, <2>15, <2>16, <2>17
       DEF Next, Poll, MatchOne, Surroundings, Ended
<1> QED
  BY <1>1, <1>2, PTL DEF Spec

-----------------------------------------------------------------------------
(* The invariant of the matching loop. *)

\* Raemis never reports an address twice, and poll keeps what it reported.
LEMMA LegalStep ==
    ASSUME LegalInv, [Next]_vars
    PROVE  LegalInv'
<1> USE DEF LegalInv
<1>1. CASE GetAddresses
  <2>1. Legal({})
    BY DEF Legal
  <2>2. sessions' = sessions
    BY <1>1 DEF GetAddresses, raemis
  <2>3. addresses' = sessions \/ addresses' = {} \/ addresses' = addresses
    BY <1>1 DEF GetAddresses, RaemisAnswers, RaemisUnreachable,
         RaemisGarbled, StartLoop
  <2> QED
    BY <2>1, <2>2, <2>3 DEF Legal
<1>2. ASSUME NEW s \in Session, Attach(s) \/ Detach(s) PROVE LegalInv'
  <2>1. Legal(sessions')
    BY <1>2 DEF Attach, Detach, SessionsChange
  <2>2. addresses' = addresses
    BY <1>2 DEF Attach, Detach, SessionsChange, poller
  <2> QED
    BY <2>1, <2>2 DEF Legal
<1>3. CASE UNCHANGED <<sessions, addresses>>
  BY <1>3 DEF Legal
<1>4. CheckEvent \/ GetAssignments \/ MatchOne \/ FinishLoop \/ FinishDeletes \/ Sleep
        => UNCHANGED <<sessions, addresses>>
  BY DEF CheckEvent, GetAssignments, MatchOne, SkipUnmatched, CreateAssignment,
         SkipWithoutId, Confirm, UpdateAssignment, Advance, FinishLoop,
         FinishDeletes, Sleep, raemis
<1>5. ASSUME NEW a \in attachments, DeleteAssignment(a)
      PROVE  UNCHANGED <<sessions, addresses>>
  BY <1>5 DEF DeleteAssignment, raemis
<1>6. ASSUME NEW id \in Ids,
             OperatorRemoves(id) \/ \E row \in Row : OperatorWrites(id, row)
      PROVE  UNCHANGED <<sessions, addresses>>
  BY <1>6 DEF OperatorRemoves, OperatorWrites, Edit, raemis, poller
<1>7. SetEvent \/ UNCHANGED vars => UNCHANGED <<sessions, addresses>>
  BY DEF SetEvent, vars, raemis, poller
<1> QED
  BY <1>1, <1>2, <1>3, <1>4, <1>5, <1>6, <1>7 DEF Next, Poll, Surroundings, Ended

\* can_delete falls exactly when a session is reached that nothing matches, and
\* the deletes begin only when it has not fallen.
LEMMA FlagStep ==
    ASSUME TypeOK, FlagInv, PlaceInv, [Next]_vars
    PROVE  FlagInv' /\ PlaceInv'
<1> USE DEF FlagInv, PlaceInv, InLoop, Reached
<1>1. CASE UNCHANGED <<pc, attachments, addresses, todo, can_delete>>
  BY <1>1 DEF Unmatched, Item
<1>2. CASE CheckEvent \/ GetAssignments \/ Sleep
  BY <1>2 DEF CheckEvent, GetAssignments, Sleep
<1>3. CASE GetAddresses
  BY <1>3 DEF GetAddresses, RaemisAnswers, RaemisUnreachable,
         RaemisGarbled, StartLoop
<1>4. ASSUME NEW s \in todo, Advance(s), can_delete' = (can_delete /\ ~Unmatched(s))
      PROVE  FlagInv' /\ PlaceInv'
  <2>1. (addresses \ todo)' = (addresses \ todo) \cup {s}
    BY <1>4 DEF Advance, TypeOK
  <2>2. pc = "match" /\ pc' = "match"
    BY <1>4 DEF Advance
  <2>3. can_delete' <=> \A t \in (addresses \ todo) \cup {s} : ~Unmatched(t)
    BY <1>4, <2>2
  <2> QED
    BY <2>1, <2>2, <2>3 DEF Unmatched, Item
<1>5. MatchOne => \E s \in todo : Advance(s) /\ can_delete' = (can_delete /\ ~Unmatched(s))
  BY DEF MatchOne, SkipUnmatched, CreateAssignment, SkipWithoutId, Confirm,
         UpdateAssignment, TypeOK
<1>6. CASE FinishLoop
  BY <1>6 DEF FinishLoop, Unmatched, Item
<1>7. ASSUME NEW a \in attachments, DeleteAssignment(a)
      PROVE  FlagInv' /\ PlaceInv'
  BY <1>7 DEF DeleteAssignment, Unmatched, Item
<1>8. CASE FinishDeletes
  BY <1>8 DEF FinishDeletes, Unmatched, Item
<1>9. Surroundings => UNCHANGED <<pc, attachments, addresses, todo, can_delete>>
  BY DEF Surroundings, Attach, Detach, SessionsChange, OperatorRemoves,
         OperatorWrites, Edit, SetEvent, poller
<1>10. UNCHANGED vars => UNCHANGED <<pc, attachments, addresses, todo, can_delete>>
  BY DEF vars
<1> QED
  BY <1>1, <1>2, <1>3, <1>4, <1>5, <1>6, <1>7, <1>8, <1>9, <1>10 DEF Next, Poll, Ended

\* Nothing is claimed of a pass that is not clean.
LEMMA DirtyTable ==
    ASSUME clean' = FALSE
    PROVE  TableInv'
BY DEF TableInv, Agree, AllRead, SettledAreReached, SettledDiffer, ReachedAreSettled

\* A step that leaves the table and the pass alone keeps the split.
LEMMA FrameTable ==
    ASSUME TableInv, UNCHANGED <<sonar, attachments, addresses, todo, clean>>,
           InLoop' => InLoop, pc' = "addresses" => pc = "addresses"
    PROVE  TableInv'
BY DEF TableInv, Agree, AllRead, SettledAreReached, SettledDiffer, ReachedAreSettled,
       Settled, Reached, Unrecordable, Holds, Unmatched, Item, RowOf, InLoop

\* A clean read of the table: every row is in the set.
LEMMA ReadTable ==
    ASSUME TypeOK, attachments' = Table, sonar' = sonar, pc' = "addresses"
    PROVE  TableInv'
<1>1. Agree'
  <2>1. \A i \in DOMAIN sonar : sonar[i] = [item |-> sonar[i].item, ipv4 |-> sonar[i].ipv4]
    BY DEF TypeOK, IsTable, Row
  <2>2. \A a \in Table : a.sonar_id \in DOMAIN sonar
                         /\ a.item = sonar[a.sonar_id].item
                         /\ a.ipv4 = sonar[a.sonar_id].ipv4
    BY DEF Table
  <2>3. \A a \in Table : a.sonar_id \in DOMAIN sonar /\ sonar[a.sonar_id] = RowOf(a)
    BY <2>1, <2>2 DEF RowOf
  <2> QED
    BY <2>3 DEF Agree, RowOf
<1>2. AllRead'
  <2>1. \A i \in DOMAIN sonar : \E a \in Table : a.sonar_id = i
    <3> TAKE i \in DOMAIN sonar
    <3>1. [sonar_id |-> i, item |-> sonar[i].item, ipv4 |-> sonar[i].ipv4] \in Table
      BY DEF Table
    <3> QED
      BY <3>1
  <2> QED
    BY <2>1 DEF AllRead, Settled
<1>3. ~InLoop'
  BY DEF InLoop
<1> QED
  BY <1>1, <1>2, <1>3 DEF TableInv, SettledAreReached, SettledDiffer, ReachedAreSettled

\* The loop starts with no row settled and no session reached.
LEMMA StartTable ==
    ASSUME TableInv, pc = "addresses", pc' = "match", todo' = addresses',
           UNCHANGED <<sonar, attachments, clean>>
    PROVE  TableInv'
<1>1. Reached' = {}
  BY DEF Reached
<1>2. clean' => \A id \in DOMAIN sonar' : ~Settled(id)'
  BY DEF TableInv, AllRead, Settled
<1> QED
  BY <1>1, <1>2 DEF TableInv, Agree, AllRead, SettledAreReached, SettledDiffer,
                    ReachedAreSettled, RowOf

\* Two attachments of a clean pass with the same id are the same.
LEMMA OneAttachmentPerRow ==
    ASSUME TypeOK, TableInv, clean, NEW a \in attachments, NEW b \in attachments,
           a.sonar_id = b.sonar_id
    PROVE  a = b
<1>1. RowOf(a) = RowOf(b)
  BY DEF TableInv, Agree
<1>2. a.item = b.item /\ a.ipv4 = b.ipv4
  BY <1>1 DEF RowOf
<1> QED
  BY <1>2 DEF TypeOK, Attachment

\* A session not yet reached has another address than those reached.
LEMMA OtherAddress ==
    ASSUME TypeOK, LegalInv, NEW s \in todo, ~Unmatched(s),
           NEW t \in Reached, ~Unmatched(t)
    PROVE  s.ipv4 # t.ipv4
BY DEF TypeOK, LegalInv, Legal, Reached, Unmatched

\* Settling row id for session s: the row records s from now on, it leaves the
\* set if it was there, and every other row stays as it is.
LEMMA SettleTable ==
    ASSUME TypeOK, LegalInv, TableInv, clean, InLoop, NEW s \in todo, ~Unmatched(s),
           todo' = todo \ {s}, addresses' = addresses, pc' = pc,
           NEW id, ~Settled(id) \/ id \notin DOMAIN sonar,
           DOMAIN sonar' = DOMAIN sonar \cup {id},
           \A i \in DOMAIN sonar : i # id => sonar'[i] = sonar[i],
           Holds(sonar'[id], s),
           attachments' = {a \in attachments : a.sonar_id # id}
    PROVE  TableInv'
<1>1. Reached' = Reached \cup {s} /\ s \notin Reached
  BY DEF Reached, TypeOK
<1>2. \A i : Settled(i)' <=> i = id \/ Settled(i)
  BY DEF Settled
<1>3. \A i \in DOMAIN sonar : Settled(i) /\ i # id => sonar[i].ipv4 # s.ipv4
  <2> SUFFICES ASSUME NEW i \in DOMAIN sonar, Settled(i) PROVE sonar[i].ipv4 # s.ipv4
    OBVIOUS
  <2>1. PICK t \in Reached : ~Unmatched(t) /\ Holds(sonar[i], t)
    BY DEF TableInv, SettledAreReached
  <2> QED
    BY <2>1, OtherAddress DEF Holds
<1>4. sonar'[id].ipv4 = s.ipv4
  BY DEF Holds
<1>5. \A i \in DOMAIN sonar' : i = id \/ (i \in DOMAIN sonar /\ sonar'[i] = sonar[i])
  OBVIOUS
<1>6. Agree'
  BY DEF TableInv, Agree, RowOf
<1>7. AllRead'
  BY DEF AllRead, InLoop
<1>8. SettledAreReached'
  <2> SUFFICES ASSUME NEW i \in DOMAIN sonar', Settled(i)'
               PROVE  \E t \in Reached' : ~Unmatched(t) /\ Holds(sonar'[i], t)
    BY DEF SettledAreReached, Unmatched, Holds, Item
  <2>1. CASE i = id
    BY <2>1, <1>1
  <2>2. CASE i # id
    <3>1. Settled(i) /\ i \in DOMAIN sonar /\ sonar'[i] = sonar[i]
      BY <2>2, <1>2, <1>5
    <3>2. PICK t \in Reached : ~Unmatched(t) /\ Holds(sonar[i], t)
      BY <3>1 DEF TableInv, SettledAreReached
    <3> QED
      BY <3>1, <3>2, <1>1
  <2> QED
    BY <2>1, <2>2
<1>9. SettledDiffer'
  <2> SUFFICES ASSUME NEW i \in DOMAIN sonar', NEW j \in DOMAIN sonar',
                      Settled(i)', Settled(j)', sonar'[i].ipv4 = sonar'[j].ipv4
               PROVE  i = j
    BY DEF SettledDiffer
  <2> QED
    BY <1>2, <1>3, <1>4, <1>5 DEF TableInv, SettledDiffer
<1>10. ReachedAreSettled'
  <2> SUFFICES ASSUME NEW t \in Reached', ~Unmatched(t)
               PROVE  \/ \E i \in DOMAIN sonar' : Settled(i)' /\ Holds(sonar'[i], t)
                      \/ Item(t) = NoId /\ \A i \in DOMAIN sonar' : sonar'[i].ipv4 # t.ipv4
    BY DEF ReachedAreSettled, Unrecordable, Unmatched, Holds, Item
  <2>1. CASE t = s
    BY <2>1, <1>2
  <2>2. CASE t \in Reached
    <3>1. CASE \E i \in DOMAIN sonar : Settled(i) /\ Holds(sonar[i], t)
      <4>1. PICK i \in DOMAIN sonar : Settled(i) /\ Holds(sonar[i], t)
        BY <3>1
      <4>2. i # id
        BY <4>1
      <4> QED
        BY <4>1, <4>2, <1>2
    <3>2. CASE Unrecordable(t)
      <4>1. s.ipv4 # t.ipv4
        BY <2>2, OtherAddress
      <4> QED
        BY <3>2, <4>1, <1>4, <1>5 DEF Unrecordable
    <3> QED
      BY <2>2, <3>1, <3>2 DEF TableInv, ReachedAreSettled
  <2> QED
    BY <1>1, <2>1, <2>2
<1> QED
  BY <1>6, <1>7, <1>8, <1>9, <1>10 DEF TableInv

\* Passing over a session that nothing matches or that cannot be recorded.
LEMMA PassOverTable ==
    ASSUME TypeOK, TableInv, NEW s \in todo, Unmatched(s) \/ Unrecordable(s),
           todo' = todo \ {s}, UNCHANGED <<sonar, attachments, addresses, clean, pc>>
    PROVE  TableInv'
<1>1. Reached' = Reached \cup {s}
  BY DEF Reached, TypeOK
<1>2. ReachedAreSettled'
  BY <1>1 DEF TableInv, ReachedAreSettled, Settled, Unrecordable, Holds, Unmatched, Item,
              InLoop
<1>3. SettledAreReached'
  BY <1>1 DEF TableInv, SettledAreReached, Settled, Holds, Unmatched, Item, InLoop
<1> QED
  BY <1>2, <1>3 DEF TableInv, Agree, AllRead, SettledDiffer, Settled, RowOf, InLoop

\* Deleting the row of an attachment takes both out; the settled rows stay.
LEMMA ReleaseTable ==
    ASSUME TypeOK, TableInv, clean, InLoop, NEW a \in attachments,
           attachments' = attachments \ {a}, sonar' = Drop(a.sonar_id),
           UNCHANGED <<addresses, todo, clean, pc>>
    PROVE  TableInv'
<1>1. \A b \in attachments : b # a => b.sonar_id # a.sonar_id
  BY OneAttachmentPerRow
<1>2. /\ DOMAIN sonar' = DOMAIN sonar \ {a.sonar_id}
      /\ \A i \in DOMAIN sonar' : i \in DOMAIN sonar /\ sonar'[i] = sonar[i]
  BY DEF Drop
<1>3. \A i \in DOMAIN sonar : Settled(i) => i # a.sonar_id
  BY DEF Settled
<1>4. \A i \in DOMAIN sonar' : Settled(i)' <=> Settled(i)
  BY <1>2 DEF Settled
<1>5. Agree'
  BY <1>1, <1>2 DEF TableInv, Agree, RowOf
<1>6. AllRead'
  BY DEF AllRead, InLoop
<1>7. SettledAreReached' /\ SettledDiffer'
  BY <1>2, <1>4 DEF TableInv, SettledAreReached, SettledDiffer, Reached, Holds, Unmatched,
                    Item, InLoop
<1>8. ReachedAreSettled'
  BY <1>2, <1>3, <1>4 DEF TableInv, ReachedAreSettled, Reached, Holds, Unmatched, Item,
                          InLoop, Unrecordable
<1> QED
  BY <1>5, <1>6, <1>7, <1>8 DEF TableInv

\* What the loop body does with the attachment it paired with the session.
LEMMA PairTable ==
    ASSUME TypeOK, LegalInv, TableInv, clean, InLoop, NEW s \in todo, ~Unmatched(s),
           NEW a \in attachments, attachments' = attachments \ {a},
           todo' = todo \ {s}, addresses' = addresses, pc' = pc,
           \/ sonar' = sonar /\ Holds(RowOf(a), s)
           \/ sonar' = Put(a.sonar_id, Claim(s))
    PROVE  TableInv'
<1>1. a.sonar_id \in DOMAIN sonar /\ sonar[a.sonar_id] = RowOf(a)
  BY DEF TableInv, Agree
<1>2. attachments' = {b \in attachments : b.sonar_id # a.sonar_id}
  BY OneAttachmentPerRow
<1>3. ~Settled(a.sonar_id)
  BY DEF Settled
<1>4. Holds(Claim(s), s)
  BY DEF Holds, Claim
<1>5. /\ DOMAIN sonar' = DOMAIN sonar \cup {a.sonar_id}
      /\ \A i \in DOMAIN sonar : i # a.sonar_id => sonar'[i] = sonar[i]
      /\ Holds(sonar'[a.sonar_id], s)
  BY <1>1, <1>4 DEF Put
<1> QED
  BY <1>2, <1>3, <1>5, SettleTable

-----------------------------------------------------------------------------
LEMMA TableStep ==
    ASSUME TypeOK, PassInv, [Next]_vars
    PROVE  TableInv'
<1> USE DEF PassInv
<1>1. CASE CheckEvent \/ FinishLoop \/ FinishDeletes \/ Sleep
  BY <1>1, FrameTable DEF CheckEvent, FinishLoop, FinishDeletes, Sleep, InLoop
<1>2. CASE GetAssignments
  <2>1. CASE clean' = FALSE
    BY <2>1, DirtyTable
  <2>2. CASE attachments' = Table
    BY <1>2, <2>2, ReadTable DEF GetAssignments
  <2> QED
    BY <1>2, <2>1, <2>2 DEF GetAssignments
<1>3. CASE GetAddresses
  <2>1. CASE pc' = "dead"
    BY <1>3, <2>1, FrameTable DEF GetAddresses, RaemisAnswers, RaemisUnreachable,
         RaemisGarbled, StartLoop, InLoop
  <2>2. CASE \E S : StartLoop(S)
    BY <1>3, <2>2, StartTable DEF GetAddresses, RaemisAnswers, RaemisUnreachable,
         RaemisGarbled, StartLoop
  <2> QED
    BY <1>3, <2>1, <2>2 DEF GetAddresses, RaemisAnswers, RaemisUnreachable, RaemisGarbled
<1>4. ASSUME NEW s \in todo, SkipUnmatched(s) PROVE TableInv'
  BY <1>4, PassOverTable DEF SkipUnmatched, Advance
<1>5. ASSUME NEW s \in todo, CreateAssignment(s) PROVE TableInv'
  <2> USE <1>5 DEF CreateAssignment, Advance
  <2>1. CASE clean' = FALSE
    BY <2>1, DirtyTable
  <2>2. CASE clean /\ Item(s) = NoId
    <3>1. Unrecordable(s)
      <4> SUFFICES ASSUME NEW i \in DOMAIN sonar, sonar[i].ipv4 = s.ipv4 PROVE FALSE
        BY <2>2 DEF Unrecordable
      <4>1. CASE Settled(i)
        BY <2>2, <4>1, OtherAddress DEF TableInv, SettledAreReached, Holds, InLoop
      <4>2. CASE ~Settled(i)
        <5>1. PICK a \in attachments : a.sonar_id = i
          BY <4>2 DEF Settled
        <5>2. sonar[i] = RowOf(a)
          BY <2>2, <5>1 DEF TableInv, Agree
        <5>3. a.ipv4 = s.ipv4
          BY <5>2 DEF RowOf
        <5> QED
          BY <5>3 DEF Candidates, ByAddress
      <4> QED
        BY <4>1, <4>2
    <3> QED
      BY <2>2, <3>1, PassOverTable
  <2>3. CASE clean /\ \E id \in FreshIds : sonar' = Put(id, Claim(s))
    <3>1. PICK id \in FreshIds : sonar' = Put(id, Claim(s))
      BY <2>3
    <3>2. id \notin DOMAIN sonar /\ \A a \in attachments : a.sonar_id # id
      BY DEF FreshIds
    <3>3. /\ DOMAIN sonar' = DOMAIN sonar \cup {id}
          /\ \A i \in DOMAIN sonar : i # id => sonar'[i] = sonar[i]
          /\ sonar'[id] = Claim(s)
      BY <3>1 DEF Put
    <3>4. Holds(sonar'[id], s)
      BY <3>3 DEF Holds, Claim
    <3>5. attachments' = {a \in attachments : a.sonar_id # id}
      BY <3>2
    <3> QED
      BY <2>3, <3>2, <3>3, <3>4, <3>5, SettleTable DEF InLoop
  <2> QED
    BY <2>1, <2>2, <2>3 DEF Write, Accepted, Swallowed, TypeOK
<1>6. ASSUME NEW s \in todo, NEW a \in attachments, SkipWithoutId(s, a) PROVE TableInv'
  <2> USE <1>6 DEF SkipWithoutId, Advance
  <2>1. CASE clean
    <3>1. a.item \in Items
      BY DEF TypeOK, Attachment
    <3>2. a.ipv4 = s.ipv4
      BY <3>1, NamesAssumption DEF Candidates, ByItem, ByAddress
    <3>3. Holds(RowOf(a), s)
      BY <3>2, NamesAssumption DEF Holds, RowOf
    <3> QED
      BY <2>1, <3>3, PairTable DEF InLoop
  <2> QED
    BY <2>1, DirtyTable DEF TypeOK
<1>7. ASSUME NEW s \in todo, NEW a \in attachments, Confirm(s, a) PROVE TableInv'
  <2> USE <1>7 DEF Confirm, Advance
  <2>1. CASE clean
    <3>1. Holds(RowOf(a), s)
      BY DEF Holds, Claim
    <3> QED
      BY <2>1, <3>1, PairTable DEF InLoop
  <2> QED
    BY <2>1, DirtyTable DEF TypeOK
<1>8. ASSUME NEW s \in todo, NEW a \in attachments, UpdateAssignment(s, a) PROVE TableInv'
  <2> USE <1>8 DEF UpdateAssignment, Advance
  <2>1. CASE clean' = FALSE
    BY <2>1, DirtyTable
  <2>2. CASE clean /\ sonar' = Put(a.sonar_id, Claim(s))
    BY <2>2, PairTable DEF InLoop
  <2>3. clean => a.sonar_id \in DOMAIN sonar
    BY DEF TableInv, Agree
  <2> QED
    BY <2>1, <2>2, <2>3 DEF Write, Accepted, Swallowed, TypeOK
<1>9. ASSUME NEW a \in attachments, DeleteAssignment(a) PROVE TableInv'
  <2> USE <1>9 DEF DeleteAssignment
  <2>1. CASE clean' = FALSE
    BY <2>1, DirtyTable
  <2>2. CASE clean /\ Accepted(Drop(a.sonar_id))
    BY <2>2, ReleaseTable DEF InLoop, Accepted
  <2> QED
    BY <2>1, <2>2 DEF Write, Accepted, Swallowed, TypeOK
<1>10. ASSUME NEW s \in Session, Attach(s) \/ Detach(s) PROVE TableInv'
  BY <1>10, FrameTable DEF Attach, Detach, SessionsChange, poller, InLoop
<1>11. ASSUME NEW id \in Ids,
              OperatorRemoves(id) \/ \E row \in Row : OperatorWrites(id, row)
       PROVE  TableInv'
  BY <1>11, DirtyTable DEF OperatorRemoves, OperatorWrites, Edit
<1>12. CASE SetEvent
  BY <1>12, FrameTable DEF SetEvent, poller, InLoop
<1>13. CASE UNCHANGED vars
  BY <1>13, FrameTable DEF vars, InLoop
<1> QED
  BY <1>1, <1>2, <1>3, <1>4, <1>5, <1>6, <1>7, <1>8, <1>9, <1>10, <1>11, <1>12, <1>13
     DEF Next, Poll, MatchOne, Surroundings, Ended

\* The loop of poll keeps the split of the table (PassInv) whatever fails, for
\* every inventory, table and number of sessions.
THEOREM PassInvariant == Spec => []PassInv
<1>1. Init => PassInv
  BY DEF Init, PassInv, LegalInv, Legal, FlagInv, PlaceInv, InLoop, TableInv, Agree,
         AllRead, SettledAreReached, SettledDiffer, ReachedAreSettled
<1>2. TypeOK /\ PassInv /\ [Next]_vars => PassInv'
  <2> SUFFICES ASSUME TypeOK, PassInv, [Next]_vars PROVE PassInv'
    OBVIOUS
  <2>1. LegalInv'
    BY LegalStep DEF PassInv
  <2>2. FlagInv' /\ PlaceInv'
    BY FlagStep DEF PassInv
  <2>3. TableInv'
    BY TableStep
  <2> QED
    BY <2>1, <2>2, <2>3 DEF PassInv
<1> QED
  BY <1>1, <1>2, TypeCorrect, PTL DEF Spec

-----------------------------------------------------------------------------
(* The properties. *)

LEMMA ResolvedIsMatched ==
    ASSUME NEW s, Resolved(s)
    PROVE  ~Unmatched(s) /\ Item(s) # NoId
BY NamesAssumption DEF Resolved, Unmatched

\* A row that holds a resolved session is its claim, and only then.
LEMMA HoldsIsClaim ==
    ASSUME NEW s, Resolved(s), NEW row \in Row
    PROVE  Holds(row, s) <=> row = Claim(s)
BY DEF Holds, Claim, Resolved, Row

LEMMA RowType ==
    ASSUME TypeOK, NEW i \in DOMAIN sonar
    PROVE  sonar[i] \in Row
BY DEF TypeOK, IsTable

\* A clean pass of poll over resolved sessions ends with exactly one assignment
\* per session in Sonar (PassExact), whatever the table held before.
THEOREM PassIsExact == Spec => []PassExact
<1>1. TypeOK /\ PassInv => PassExact
  <2> SUFFICES ASSUME TypeOK, PassInv, pc = "sleep", clean,
                      \A s \in addresses : Resolved(s)
               PROVE  Exact(addresses)
    BY DEF PassExact
  <2>1. Reached = addresses /\ InLoop
    BY DEF PassInv, PlaceInv, Reached, InLoop
  <2>2. \A i \in DOMAIN sonar : Settled(i)
    BY <2>1, ResolvedIsMatched DEF PassInv, FlagInv, PlaceInv, Settled
  <2>3. ASSUME NEW s \in addresses
        PROVE  \E i \in DOMAIN sonar : sonar[i] = Claim(s)
    BY <2>1, ResolvedIsMatched, HoldsIsClaim, RowType
       DEF PassInv, TableInv, ReachedAreSettled, Unrecordable
  <2>4. ASSUME NEW i \in DOMAIN sonar
        PROVE  \E s \in addresses : sonar[i] = Claim(s)
    BY <2>1, <2>2, HoldsIsClaim, RowType DEF PassInv, TableInv, SettledAreReached
  <2>5. \A i, j \in DOMAIN sonar : sonar[i].ipv4 = sonar[j].ipv4 => i = j
    BY <2>1, <2>2 DEF PassInv, TableInv, SettledDiffer
  <2> QED
    BY <2>3, <2>4, <2>5 DEF Exact
<1> QED
  BY <1>1, TypeCorrect, PassInvariant, PTL

\* In the last phase of a pass only a delete, or an edit, changes the table.
LEMMA DeletePhase ==
    ASSUME TypeOK, [Next]_vars, pc = "delete", edits' = edits
    PROVE  \/ sonar' = sonar
           \/ \E a \in attachments : sonar' = Drop(a.sonar_id)
<1>1. ASSUME NEW table, Edit(table) PROVE FALSE
  BY <1>1 DEF Edit, TypeOK
<1>2. ~MatchOne /\ ~CheckEvent /\ ~GetAssignments /\ ~GetAddresses /\ ~Sleep
  BY DEF MatchOne, SkipUnmatched, CreateAssignment, SkipWithoutId, Confirm,
         UpdateAssignment, Advance, CheckEvent, GetAssignments, GetAddresses, Sleep
<1>3. FinishLoop \/ FinishDeletes \/ SetEvent \/ UNCHANGED vars => sonar' = sonar
  BY DEF FinishLoop, FinishDeletes, SetEvent, vars
<1>4. \A s \in Session : Attach(s) \/ Detach(s) => sonar' = sonar
  BY DEF Attach, Detach, SessionsChange
<1>5. \A a \in attachments : DeleteAssignment(a) => sonar' = sonar \/ sonar' = Drop(a.sonar_id)
  BY DEF DeleteAssignment, Write, Accepted, Swallowed
<1> QED
  BY <1>1, <1>2, <1>3, <1>4, <1>5
     DEF Next, Poll, Surroundings, Ended, OperatorRemoves, OperatorWrites

\* The deletes of a clean pass take no row that is the last to record a session
\* Raemis reported (DeleteKeepsReported).
THEOREM DeletesAreSafe == Spec => DeleteKeepsReported
<1>1. ASSUME TypeOK, PassInv, [Next]_vars, pc = "delete", clean, edits' = edits,
             NEW s \in addresses, Held(s, sonar)
      PROVE  Held(s, sonar')
  <2>1. s \in Reached /\ ~Unmatched(s) /\ InLoop
    BY <1>1 DEF PassInv, PlaceInv, FlagInv, Reached, InLoop
  <2>2. ~Unrecordable(s)
    BY <1>1 DEF Held, Holds, Unrecordable
  <2>3. PICK i \in DOMAIN sonar : Settled(i) /\ Holds(sonar[i], s)
    BY <1>1, <2>1, <2>2 DEF PassInv, TableInv, ReachedAreSettled
  <2>4. i \in DOMAIN sonar' /\ sonar'[i] = sonar[i]
    BY <1>1, <2>3, DeletePhase DEF Drop, Settled
  <2> QED
    BY <2>3, <2>4 DEF Held
<1>2. TypeOK /\ PassInv /\ [Next]_vars =>
        [pc = "delete" /\ clean /\ edits' = edits =>
           \A s \in addresses : Held(s, sonar) => Held(s, sonar')]_vars
  BY <1>1
<1> QED
  BY <1>2, TypeCorrect, PassInvariant, PTL DEF Spec, DeleteKeepsReported

\* In a clean pass no settled row records a session not reached yet.
LEMMA NotSettledYet ==
    ASSUME TypeOK, PassInv, clean, pc = "match", NEW s \in todo, ~Unmatched(s),
           NEW i \in DOMAIN sonar, sonar[i] = Claim(s)
    PROVE  \E b \in attachments : RowOf(b) = Claim(s) /\ b \in ByItem(s)
<1>1. ~Settled(i)
  <2> SUFFICES ASSUME Settled(i) PROVE FALSE
    OBVIOUS
  <2>1. PICK t \in Reached : ~Unmatched(t) /\ Holds(sonar[i], t)
    BY DEF PassInv, TableInv, SettledAreReached, InLoop
  <2>2. s.ipv4 # t.ipv4
    BY <2>1, OtherAddress DEF PassInv
  <2> QED
    BY <2>1, <2>2 DEF Holds, Claim
<1>2. PICK b \in attachments : b.sonar_id = i
  BY <1>1 DEF Settled
<1>3. RowOf(b) = Claim(s)
  BY <1>2 DEF PassInv, TableInv, Agree
<1> QED
  BY <1>3 DEF RowOf, Claim, ByItem

\* With one session per subscriber an attachment paired with s that records a
\* reported session at all records s.
LEMMA PairedRecords ==
    ASSUME TypeOK, PassInv, OneSession, NEW s \in todo, Resolved(s),
           NEW a \in attachments, a.item = Item(s) \/ a.ipv4 = s.ipv4,
           NEW t \in addresses, Resolved(t), RowOf(a) = Claim(t)
    PROVE  RowOf(a) = Claim(s)
<1>1. a.item = Item(t) /\ a.ipv4 = t.ipv4
  BY DEF RowOf, Claim
<1>2. s \in addresses /\ s.imsi \in Imsis /\ t.imsi \in Imsis
  BY DEF TypeOK, Session
<1>3. CASE a.item = Item(s)
  <2>1. s.imsi = t.imsi
    BY <1>1, <1>2, <1>3, InventoryAssumption DEF Item, Resolved
  <2> QED
    BY <2>1, <1>2 DEF PassInv, LegalInv, Legal
<1>4. CASE a.ipv4 = s.ipv4
  BY <1>1, <1>2, <1>4 DEF PassInv, LegalInv, Legal, Resolved
<1> QED
  BY <1>3, <1>4

\* A delete of a clean pass takes no settled row, so what is reported stays.
LEMMA DeletedIsSpare ==
    ASSUME TypeOK, PassInv, clean, pc = "delete", NEW t \in addresses, Resolved(t)
    PROVE  \E j \in DOMAIN sonar : Settled(j) /\ sonar[j] = Claim(t)
<1>1. t \in Reached /\ InLoop
  BY DEF PassInv, PlaceInv, Reached, InLoop
<1> QED
  BY <1>1, ResolvedIsMatched, HoldsIsClaim, RowType
     DEF PassInv, TableInv, ReachedAreSettled, Unrecordable

\* With one session per subscriber a clean pass that finds the table exact
\* writes nothing (QuietWhenExact).
THEOREM AllocatorSettles == Spec => QuietWhenExact
<1>1. ASSUME TypeOK, PassInv, [Next]_vars, OneSession, clean, Exact(addresses),
             edits' = edits, pc = "delete"
      PROVE  sonar' = sonar
  <2> SUFFICES ASSUME NEW a \in attachments PROVE FALSE
    BY <1>1, DeletePhase
  <2>1. a.sonar_id \in DOMAIN sonar /\ ~Settled(a.sonar_id)
    BY <1>1 DEF PassInv, TableInv, Agree, Settled
  <2>2. PICK t \in addresses : sonar[a.sonar_id] = Claim(t)
    BY <1>1, <2>1 DEF Exact
  <2>3. PICK j \in DOMAIN sonar : Settled(j) /\ sonar[j] = Claim(t)
    BY <1>1, DeletedIsSpare DEF Exact
  <2> QED
    BY <1>1, <2>1, <2>2, <2>3 DEF Exact
<1>2. ASSUME TypeOK, PassInv, [Next]_vars, OneSession, clean, Exact(addresses),
             edits' = edits, pc = "match"
      PROVE  sonar' = sonar
  <2>1. ASSUME NEW s \in todo PROVE Resolved(s) /\ ~Unmatched(s)
    BY <1>2, ResolvedIsMatched DEF Exact, TypeOK
  <2>2. ASSUME NEW s \in todo PROVE ByItem(s) # {}
    BY <1>2, <2>1, NotSettledYet DEF Exact, TypeOK
  <2>3. ASSUME NEW s \in todo, CreateAssignment(s) PROVE FALSE
    BY <2>2, <2>3 DEF CreateAssignment, Candidates
  <2>4. ASSUME NEW s \in todo, NEW a \in attachments, UpdateAssignment(s, a) PROVE FALSE
    <3>1. a.item = Item(s) \/ a.ipv4 = s.ipv4
      BY <2>4 DEF UpdateAssignment, Candidates, ByItem, ByAddress
    <3>2. a.sonar_id \in DOMAIN sonar /\ sonar[a.sonar_id] = RowOf(a)
      BY <1>2 DEF PassInv, TableInv, Agree
    <3>3. PICK t \in addresses : RowOf(a) = Claim(t)
      BY <1>2, <3>2 DEF Exact
    <3>4. RowOf(a) = Claim(s)
      BY <1>2, <2>1, <3>1, <3>3, PairedRecords DEF Exact
    <3> QED
      BY <2>4, <3>4 DEF UpdateAssignment
  <2>5. ASSUME NEW table, Edit(table) PROVE FALSE
    BY <1>2, <2>5 DEF Edit, TypeOK
  <2>6. \A s, a : SkipUnmatched(s) \/ SkipWithoutId(s, a) \/ Confirm(s, a) => sonar' = sonar
    BY DEF SkipUnmatched, SkipWithoutId, Confirm
  <2>7. FinishLoop \/ SetEvent \/ UNCHANGED vars => sonar' = sonar
    BY DEF FinishLoop, SetEvent, vars
  <2>8. \A s \in Session : Attach(s) \/ Detach(s) => sonar' = sonar
    BY DEF Attach, Detach, SessionsChange
  <2>9. ~CheckEvent /\ ~GetAssignments /\ ~GetAddresses /\ ~FinishDeletes /\ ~Sleep
        /\ \A a \in attachments : ~DeleteAssignment(a)
    BY <1>2 DEF CheckEvent, GetAssignments, GetAddresses, FinishDeletes, Sleep,
               DeleteAssignment
  <2> QED
    BY <1>2, <2>3, <2>4, <2>5, <2>6, <2>7, <2>8, <2>9
       DEF Next, Poll, MatchOne, Surroundings, Ended, OperatorRemoves, OperatorWrites
<1>3. TypeOK /\ PassInv /\ [Next]_vars =>
        [OneSession /\ pc \in {"match", "delete"} /\ clean /\ Exact(addresses)
           /\ edits' = edits => sonar' = sonar]_vars
  BY <1>1, <1>2
<1> QED
  BY <1>3, TypeCorrect, PassInvariant, PTL DEF Spec, QuietWhenExact

-----------------------------------------------------------------------------
(* The refinement. *)

\* What is assumed of the run: one session per subscriber, nobody else edits the
\* table and the calls to Sonar do not fail (those to Raemis may).
Undisturbed == /\ OneSession
               /\ Faults \subseteq {"raemis_get", "raemis_bad"}
               /\ MaxEdits = 0

\* Then every pass is clean from its first read on.
CleanInv == /\ edits = 0
            /\ pc \in {"addresses", "match", "delete", "sleep"} => clean

LEMMA CleanStep ==
    ASSUME Undisturbed, TypeOK, CleanInv, [Next]_vars
    PROVE  CleanInv'
<1> USE DEF CleanInv, Undisturbed
<1>1. ~Fault("sonar_write") /\ ~Fault("sonar_get")
  BY DEF Fault
<1>2. CheckEvent \/ FinishLoop \/ FinishDeletes \/ Sleep \/ GetAddresses => CleanInv'
  BY DEF CheckEvent, FinishLoop, FinishDeletes, Sleep, GetAddresses, RaemisAnswers, RaemisUnreachable,
         RaemisGarbled, StartLoop
<1>3. CASE GetAssignments
  BY <1>1, <1>3 DEF GetAssignments
<1>4. ASSUME NEW s \in todo, NEW a \in attachments,
             SkipUnmatched(s) \/ SkipWithoutId(s, a) \/ Confirm(s, a) \/ UpdateAssignment(s, a)
      PROVE  CleanInv'
  BY <1>1, <1>4 DEF SkipUnmatched, SkipWithoutId, Confirm, UpdateAssignment, Advance,
                    Write, Accepted, Swallowed
<1>5. ASSUME NEW s \in todo, SkipUnmatched(s) \/ CreateAssignment(s) PROVE CleanInv'
  BY <1>1, <1>5 DEF SkipUnmatched, CreateAssignment, Advance, Write, Accepted, Swallowed
<1>6. ASSUME NEW a \in attachments, DeleteAssignment(a) PROVE CleanInv'
  <2>1. clean' = clean
    BY <1>1, <1>6 DEF DeleteAssignment, Write, Accepted, Swallowed
  <2>2. pc' = pc /\ edits' = edits
    BY <1>6 DEF DeleteAssignment
  <2> QED
    BY <2>1, <2>2
<1>7. ASSUME NEW s, Attach(s) \/ Detach(s) PROVE CleanInv'
  BY <1>7 DEF Attach, Detach, SessionsChange, poller
<1>8. ASSUME NEW table, Edit(table) PROVE FALSE
  BY <1>8 DEF Edit
<1>9. SetEvent \/ UNCHANGED vars => CleanInv'
  BY DEF SetEvent, vars, poller
<1> QED
  BY <1>2, <1>3, <1>4, <1>5, <1>6, <1>7, <1>8, <1>9
     DEF Next, Poll, MatchOne, Surroundings, Ended, OperatorRemoves, OperatorWrites

\* The report that IpamArbiter sees is one it accepts.
LEMMA ClaimsAreAReport ==
    ASSUME NEW S \in SUBSET Session, Legal(S), OneSession
    PROVE  ClaimsOf(S) \in SUBSET Row /\ Arbiter!OneEach(ClaimsOf(S))
<1>1. ClaimsOf(S) \in SUBSET Row
  BY DEF ClaimsOf, Claim, Resolved, Session, Row
<1>2. ASSUME NEW s \in S, NEW t \in S, Resolved(s), Resolved(t),
             Item(s) = Item(t) \/ s.ipv4 = t.ipv4
      PROVE  s = t
  <2>1. s.imsi \in Imsis /\ t.imsi \in Imsis
    BY DEF Session
  <2>2. CASE Item(s) = Item(t)
    BY <1>2, <2>1, <2>2, InventoryAssumption DEF Item, Resolved, Legal
  <2>3. CASE s.ipv4 = t.ipv4
    BY <1>2, <2>3 DEF Legal, Resolved
  <2> QED
    BY <1>2, <2>2, <2>3
<1>3. Arbiter!OneEach(ClaimsOf(S))
  BY <1>2 DEF Arbiter!OneEach, ClaimsOf, Claim
<1> QED
  BY <1>1, <1>3

\* A row written for a session that has none is a Create of IpamArbiter.
LEMMA CreateIsAllowed ==
    ASSUME Undisturbed, TypeOK, PassInv, CleanInv, NEW s \in todo, CreateAssignment(s)
    PROVE  Arbiter!Next \/ UNCHANGED <<sonar, ClaimsOf(addresses)>>
<1>1. addresses' = addresses /\ pc = "match" /\ clean /\ ~Unmatched(s) /\ ByItem(s) = {}
  BY DEF CreateAssignment, Advance, CleanInv, Candidates
<1>2. CASE sonar' = sonar
  BY <1>1, <1>2 DEF ClaimsOf, Claim, Resolved, Item
<1>3. CASE Item(s) # NoId /\ \E id \in FreshIds : sonar' = Put(id, Claim(s))
  <2>1. PICK id \in FreshIds : sonar' = Put(id, Claim(s))
    BY <1>3
  <2>2. id \in Ids \ DOMAIN sonar
    BY DEF FreshIds
  <2>3. Resolved(s) /\ s \in addresses /\ s \in Session
    BY <1>1, <1>3, InventoryAssumption DEF Unmatched, Resolved, Item, TypeOK, Session
  <2>4. Claim(s) \in ClaimsOf(addresses) /\ Claim(s) \in Row
    BY <1>3, <2>3, ClaimType, ResolvedIsMatched DEF ClaimsOf
  <2>5. Claim(s) \notin Arbiter!Rows(sonar)
    BY <1>1, NotSettledYet DEF Arbiter!Rows
  <2>6. Arbiter!Create(id, Claim(s))
    BY <1>1, <2>1, <2>2, <2>4, <2>5
       DEF Arbiter!Create, Put, ClaimsOf, Claim, Resolved, Item
  <2> QED
    BY <2>2, <2>4, <2>6 DEF Arbiter!Next, Arbiter!Row, Row
<1> QED
  BY <1>2, <1>3 DEF CreateAssignment, Write, Accepted, Swallowed

\* An assignment given to another session is a Rewrite.
LEMMA UpdateIsAllowed ==
    ASSUME Undisturbed, TypeOK, PassInv, CleanInv, NEW s \in todo, NEW a \in attachments,
           UpdateAssignment(s, a)
    PROVE  Arbiter!Next \/ UNCHANGED <<sonar, ClaimsOf(addresses)>>
<1>1. /\ addresses' = addresses /\ pc = "match" /\ clean /\ ~Unmatched(s)
      /\ Item(s) # NoId /\ RowOf(a) # Claim(s)
      /\ a.item = Item(s) \/ a.ipv4 = s.ipv4
  BY DEF UpdateAssignment, Advance, CleanInv, Candidates, ByItem, ByAddress
<1>2. a.sonar_id \in DOMAIN sonar /\ sonar[a.sonar_id] = RowOf(a)
  BY <1>1 DEF PassInv, TableInv, Agree
<1>3. CASE sonar' = sonar
  BY <1>1, <1>3 DEF ClaimsOf, Claim, Resolved, Item
<1>4. CASE sonar' = Put(a.sonar_id, Claim(s))
  <2>1. Resolved(s) /\ s \in addresses /\ s \in Session
    BY <1>1, InventoryAssumption DEF Unmatched, Resolved, Item, TypeOK, Session
  <2>2. Claim(s) \in ClaimsOf(addresses) /\ Claim(s) \in Row
    BY <1>1, <2>1, ClaimType DEF ClaimsOf
  <2>3. sonar[a.sonar_id] \notin ClaimsOf(addresses)
    BY <1>1, <1>2, <2>1, PairedRecords DEF ClaimsOf, Undisturbed
  <2>4. sonar' = [sonar EXCEPT ![a.sonar_id] = Claim(s)]
    BY <1>2, <1>4 DEF Put, TypeOK, IsTable
  <2>5. Arbiter!Rewrite(a.sonar_id, Claim(s))
    BY <1>1, <1>2, <2>2, <2>3, <2>4
       DEF Arbiter!Rewrite, ClaimsOf, Claim, Resolved, Item
  <2>6. a.sonar_id \in Ids
    BY DEF TypeOK, Attachment
  <2> QED
    BY <2>2, <2>5, <2>6 DEF Arbiter!Next, Arbiter!Row, Row
<1> QED
  BY <1>2, <1>3, <1>4 DEF UpdateAssignment, Write, Accepted, Swallowed

\* A delete is a Release: what is recorded and reported has another row.
LEMMA DeleteIsAllowed ==
    ASSUME Undisturbed, TypeOK, PassInv, CleanInv, NEW a \in attachments, DeleteAssignment(a)
    PROVE  Arbiter!Next \/ UNCHANGED <<sonar, ClaimsOf(addresses)>>
<1>1. addresses' = addresses /\ pc = "delete" /\ clean
  BY DEF DeleteAssignment, CleanInv
<1>2. a.sonar_id \in DOMAIN sonar /\ a.sonar_id \in Ids /\ ~Settled(a.sonar_id)
  BY <1>1 DEF PassInv, TableInv, Agree, Settled, TypeOK, Attachment
<1>3. CASE sonar' = sonar
  BY <1>1, <1>3 DEF ClaimsOf, Claim, Resolved, Item
<1>4. CASE sonar' = Drop(a.sonar_id)
  <2>1. ASSUME NEW t \in addresses, Resolved(t)
        PROVE  Claim(t) \in Arbiter!Rows(sonar')
    <3>1. PICK j \in DOMAIN sonar : Settled(j) /\ sonar[j] = Claim(t)
      BY <1>1, <2>1, DeletedIsSpare
    <3>2. j \in DOMAIN sonar' /\ sonar'[j] = Claim(t)
      BY <1>2, <1>4, <3>1 DEF Drop
    <3> QED
      BY <3>2 DEF Arbiter!Rows
  <2>2. ClaimsOf(addresses) \subseteq Arbiter!Rows(sonar')
    BY <2>1 DEF ClaimsOf
  <2>3. Arbiter!Release(a.sonar_id)
    BY <1>1, <1>2, <1>4, <2>2
       DEF Arbiter!Release, Drop, ClaimsOf, Claim, Resolved, Item
  <2> QED
    BY <1>2, <2>3 DEF Arbiter!Next
<1> QED
  BY <1>3, <1>4 DEF DeleteAssignment, Write, Accepted, Swallowed

LEMMA StepIsAllowed ==
    ASSUME Undisturbed, TypeOK, TypeOK', PassInv, PassInv', CleanInv, [Next]_vars
    PROVE  Arbiter!Next \/ UNCHANGED <<sonar, ClaimsOf(addresses)>>
<1>1. CASE GetAddresses
  <2>1. ClaimsOf(addresses)' = ClaimsOf(addresses')
    BY DEF ClaimsOf, Claim, Resolved, Item
  <2>2. addresses' \in SUBSET Session /\ Legal(addresses')
    BY DEF TypeOK, PassInv, LegalInv, Legal
  <2>3. ClaimsOf(addresses') \in SUBSET Row /\ Arbiter!OneEach(ClaimsOf(addresses'))
    BY <2>2, ClaimsAreAReport DEF Undisturbed
  <2>4. Arbiter!Report
    BY <1>1, <2>1, <2>3 DEF Arbiter!Report, GetAddresses, Arbiter!Row, Row
  <2> QED
    BY <2>4 DEF Arbiter!Next
<1>2. CASE UNCHANGED <<sonar, addresses>>
  BY <1>2 DEF ClaimsOf, Claim, Resolved, Item
<1>3. CheckEvent \/ GetAssignments \/ FinishLoop \/ FinishDeletes \/ Sleep \/ SetEvent
        \/ UNCHANGED vars => UNCHANGED <<sonar, addresses>>
  BY DEF CheckEvent, GetAssignments, FinishLoop, FinishDeletes, Sleep, SetEvent, vars,
         poller
<1>4. ASSUME NEW s, NEW a, SkipUnmatched(s) \/ SkipWithoutId(s, a) \/ Confirm(s, a)
      PROVE  UNCHANGED <<sonar, addresses>>
  BY <1>4 DEF SkipUnmatched, SkipWithoutId, Confirm, Advance
<1>5. ASSUME NEW s, Attach(s) \/ Detach(s)
      PROVE  UNCHANGED <<sonar, addresses>>
  BY <1>5 DEF Attach, Detach, SessionsChange, poller
<1>6. ASSUME NEW table, Edit(table) PROVE FALSE
  BY <1>6 DEF Edit, Undisturbed, CleanInv
<1> QED
  BY <1>1, <1>2, <1>3, <1>4, <1>5, <1>6, CreateIsAllowed, UpdateIsAllowed, DeleteIsAllowed
     DEF Next, Poll, MatchOne, Surroundings, Ended, OperatorRemoves, OperatorWrites

\* With one session per subscriber and no failing Sonar call, the poll loop
\* implements IpamArbiter (ImplementsArbiter): it moves the table towards each
\* report by writes that never lose a row the report asks for.
THEOREM AllocatorImplementsArbiter ==
    ASSUME Undisturbed
    PROVE  Spec => ImplementsArbiter
<1>1. Init => Arbiter!Init
  <2> SUFFICES ASSUME Init PROVE Arbiter!Init
    OBVIOUS
  <2>1. ClaimsOf(addresses) = {}
    BY DEF Init, ClaimsOf
  <2> QED
    BY <2>1 DEF Init, Arbiter!Init, Arbiter!Row, Row
<1>2. Init => CleanInv
  BY DEF Init, CleanInv
<1>3. TypeOK /\ CleanInv /\ [Next]_vars => CleanInv'
  BY CleanStep
<1>4. TypeOK /\ TypeOK' /\ PassInv /\ PassInv' /\ CleanInv /\ [Next]_vars
        => [Arbiter!Next]_(Arbiter!vars)
  BY StepIsAllowed DEF Arbiter!vars
<1> QED
  BY <1>1, <1>2, <1>3, <1>4, TypeCorrect, PassInvariant, PTL
     DEF Spec, ImplementsArbiter, Arbiter!Spec
=============================================================================
