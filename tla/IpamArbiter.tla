----------------------------- MODULE IpamArbiter -----------------------------
(***************************************************************************)
(* What the IP address manager promises, without saying how: the EPC       *)
(* reports which item holds which address, and the table of assignments    *)
(* moves towards the report by single writes, none of which takes away a   *)
(* row the report asks for.  PullAllocator is shown to implement it.       *)
(***************************************************************************)
EXTENDS FiniteSets

CONSTANTS Items, Addrs, Ids

VARIABLES table, report

vars == <<table, report>>

Row == [item : Items, ipv4 : Addrs]

\* No item and no address is reported twice.
OneEach(R) == \A r, q \in R : r.item = q.item \/ r.ipv4 = q.ipv4 => r = q

Rows(t) == {t[id] : id \in DOMAIN t}

Init ==
    /\ \E S \in SUBSET Ids : table \in [S -> Row]
    /\ report = {}

\* The EPC reports anew.
Report ==
    /\ report' \in SUBSET Row
    /\ OneEach(report')
    /\ UNCHANGED table

\* A reported pair that no row records gets a new row.
Create(id, row) ==
    /\ id \in Ids \ DOMAIN table
    /\ row \in report \ Rows(table)
    /\ table' = [i \in DOMAIN table \cup {id} |-> IF i = id THEN row ELSE table[i]]
    /\ UNCHANGED report

\* A row that records nothing reported is given to a reported pair.
Rewrite(id, row) ==
    /\ id \in DOMAIN table
    /\ table[id] \notin report
    /\ row \in report
    /\ table' = [table EXCEPT ![id] = row]
    /\ UNCHANGED report

\* A row goes when all that is recorded and reported stays recorded.
Release(id) ==
    /\ id \in DOMAIN table
    /\ table' = [i \in DOMAIN table \ {id} |-> table[i]]
    /\ report \cap Rows(table) \subseteq Rows(table')
    /\ UNCHANGED report

Next ==
    \/ Report
    \/ \E id \in Ids, row \in Row : Create(id, row) \/ Rewrite(id, row)
    \/ \E id \in Ids : Release(id)

Spec == Init /\ [][Next]_vars
=============================================================================
