--------------------------- MODULE MCInventorySync ---------------------------
(* Instances of InventorySync for TLC. *)
EXTENDS InventorySync, TLC

CONSTANTS d1, d2, d3, d4, n1, n2, n3, n4, long

OfEachKind == (d1 :> "telrad") @@ (d2 :> "baicells") @@ (d3 :> "snmp") @@ (d4 :> "snmp")

OneEach == (d1 :> n1) @@ (d2 :> n2) @@ (d3 :> n3) @@ (d4 :> n4)

\* The words of n1 and of n2 are in another customer's name, which comes after n1 and
\* before n2.
Customers == <<n1, long, n2>>
ContainsWords == {<<n, n>> : n \in Names} \cup {<<long, n1>>, <<long, n2>>}

Rec(d, a) == [mac |-> d, imei |-> d, imsi |-> d, model |-> OfEachKind[d],
              acct |-> a, was |-> a]

\* Sonar knows no device, or one, which is at another customer's.
EmptyOrOne == {<<>>, <<Rec(d1, 3)>>}

\* The last two get each other's address while they are read, and the IMSI the last
\* one tells of itself does not parse.
Between == {n3, n4}
Unparsable == {<<d4, "imsi">>}
=============================================================================
