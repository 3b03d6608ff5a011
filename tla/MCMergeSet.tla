----------------------------- MODULE MCMergeSet ------------------------------
(* Instances of MergeSet for TLC. *)
EXTENDS MergeSet, TLC

CONSTANTS id, mac, imsi, id1, mac1, imsi1, id2, mac2, imsi2

MCDevices == {(id :> id1) @@ (mac :> mac1) @@ (imsi :> imsi1),
              (id :> id2) @@ (mac :> mac2) @@ (imsi :> imsi2)}

\* All that may be known of the first device, and of the second without its IMSI.
Parts == {i \in Item : Sound(i) /\ i[imsi] # imsi2}

\* One device seen with its IMSI gone, one with an IMSI that did not parse, and one with
\* the other's address.
Odd == {(id :> id1) @@ (mac :> Absent) @@ (imsi :> None),
        (id :> Absent) @@ (mac :> mac2) @@ (imsi :> Blank),
        (id :> id2) @@ (mac :> mac1) @@ (imsi :> Absent)}

PartsAndOdd == Parts \cup Odd
=============================================================================
