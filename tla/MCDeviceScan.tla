---------------------------- MODULE MCDeviceScan ----------------------------
(* Instance of DeviceScan: one device of each kind.  The inventory knows three of *)
(* them whole; or the sessions of three and, as other items, what else is known   *)
(* of them; or one such pair, the record with an IMSI that does not parse; or one *)
(* session and one device of the kind that is told by its imei.                   *)
EXTENDS DeviceScan

CONSTANTS t, m, b, c, a1, a2, a3, a4

KindOf == [d \in Devices |-> CASE d = t -> "12300" [] d = m -> "12000"
                               [] d = b -> "baicells" [] d = c -> "bec"]
AddressOf == t :> a1 @@ m :> a2 @@ b :> a3 @@ c :> a4
HolderOf == [a \in Addresses |-> CHOOSE d \in Devices : AddressOf[d] = a]

Whole(d) == [mac |-> d, imei |-> d, imsi |-> d, signal |-> d, model |-> KindOf[d],
             ip |-> AddressOf[d]]
Session(d) == [Bare EXCEPT !.imsi = d, !.imei = d, !.ip = AddressOf[d]]
Found(d) == [Bare EXCEPT !.mac = d, !.model = KindOf[d]]
Misread(d) == [Found(d) EXCEPT !.imsi = None]

WholeOrApart == {{Whole(d) : d \in {m, b, c}},
                 UNION {{Session(d), Found(d)} : d \in {t, m, b}},
                 {Session(m), Misread(m)},
                 {Session(t), Whole(c)}}
=============================================================================
