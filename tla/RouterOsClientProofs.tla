------------------------ MODULE RouterOsClientProofs ------------------------
(***************************************************************************)
(* Proofs about RouterOsClient, for any number of connections, commands,   *)
(* rows and faults.                                                        *)
(*                                                                         *)
(* The invariants of its run are not inductive: that an answer is filed    *)
(* where it belongs rests on what router and response say of each other    *)
(* (Agree), on a row being either filed or lost, once (Counted), and on    *)
(* tags that have not been sent having no state (Fresh).  That nobody pays *)
(* for others rests on the connection that, as long as nothing fails, is   *)
(* made once and carries every command (NoFaultYet).                       *)
(***************************************************************************)
EXTENDS RouterOsClient, FiniteSetTheorems, SequenceTheorems, TLAPS

-----------------------------------------------------------------------------
(* The inductive invariant. *)

\* A tag that has not been given out has no state.
Fresh == \A p \in Promises : ~Sent(p) =>
    /\ router[p] = "idle"
    /\ response[p] = Empty
    /\ iterator[p] = "fresh"
    /\ said[p] = 0
    /\ result[p] = "none"

\* What is waited for has been sent.
ReaderSent == reading # None => Sent(Reader)

\* What the router has said of a command is in its response, unless it was lost.
Agrees(r, s, missed) ==
    /\ r.error => s \in {"trapped", "failed"} /\ ~missed
    /\ missed => s \in {"trapped", "failed"}
    /\ s = "trapped" => r.error \/ missed
    /\ r.done => s = IF r.error \/ missed THEN "failed" ELSE "done"
Agree == \A p \in Promises : Agrees(response[p], router[p], Trap(p) \in lost)

\* Only what was said is lost, and a response has no more rows than were said.
Counted ==
    /\ IsFiniteSet(lost)
    /\ \A p \in Promises : /\ \A k : <<p, k>> \in lost => k \in 0..said[p]
                           /\ Len(response[p].rows) <= said[p]

\* As long as nothing has failed there is one connection, and each command's answer
\* is complete or still to come on it.
NoFaultYet == faults = 0 =>
    /\ apis \subseteq {socket} \cap open \cap up
    /\ apis # {} => connected
    /\ \A p \in Promises : Sent(p) =>
          /\ Conn(p) \in apis
          /\ response[p].done \/ router[p] \in {"running", "trapped"}

IInv == /\ TypeOK /\ OneSocket /\ OwnAnswers /\ NoCollateral
        /\ Fresh /\ ReaderSent /\ Agree /\ Counted /\ NoFaultYet

-----------------------------------------------------------------------------
(* Lemmas. *)

LEMMA BoundsAreNumbers ==
    MaxConns \in Nat /\ MaxSends \in Nat /\ MaxRows \in Nat /\ MaxFaults \in Nat
BY BoundsAssumption

\* While fewer commands than the bound are sent, every connection has a tag left.
LEMMA TagLeft ==
    ASSUME TypeOK, NEW c \in Conns, Cardinality({p \in Promises : Sent(p)}) < MaxSends
    PROVE  tag[c] + 1 \in Tags
<1> DEFINE S == {p \in Promises : Sent(p)}
           T == 1..tag[c]
           f == [t \in T |-> <<c, t>>]
<1>1. tag[c] \in 0..MaxSends /\ MaxSends \in Nat /\ MaxConns \in Nat
  BY BoundsAssumption DEF TypeOK
<1>2. IsFiniteSet(S)
  <2>1. IsFiniteSet(Conns) /\ IsFiniteSet(Tags)
    BY <1>1, FS_Interval DEF Conns, Tags
  <2>2. IsFiniteSet(Promises)
    BY <2>1, FS_Product DEF Promises
  <2> QED
    BY <2>2, FS_Subset
<1>3. f \in Injection(T, S)
  <2>1. ASSUME NEW t \in T PROVE <<c, t>> \in S
    BY <1>1 DEF Promises, Tags, Sent, Conn
  <2> QED
    BY <2>1 DEF Injection, IsInjective
<1>4. Cardinality(S) < MaxSends /\ Cardinality(T) = tag[c]
  BY <1>1, FS_Interval
<1> HIDE DEF S, T
<1>5. Cardinality(T) <= Cardinality(S)
  BY <1>2, <1>3, FS_Injection
<1>6. Cardinality(S) \in Nat
  BY <1>2, FS_CardinalityType
<1> QED
  BY <1>1, <1>4, <1>5, <1>6 DEF Tags

\* The promise of the next command on c, and no other, is new.
LEMMA NextTag ==
    ASSUME TypeOK, NEW c \in Conns, tag[c] + 1 \in Tags,
           tag' = [tag EXCEPT ![c] = @ + 1]
    PROVE  /\ tag' \in [Conns -> 0..MaxSends]
           /\ <<c, tag'[c]>> \in Promises
           /\ ~Sent(<<c, tag'[c]>>)
           /\ \A p \in Promises : Sent(p)' <=> Sent(p) \/ p = <<c, tag'[c]>>
BY BoundsAssumption DEF TypeOK, Promises, Tags, Sent, Conn

\* The reader is a promise.
LEMMA ReaderIsPromise ==
    ASSUME TypeOK, reading # None
    PROVE  Reader \in Promises /\ How \in {"get", "next"} /\ Conn(Reader) \in Conns
BY DEF TypeOK, Reader, How, Promises, Conn

\* A promise is as good as any pair with None.
LEMMA PromisesAreReaders ==
    ASSUME NEW p \in Promises, NEW h \in {"get", "next"}
    PROVE  <<p, h>> # None
BY NoneAssumption

\* One more row.
LEMMA OneMoreRow ==
    ASSUME NEW p, NEW n \in Nat, NEW L, NEW T, NEW s \in Seq(T), <<p, n + 1>> \in T,
           {s[i] : i \in DOMAIN s} = {<<p, k>> : k \in 1..n} \ L,
           InOrder(s), <<p, n + 1>> \notin L
    PROVE  LET t == Append(s, <<p, n + 1>>)
           IN /\ {t[i] : i \in DOMAIN t} = {<<p, k>> : k \in 1..(n + 1)} \ L
              /\ InOrder(t)
<1> DEFINE t == Append(s, <<p, n + 1>>)
<1>1. /\ Len(s) \in Nat /\ DOMAIN s = 1..Len(s) /\ DOMAIN t = 1..(Len(s) + 1)
      /\ \A i \in 1..Len(s) : t[i] = s[i]
      /\ t[Len(s) + 1] = <<p, n + 1>>
  OBVIOUS
<1> HIDE DEF t
<1>2. {t[i] : i \in DOMAIN t} = {s[i] : i \in DOMAIN s} \cup {<<p, n + 1>>}
  <2>1. ASSUME NEW i \in DOMAIN t
        PROVE  t[i] \in {s[j] : j \in DOMAIN s} \cup {<<p, n + 1>>}
    BY <1>1, <2>1
  <2>2. ASSUME NEW i \in DOMAIN s
        PROVE  i \in DOMAIN t /\ t[i] = s[i]
    BY <1>1, <2>2
  <2>3. Len(s) + 1 \in DOMAIN t
    BY <1>1
  <2> QED
    BY <1>1, <2>1, <2>2, <2>3
<1>3. {<<p, k>> : k \in 1..(n + 1)} \ L = ({<<p, k>> : k \in 1..n} \ L) \cup {<<p, n + 1>>}
  <2>1. \A k : k \in 1..(n + 1) <=> k \in 1..n \/ k = n + 1
    OBVIOUS
  <2> QED
    BY <2>1
<1>4. ASSUME NEW i \in 1..Len(s) PROVE s[i][2] \in 1..n
  <2>1. s[i] \in {<<p, k>> : k \in 1..n}
    BY <1>1
  <2> QED
    BY <2>1
<1>5. InOrder(t)
  <2> SUFFICES ASSUME NEW i \in DOMAIN t, NEW j \in DOMAIN t, i < j
               PROVE  t[i][2] < t[j][2]
    BY DEF InOrder
  <2>1. CASE j \in 1..Len(s)
    <3>1. i \in 1..Len(s) /\ t[i] = s[i] /\ t[j] = s[j]
      BY <1>1, <2>1
    <3> QED
      BY <1>1, <2>1, <3>1 DEF InOrder
  <2>2. CASE j = Len(s) + 1
    <3>1. i \in 1..Len(s) /\ t[i] = s[i] /\ t[j] = <<p, n + 1>>
      BY <1>1, <2>2
    <3>2. t[i][2] \in 1..n /\ t[j][2] = n + 1
      BY <1>4, <3>1
    <3> QED
      BY <3>2
  <2> QED
    BY <1>1, <2>1, <2>2
<1> QED
  BY <1>2, <1>3, <1>5 DEF t

\* One more that is lost.
LEMMA OneMoreLost ==
    ASSUME NEW p, NEW n \in Nat, NEW L
    PROVE  /\ {<<p, k>> : k \in 1..(n + 1)} \ (L \cup {<<p, n + 1>>})
                 = {<<p, k>> : k \in 1..n} \ L
           /\ {<<p, k>> : k \in 1..n} \ (L \cup {<<p, 0>>}) = {<<p, k>> : k \in 1..n} \ L
           /\ \A q, m : q # p => {<<p, k>> : k \in 1..n} \ (L \cup {<<q, m>>})
                                   = {<<p, k>> : k \in 1..n} \ L
<1>1. {<<p, k>> : k \in 1..(n + 1)} \ (L \cup {<<p, n + 1>>}) = {<<p, k>> : k \in 1..n} \ L
  <2>1. \A k : k \in 1..(n + 1) <=> k \in 1..n \/ k = n + 1
    OBVIOUS
  <2>2. \A k \in 1..n : k # n + 1
    OBVIOUS
  <2>3. \A k \in 1..n : <<p, k>> # <<p, n + 1>>
    BY <2>2
  <2> QED
    BY <2>1, <2>3
<1>2. {<<p, k>> : k \in 1..n} \ (L \cup {<<p, 0>>}) = {<<p, k>> : k \in 1..n} \ L
  <2>1. \A k \in 1..n : <<p, k>> # <<p, 0>>
    OBVIOUS
  <2> QED
    BY <2>1
<1> QED
  BY <1>1, <1>2

-----------------------------------------------------------------------------
(* The sockets. *)

LEMMA SocketsKept ==
    ASSUME TypeOK, OneSocket, [Next]_vars
    PROVE  OneSocket'
<1> USE DEF TypeOK, OneSocket
<1>1. ASSUME Connect PROVE OneSocket'
  BY <1>1, BoundsAssumption DEF Connect
<1>2. ASSUME Disconnect, UNCHANGED apis PROVE OneSocket'
  BY <1>2 DEF Disconnect
<1>3. ASSUME UNCHANGED <<connected, socket, apis, open>> PROVE OneSocket'
  BY <1>3
<1> QED
  BY <1>1, <1>2, <1>3 DEF Next, Read, Program, Rest, Close, Send, SendFails, Get, NextRow,
     ReadRow, ReadTrap, ReadDone, ReadUnknown, ReadFatal, ReadGarbled, ReadNothing,
     Answer, Yield, StopIteration, pool, vars

-----------------------------------------------------------------------------
(* The types. *)

PoolType ==
    /\ connected \in BOOLEAN
    /\ socket \in 0..MaxConns
    /\ made \in 0..MaxConns
    /\ apis \cup open \cup up \subseteq 1..made

TagType ==
    /\ tag \in [Conns -> 0..MaxSends]
    /\ response_buffor \subseteq {p \in Promises : Sent(p)}

Responses == [rows : Seq(Promises \X (1..MaxRows)), done : BOOLEAN, error : BOOLEAN]

RowsType ==
    /\ response \in [Promises -> Responses]
    /\ index \in [Promises -> 0..MaxRows]
    /\ \A p \in Promises : index[p] <= Len(response[p].rows)

ReaderType ==
    /\ iterator \in [Promises -> {"fresh", "used", "over"}]
    /\ reading \in Promises \X {"get", "next"} \cup {None}
    /\ result \in [Promises -> {"none", "returned", "trap", "failed"}]

RouterType ==
    /\ router \in [Promises -> {"idle", "running", "trapped", "done", "failed"}]
    /\ said \in [Promises -> 0..MaxRows]
    /\ lost \subseteq Promises \X (0..MaxRows)
    /\ faults \in 0..MaxFaults

LEMMA TypeParts == TypeOK <=> PoolType /\ TagType /\ RowsType /\ ReaderType /\ RouterType
BY DEF TypeOK, PoolType, TagType, RowsType, ReaderType, RouterType, Responses

LEMMA PoolTypeKept ==
    ASSUME PoolType, [Next]_vars
    PROVE  PoolType'
<1> USE DEF PoolType
<1>1. ASSUME Connect PROVE PoolType'
  <2>1. made' = made + 1 /\ made' \in 1..MaxConns /\ socket' \in {0, made'}
    BY <1>1, BoundsAreNumbers DEF Connect
  <2>2. apis' \cup open' \cup up' \subseteq apis \cup open \cup up \cup {made'}
    BY <1>1 DEF Connect
  <2>3. apis' \cup open' \cup up' \subseteq 1..made'
    BY <2>1, <2>2, BoundsAreNumbers
  <2>4. connected' \in BOOLEAN
    BY <1>1 DEF Connect
  <2> QED
    BY <2>1, <2>3, <2>4, BoundsAreNumbers
<1>2. ASSUME Disconnect, UNCHANGED <<made, apis, up>> PROVE PoolType'
  <2>1. connected' \in BOOLEAN
    BY <1>2 DEF Disconnect
  <2>2. socket' \in 0..MaxConns
    BY <1>2, BoundsAreNumbers DEF Disconnect
  <2>3. made' \in 0..MaxConns /\ apis' \cup open' \cup up' \subseteq 1..made'
    BY <1>2 DEF Disconnect
  <2> QED
    BY <2>1, <2>2, <2>3
<1>3. ASSUME UNCHANGED <<connected, socket, made, apis, open>>, up' \subseteq up
      PROVE  PoolType'
  BY <1>3
<1> QED
  BY <1>1, <1>2, <1>3 DEF Next, Read, Program, Rest, Close, Send, SendFails, Get, NextRow,
     ReadRow, ReadTrap, ReadDone, ReadUnknown, ReadFatal, ReadGarbled, ReadNothing,
     Answer, Yield, StopIteration, pool, vars

LEMMA TagTypeKept ==
    ASSUME TypeOK, [Next]_vars
    PROVE  TagType'
<1> TagType
  BY TypeParts
<1>1. ASSUME NEW c \in Conns, Send(c) \/ SendFails(c) PROVE TagType'
  <2>1. /\ c \in Conns /\ tag[c] + 1 \in Tags /\ tag' = [tag EXCEPT ![c] = @ + 1]
        /\ response_buffor' \subseteq response_buffor \cup {<<c, tag'[c]>>}
    BY <1>1, TagLeft DEF Send, SendFails
  <2> QED
    BY <2>1, NextTag DEF TagType
<1>2. ASSUME UNCHANGED tag, response_buffor' \subseteq response_buffor PROVE TagType'
  BY <1>2 DEF TagType, Sent
<1> QED
  BY <1>1, <1>2 DEF Next, Read, Program, Rest, Connect, Close, Get, NextRow, ReadRow,
     ReadTrap, ReadDone, ReadUnknown, ReadFatal, ReadGarbled, ReadNothing, Answer, Yield,
     StopIteration, commands, vars

\* A response only grows.
LEMMA RowAdded ==
    ASSUME NEW r \in Responses, NEW row \in Promises \X (1..MaxRows)
    PROVE  LET s == [r EXCEPT !.rows = Append(@, row)]
           IN s \in Responses /\ Len(s.rows) >= Len(r.rows)
<1>1. r.rows \in Seq(Promises \X (1..MaxRows))
  BY DEF Responses
<1>2. /\ Append(r.rows, row) \in Seq(Promises \X (1..MaxRows))
      /\ Len(Append(r.rows, row)) >= Len(r.rows)
  BY <1>1
<1> QED
  BY <1>2 DEF Responses

LEMMA FlagSet ==
    ASSUME NEW r \in Responses
    PROVE  /\ [r EXCEPT !.error = TRUE] \in Responses
           /\ [r EXCEPT !.error = TRUE].rows = r.rows
           /\ [r EXCEPT !.done = TRUE] \in Responses
           /\ [r EXCEPT !.done = TRUE].rows = r.rows
           /\ Len(r.rows) >= Len(r.rows)
<1>1. Len(r.rows) >= Len(r.rows)
  <2> Len(r.rows) \in Nat
    BY DEF Responses
  <2> QED
    OBVIOUS
<1>2. [r EXCEPT !.error = TRUE] \in Responses
  BY DEF Responses
<1>3. [r EXCEPT !.done = TRUE] \in Responses
  BY DEF Responses
<1>4. [r EXCEPT !.error = TRUE].rows = r.rows /\ [r EXCEPT !.done = TRUE].rows = r.rows
  BY DEF Responses
<1> QED
  BY <1>1, <1>2, <1>3, <1>4

LEMMA OneResponse ==
    ASSUME RowsType, NEW p \in Promises, NEW r \in Responses,
           Len(r.rows) >= Len(response[p].rows),
           response' = [response EXCEPT ![p] = r], UNCHANGED index
    PROVE  RowsType'
BY DEF RowsType, Responses

LEMMA RowsTypeKept ==
    ASSUME TypeOK, Counted, [Next]_vars
    PROVE  RowsType'
<1> RowsType /\ RouterType
  BY TypeParts
<1>1. ASSUME NEW p \in Promises, ReadRow(p) PROVE RowsType'
  <2> DEFINE r == [response[p] EXCEPT !.rows = Append(@, Row(p))]
  <2>1. Row(p) \in Promises \X (1..MaxRows)
    BY <1>1, BoundsAssumption DEF ReadRow, RouterType, Row
  <2>2. r \in Responses /\ Len(r.rows) >= Len(response[p].rows)
    BY <2>1, RowAdded DEF RowsType
  <2>3. response' = [response EXCEPT ![p] = r] /\ UNCHANGED index
    BY <1>1 DEF ReadRow
  <2> QED
    BY <2>2, <2>3, OneResponse
<1>2. ASSUME NEW p \in Promises, ReadTrap(p) PROVE RowsType'
  <2> DEFINE r == [response[p] EXCEPT !.error = TRUE]
  <2>1. r \in Responses /\ Len(r.rows) >= Len(response[p].rows)
    BY FlagSet DEF RowsType
  <2>2. response' = [response EXCEPT ![p] = r] /\ UNCHANGED index
    BY <1>2 DEF ReadTrap
  <2> QED
    BY <2>1, <2>2, OneResponse
<1>3. ASSUME NEW p \in Promises, ReadDone(p) PROVE RowsType'
  <2> DEFINE r == [response[p] EXCEPT !.done = TRUE]
  <2>1. r \in Responses /\ Len(r.rows) >= Len(response[p].rows)
    BY FlagSet DEF RowsType
  <2>2. response' = [response EXCEPT ![p] = r] /\ UNCHANGED index
    BY <1>3 DEF ReadDone
  <2> QED
    BY <2>1, <2>2, OneResponse
<1>4. ASSUME Yield PROVE RowsType'
  <2>1. Reader \in Promises
    BY <1>4, ReaderIsPromise DEF Yield, Idle
  <2>2. Len(response[Reader].rows) <= said[Reader] /\ said[Reader] \in 0..MaxRows
    BY <2>1 DEF Counted, RouterType
  <2>3. index[Reader] + 1 \in 0..MaxRows /\ index[Reader] + 1 <= Len(response[Reader].rows)
    BY <1>4, <2>1, <2>2, BoundsAreNumbers DEF Yield, RowsType
  <2> QED
    BY <1>4, <2>1, <2>3 DEF Yield, RowsType
<1>5. ASSUME UNCHANGED <<response, index>> PROVE RowsType'
  BY <1>5 DEF RowsType
<1> QED
  BY <1>1, <1>2, <1>3, <1>4, <1>5 DEF Next, Read, Program, Rest, Connect, Close, Send,
     SendFails, Get, NextRow, ReadUnknown, ReadFatal, ReadGarbled, ReadNothing, Answer,
     StopIteration, commands, vars

\* How the reader stops when an exception is raised.
LEMMA RaiseTypes ==
    ASSUME TypeOK, Waiting, Raise
    PROVE  ReaderType'
BY ReaderIsPromise DEF Waiting, Raise, TypeOK, ReaderType

LEMMA ReaderTypeKept ==
    ASSUME TypeOK, [Next]_vars
    PROVE  ReaderType'
<1> ReaderType
  BY TypeParts
<1>1. ASSUME NEW c \in Conns, SendFails(c) PROVE ReaderType'
  BY <1>1 DEF SendFails, ReaderType
<1>2. ASSUME NEW p \in Promises, Get(p) PROVE ReaderType'
  BY <1>2 DEF Get, ReaderType, commands
<1>3. ASSUME NEW p \in Promises, NextRow(p) PROVE ReaderType'
  BY <1>3 DEF NextRow, ReaderType
<1>4. ASSUME NEW p \in Promises, ReadFatal(p) \/ ReadGarbled(p) PROVE ReaderType'
  BY <1>4, RaiseTypes DEF ReadFatal, ReadGarbled, Receives
<1>5. ASSUME ReadUnknown \/ ReadNothing PROVE ReaderType'
  BY <1>5, RaiseTypes DEF ReadUnknown, ReadNothing, NothingComes
<1>6. ASSUME Answer \/ Yield \/ StopIteration PROVE ReaderType'
  <2>1. Reader \in Promises
    BY <1>6, ReaderIsPromise DEF Answer, Yield, StopIteration, Idle
  <2>2. Outcome(Reader) \in {"trap", "returned"}
    BY DEF Outcome
  <2> QED
    BY <1>6, <2>1, <2>2 DEF Answer, Yield, StopIteration, ReaderType
<1>7. ASSUME UNCHANGED <<iterator, reading, result>> PROVE ReaderType'
  BY <1>7 DEF ReaderType
<1> QED
  BY <1>1, <1>2, <1>3, <1>4, <1>5, <1>6, <1>7 DEF Next, Read, Program, Rest, Connect,
     Close, Send, ReadRow, ReadTrap, ReadDone, commands, vars

LEMMA RouterTypeKept ==
    ASSUME TypeOK, [Next]_vars
    PROVE  RouterType'
<1> RouterType
  BY TypeParts
<1>1. ASSUME NEW c \in Conns, Send(c) PROVE RouterType'
  BY <1>1 DEF Send, RouterType
<1>2. ASSUME NEW p \in Promises, ReadRow(p) PROVE RouterType'
  BY <1>2, BoundsAreNumbers DEF ReadRow, RouterType
<1>3. ASSUME Fault, UNCHANGED <<router, said, lost>> PROVE RouterType'
  BY <1>3, BoundsAreNumbers DEF Fault, RouterType
<1>4. ASSUME NEW p \in Promises, ReadTrap(p) \/ ReadDone(p) PROVE RouterType'
  BY <1>4 DEF ReadTrap, ReadDone, After, RouterType
<1>5. ASSUME NEW p \in Promises, ReadFatal(p) PROVE RouterType'
  BY <1>5, BoundsAreNumbers DEF ReadFatal, Fault, RouterType
<1>7. ASSUME NEW p \in Promises, ReadGarbled(p) PROVE RouterType'
  <2>1. faults' \in 0..MaxFaults
    BY <1>7, BoundsAreNumbers DEF ReadGarbled, Fault, RouterType
  <2>2. router' \in [Promises -> {"idle", "running", "trapped", "done", "failed"}]
    BY <1>7 DEF ReadGarbled, After, RouterType
  <2>3. said' \in [Promises -> 0..MaxRows]
    BY <1>7, BoundsAreNumbers DEF ReadGarbled, RouterType
  <2>4. Row(p) \in Promises \X (0..MaxRows) \/ said[p] >= MaxRows
    BY BoundsAreNumbers DEF RouterType, Row
  <2>5. Trap(p) \in Promises \X (0..MaxRows)
    BY BoundsAreNumbers DEF Trap
  <2>6. lost' \subseteq Promises \X (0..MaxRows)
    <3>1. CASE said[p] < MaxRows /\ lost' = lost \cup {Row(p)}
      BY <2>4, <3>1, BoundsAreNumbers DEF RouterType
    <3>2. CASE lost' = lost \cup {Trap(p)} \/ lost' = lost
      BY <2>5, <3>2 DEF RouterType
    <3> QED
      BY <1>7, <3>1, <3>2 DEF ReadGarbled
  <2> QED
    BY <2>1, <2>2, <2>3, <2>6 DEF RouterType
<1>6. ASSUME UNCHANGED <<router, said, lost, faults>> PROVE RouterType'
  BY <1>6 DEF RouterType
<1> QED
  BY <1>1, <1>2, <1>3, <1>4, <1>5, <1>6, <1>7 DEF Next, Read, Program, Rest, Connect, Close,
     SendFails, Get, NextRow, ReadUnknown, ReadNothing, NothingComes, Answer, Yield,
     StopIteration, vars

LEMMA TypeKept ==
    ASSUME TypeOK, Counted, [Next]_vars
    PROVE  TypeOK'
<1>1. PoolType' /\ TagType' /\ RowsType' /\ ReaderType' /\ RouterType'
  BY TypeParts, PoolTypeKept, TagTypeKept, RowsTypeKept, ReaderTypeKept, RouterTypeKept
<1> QED
  BY <1>1 DEF TypeOK, PoolType, TagType, RowsType, ReaderType, RouterType, Responses

-----------------------------------------------------------------------------
(* Commands and their answers. *)

\* A step gives out at most one tag, the next of a connection.
LEMMA SentGrows ==
    ASSUME TypeOK, [Next]_vars, NEW p \in Promises
    PROVE  Sent(p) => Sent(p)'
<1>1. ASSUME NEW c \in Conns, Send(c) \/ SendFails(c) PROVE Sent(p) => Sent(p)'
  <2>1. tag[c] + 1 \in Tags /\ tag' = [tag EXCEPT ![c] = @ + 1]
    BY <1>1, TagLeft DEF Send, SendFails
  <2> QED
    BY <2>1, NextTag
<1>2. ASSUME UNCHANGED tag PROVE Sent(p) => Sent(p)'
  BY <1>2 DEF Sent
<1> QED
  BY <1>1, <1>2 DEF Next, Read, Program, Rest, Connect, Close, Get, NextRow, ReadRow,
     ReadTrap, ReadDone, ReadUnknown, ReadFatal, ReadGarbled, ReadNothing, Answer, Yield,
     StopIteration, commands, vars

\* Only what has been sent is answered or waited for.
LEMMA FreshKept ==
    ASSUME TypeOK, Fresh, ReaderSent, [Next]_vars
    PROVE  Fresh'
<1> DEFINE state(p) == <<router[p], response[p], iterator[p], said[p], result[p]>>
<1> SUFFICES ASSUME NEW p \in Promises, ~Sent(p)' PROVE state(p)' = state(p)
  BY SentGrows DEF Fresh, Empty
<1>1. /\ ~Sent(p) /\ router[p] = "idle" /\ iterator[p] = "fresh"
      /\ p \notin response_buffor /\ (reading # None => Reader # p)
  BY SentGrows DEF Fresh, ReaderSent, TypeOK
<1>2. ASSUME NEW c \in Conns, Send(c) \/ SendFails(c) PROVE state(p)' = state(p)
  <2>1. tag[c] + 1 \in Tags /\ tag' = [tag EXCEPT ![c] = @ + 1]
    BY <1>2, TagLeft DEF Send, SendFails
  <2>2. <<c, tag'[c]>> \in Promises /\ p # <<c, tag'[c]>>
    BY <2>1, NextTag
  <2> QED
    BY <1>2, <2>2 DEF Send, SendFails, TypeOK
<1>3. ASSUME NEW q \in Promises, ReadRow(q) \/ ReadTrap(q) \/ ReadDone(q)
      PROVE  state(p)' = state(p)
  <2>1. p # q
    BY <1>1, <1>3 DEF ReadRow, ReadTrap, ReadDone
  <2> QED
    BY <1>3, <2>1 DEF ReadRow, ReadTrap, ReadDone, TypeOK
<1>4. ASSUME Waiting, Raise
      PROVE  result'[p] = result[p] /\ iterator'[p] = iterator[p]
  BY <1>1, <1>4, ReaderIsPromise DEF Waiting, Raise, TypeOK
<1>5. ASSUME NEW q \in Promises, ReadFatal(q) \/ ReadGarbled(q)
      PROVE  state(p)' = state(p)
  <2>1. p # q /\ Waiting /\ Raise
    BY <1>1, <1>5 DEF ReadFatal, ReadGarbled, Receives
  <2>2. router'[p] = router[p] /\ response'[p] = response[p] /\ said'[p] = said[p]
    BY <1>5, <2>1 DEF ReadFatal, ReadGarbled, TypeOK
  <2> QED
    BY <1>4, <2>1, <2>2
<1>6. ASSUME ReadUnknown \/ ReadNothing PROVE state(p)' = state(p)
  BY <1>4, <1>6 DEF ReadUnknown, ReadNothing, NothingComes
<1>7. ASSUME Answer \/ Yield \/ StopIteration PROVE state(p)' = state(p)
  <2>1. Reader \in Promises /\ Reader # p
    BY <1>1, <1>7, ReaderIsPromise DEF Answer, Yield, StopIteration, Idle
  <2> QED
    BY <1>7, <2>1 DEF Answer, Yield, StopIteration, TypeOK
<1>8. ASSUME NEW q \in Promises, NextRow(q) PROVE state(p)' = state(p)
  <2>1. p # q
    BY <1>1, <1>8 DEF NextRow
  <2> QED
    BY <1>8, <2>1 DEF NextRow, TypeOK
<1>9. ASSUME UNCHANGED <<router, response, iterator, said, result>>
      PROVE  state(p)' = state(p)
  BY <1>9
<1> QED
  BY <1>2, <1>3, <1>5, <1>6, <1>7, <1>8, <1>9 DEF Next, Read, Program, Rest, Connect,
     Close, Get, commands, vars

LEMMA ReaderSentKept ==
    ASSUME TypeOK, Fresh, ReaderSent, [Next]_vars
    PROVE  ReaderSent'
<1>1. ASSUME NEW p \in Promises, Get(p) \/ NextRow(p) PROVE ReaderSent'
  <2>1. Sent(p)
    BY <1>1 DEF Get, NextRow, Fresh, TypeOK
  <2>2. reading' = <<p, "get">> \/ reading' = <<p, "next">>
    BY <1>1 DEF Get, NextRow
  <2>3. Sent(p)'
    BY <2>1, SentGrows
  <2> QED
    BY <2>2, <2>3 DEF ReaderSent, Reader, Sent
<1>2. ASSUME reading' = None PROVE ReaderSent'
  BY <1>2 DEF ReaderSent
<1>3. ASSUME UNCHANGED reading PROVE ReaderSent'
  BY <1>3, ReaderIsPromise, SentGrows DEF ReaderSent, Reader, Sent
<1> QED
  BY <1>1, <1>2, <1>3 DEF Next, Read, Program, Rest, Connect, Close, Send, SendFails,
     ReadRow, ReadTrap, ReadDone, ReadUnknown, ReadFatal, ReadGarbled, ReadNothing, Raise,
     Answer, Yield, StopIteration, vars

\* What a sentence that is not understood takes away.
LEMMA Garbled ==
    ASSUME TypeOK, NEW q \in Promises, ReadGarbled(q)
    PROVE  /\ UNCHANGED response
           /\ router[q] \in {"running", "trapped"}
           /\ \/ /\ said' = [said EXCEPT ![q] = @ + 1] /\ lost' = lost \cup {<<q, said[q] + 1>>}
                 /\ UNCHANGED router
              \/ /\ UNCHANGED said /\ lost' = lost \cup {<<q, 0>>}
                 /\ router[q] = "running" /\ router' = [router EXCEPT ![q] = "trapped"]
              \/ /\ UNCHANGED <<said, lost>>
                 /\ router' = [router EXCEPT ![q] = After(q)]
BY DEF ReadGarbled, Receives, Row, Trap

\* Router and response change together, but for what is lost.
LEMMA AgreeKept ==
    ASSUME TypeOK, Fresh, Agree, [Next]_vars
    PROVE  Agree'
<1> DEFINE agrees(p) == Agrees(response[p], router[p], Trap(p) \in lost)
<1> SUFFICES ASSUME NEW p \in Promises PROVE agrees(p)'
  BY DEF Agree
<1>1. agrees(p)
  BY DEF Agree
<1>2. ASSUME NEW c \in Conns, Send(c) PROVE agrees(p)'
  <2>1. tag[c] + 1 \in Tags /\ tag' = [tag EXCEPT ![c] = @ + 1]
    BY <1>2, TagLeft DEF Send
  <2>2. <<c, tag'[c]>> \in Promises /\ ~Sent(<<c, tag'[c]>>)
    BY <2>1, NextTag
  <2>3. response[<<c, tag'[c]>>] = Empty
    BY <2>2 DEF Fresh
  <2>4. CASE p = <<c, tag'[c]>>
    <3>1. router'[p] \in {"running", "idle"} /\ router[p] = "idle"
      BY <1>2, <2>2, <2>4 DEF Send, TypeOK, Fresh
    <3>2. UNCHANGED <<response, lost>> /\ Trap(p)' = Trap(p)
      BY <1>2 DEF Send, Trap
    <3>3. Trap(p) \notin lost
      BY <1>1, <3>1 DEF Agrees
    <3> QED
      BY <2>3, <2>4, <3>1, <3>2, <3>3 DEF Agrees, Empty
  <2>5. CASE p # <<c, tag'[c]>>
    BY <1>1, <1>2, <2>5 DEF Send, TypeOK, Trap
  <2> QED
    BY <2>4, <2>5
<1>3. ASSUME NEW q \in Promises, ReadRow(q) PROVE agrees(p)'
  <2>1. response'[p].error = response[p].error /\ response'[p].done = response[p].done
    BY <1>3 DEF ReadRow, TypeOK
  <2> QED
    BY <1>1, <1>3, <2>1 DEF ReadRow, Agrees, Trap
<1>4. ASSUME NEW q \in Promises, ReadTrap(q) PROVE agrees(p)'
  <2>1. CASE p = q
    <3>1. /\ router[p] = "running" /\ router'[p] = "trapped"
          /\ response'[p].error = TRUE /\ response'[p].done = response[p].done
          /\ UNCHANGED lost /\ Trap(p)' = Trap(p)
      BY <1>4, <2>1 DEF ReadTrap, TypeOK, Trap
    <3> QED
      BY <1>1, <3>1 DEF Agrees
  <2>2. CASE p # q
    BY <1>1, <1>4, <2>2 DEF ReadTrap, TypeOK, Trap
  <2> QED
    BY <2>1, <2>2
<1>5. ASSUME NEW q \in Promises, ReadDone(q) PROVE agrees(p)'
  <2>1. CASE p = q
    <3>1. /\ router[p] \in {"running", "trapped"} /\ router'[p] = After(p)
          /\ response'[p].error = response[p].error /\ response'[p].done = TRUE
          /\ UNCHANGED lost /\ Trap(p)' = Trap(p)
      BY <1>5, <2>1 DEF ReadDone, Receives, TypeOK, Trap
    <3> QED
      BY <1>1, <3>1 DEF After, Agrees
  <2>2. CASE p # q
    BY <1>1, <1>5, <2>2 DEF ReadDone, TypeOK, Trap
  <2> QED
    BY <2>1, <2>2
<1>6. ASSUME NEW q \in Promises, ReadFatal(q) PROVE agrees(p)'
  <2>1. /\ UNCHANGED <<response, lost>> /\ router[q] \in {"running", "trapped"}
        /\ router'[p] = router[p] \/ (p = q /\ router'[p] = "failed")
        /\ Trap(p)' = Trap(p)
    BY <1>6 DEF ReadFatal, Receives, TypeOK, Trap
  <2> QED
    BY <1>1, <2>1 DEF Agrees
<1>8. ASSUME NEW q \in Promises, ReadGarbled(q) PROVE agrees(p)'
  <2>1. UNCHANGED response /\ router[q] \in {"running", "trapped"} /\ Trap(p)' = Trap(p)
    BY <1>8, Garbled DEF Trap
  <2>2. CASE p # q
    <3>1. router'[p] = router[p]
      BY <1>8, <2>2, Garbled DEF TypeOK
    <3>2. Trap(p) \in lost' <=> Trap(p) \in lost
      BY <1>8, <2>2, Garbled DEF Trap
    <3> QED
      BY <1>1, <2>1, <3>1, <3>2 DEF Agrees
  <2>3. CASE p = q
    <3>1. CASE UNCHANGED router /\ lost' = lost \cup {<<q, said[q] + 1>>}
      <4>1. said[q] + 1 # 0
        BY BoundsAreNumbers DEF TypeOK
      <4>2. Trap(p) \in lost' <=> Trap(p) \in lost
        BY <3>1, <4>1 DEF Trap
      <4> QED
        BY <1>1, <2>1, <3>1, <4>2 DEF Agrees
    <3>2. CASE /\ lost' = lost \cup {<<q, 0>>}
               /\ router[q] = "running" /\ router' = [router EXCEPT ![q] = "trapped"]
      <4>1. Trap(p) \in lost' /\ router'[p] = "trapped"
        BY <2>3, <3>2 DEF Trap, TypeOK
      <4> QED
        BY <1>1, <2>1, <2>3, <3>2, <4>1 DEF Agrees
    <3>3. CASE UNCHANGED lost /\ router' = [router EXCEPT ![q] = After(q)]
      <4>1. router'[p] = After(p)
        BY <2>3, <3>3 DEF TypeOK
      <4> QED
        BY <1>1, <2>1, <2>3, <3>3, <4>1 DEF Agrees, After
    <3> QED
      BY <1>8, <3>1, <3>2, <3>3, Garbled
  <2> QED
    BY <2>2, <2>3
<1>7. ASSUME UNCHANGED <<response, router, lost>> PROVE agrees(p)'
  BY <1>1, <1>7 DEF Trap
<1> QED
  BY <1>2, <1>3, <1>4, <1>5, <1>6, <1>7, <1>8 DEF Next, Read, Program, Rest, Connect, Close,
     SendFails, Get, NextRow, ReadUnknown, ReadNothing, Answer, Yield, StopIteration,
     commands, vars

\* A row is filed or lost when it is said.
LEMMA CountedKept ==
    ASSUME TypeOK, Counted, [Next]_vars
    PROVE  Counted'
<1> DEFINE counted(p) == /\ \A k : <<p, k>> \in lost => k \in 0..said[p]
                         /\ Len(response[p].rows) <= said[p]
<1>0. IsFiniteSet(lost) /\ \A p \in Promises : counted(p) /\ said[p] \in Nat
  BY BoundsAreNumbers DEF Counted, TypeOK
<1>1. ASSUME UNCHANGED <<lost, said>>,
             \A p \in Promises : response'[p].rows = response[p].rows
      PROVE  Counted'
  BY <1>0, <1>1 DEF Counted
<1>2. ASSUME NEW q \in Promises, ReadRow(q) PROVE Counted'
  <2>1. ASSUME NEW p \in Promises PROVE counted(p)'
    <3>1. CASE p = q
      <4>1. /\ response'[p].rows = Append(response[p].rows, Row(p))
            /\ said'[p] = said[p] + 1 /\ UNCHANGED lost
        BY <1>2, <3>1 DEF ReadRow, TypeOK
      <4>2. response[p].rows \in Seq(Promises \X (1..MaxRows))
        BY DEF TypeOK
      <4>3. Len(response'[p].rows) = Len(response[p].rows) + 1 /\ Len(response[p].rows) \in Nat
        BY <4>1, <4>2
      <4> QED
        BY <1>0, <4>1, <4>3
    <3>2. CASE p # q
      BY <1>0, <1>2, <3>2 DEF ReadRow, TypeOK
    <3> QED
      BY <3>1, <3>2
  <2>2. IsFiniteSet(lost)'
    BY <1>0, <1>2 DEF ReadRow
  <2> QED
    BY <2>1, <2>2 DEF Counted
<1>3. ASSUME NEW q \in Promises, ReadTrap(q) \/ ReadDone(q) PROVE Counted'
  <2>1. ASSUME NEW p \in Promises PROVE response'[p].rows = response[p].rows
    <3>1. CASE p # q
      BY <1>3, <3>1 DEF ReadTrap, ReadDone, TypeOK
    <3>2. CASE p = q /\ ReadTrap(q)
      BY <3>2 DEF ReadTrap, TypeOK
    <3>3. CASE p = q /\ ReadDone(q)
      BY <3>3 DEF ReadDone, TypeOK
    <3> QED
      BY <1>3, <3>1, <3>2, <3>3
  <2> QED
    BY <1>1, <1>3, <2>1 DEF ReadTrap, ReadDone
<1>4. ASSUME NEW q \in Promises, ReadGarbled(q) PROVE Counted'
  <2>1. /\ UNCHANGED response
        /\ \/ said' = [said EXCEPT ![q] = @ + 1] /\ lost' = lost \cup {<<q, said[q] + 1>>}
           \/ UNCHANGED said /\ lost' = lost \cup {<<q, 0>>}
           \/ UNCHANGED <<said, lost>>
    BY <1>4, Garbled
  <2>2. IsFiniteSet(lost)'
    BY <1>0, <2>1, FS_AddElement
  <2>3. ASSUME NEW p \in Promises PROVE counted(p)'
    <3>1. said'[p] \in Nat /\ said'[p] >= said[p]
      BY <1>0, <2>1 DEF TypeOK
    <3>2. ASSUME NEW k, <<p, k>> \in lost' PROVE k \in 0..said'[p]
      <4>1. CASE <<p, k>> \in lost
        <5>1. k \in 0..said[p]
          BY <1>0, <4>1
        <5> QED
          BY <1>0, <3>1, <5>1
      <4>2. CASE <<p, k>> \notin lost
        <5>1. p = q /\ (k = 0 \/ (k = said[q] + 1 /\ said' = [said EXCEPT ![q] = @ + 1]))
          BY <2>1, <3>2, <4>2
        <5> QED
          BY <1>0, <3>1, <5>1 DEF TypeOK
      <4> QED
        BY <4>1, <4>2
    <3>3. Len(response'[p].rows) <= said'[p]
      <4>1. Len(response[p].rows) \in Nat
        BY DEF TypeOK
      <4> QED
        BY <1>0, <2>1, <3>1, <4>1
    <3> QED
      BY <3>2, <3>3
  <2> QED
    BY <2>2, <2>3 DEF Counted
<1> QED
  BY <1>1, <1>2, <1>3, <1>4 DEF Next, Read, Program, Rest, Connect, Close, Send, SendFails,
     Get, NextRow, ReadUnknown, ReadFatal, ReadNothing, Answer, Yield, StopIteration,
     commands, vars

\* No more is lost than there were faults.
LEMMA LostCounted ==
    ASSUME TypeOK, Counted, Cardinality(lost) <= faults, [Next]_vars
    PROVE  Cardinality(lost)' <= faults'
<1>1. faults \in Nat /\ (faults' = faults \/ faults' = faults + 1)
  <2>1. faults' = faults \/ Fault
    BY DEF Next, Read, Program, Rest, Connect, Close, Send, SendFails, Get, NextRow,
       ReadRow, ReadTrap, ReadDone, ReadUnknown, ReadFatal, ReadGarbled, ReadNothing,
       NothingComes, Answer, Yield, StopIteration, vars
  <2> QED
    BY <2>1, BoundsAreNumbers DEF Fault, TypeOK
<1>2. IsFiniteSet(lost) /\ Cardinality(lost) \in Nat
  BY FS_CardinalityType DEF Counted
<1>3. CASE UNCHANGED lost
  BY <1>1, <1>2, <1>3
<1>4. ASSUME NEW q \in Promises, ReadGarbled(q), NEW x, lost' = lost \cup {x}
      PROVE  Cardinality(lost)' <= faults'
  <2>1. Cardinality(lost)' <= Cardinality(lost) + 1
    BY <1>2, <1>4, FS_AddElement
  <2>2. faults' = faults + 1
    BY <1>4 DEF ReadGarbled, Fault
  <2>3. Cardinality(lost)' \in Nat
    BY <1>2, <1>4, FS_AddElement, FS_CardinalityType
  <2> QED
    BY <1>1, <1>2, <2>1, <2>2, <2>3
<1>5. ASSUME NEW q \in Promises, ReadGarbled(q)
      PROVE  Cardinality(lost)' <= faults'
  BY <1>3, <1>4, <1>5, Garbled
<1> QED
  BY <1>3, <1>5 DEF Next, Read, Program, Rest, Connect, Close, Send, SendFails, Get, NextRow,
     ReadRow, ReadTrap, ReadDone, ReadUnknown, ReadFatal, ReadNothing, Answer, Yield,
     StopIteration, commands, vars

\* The answers: rows are filed in the order in which the router says them, and a
\* result is taken from a response that is done.
LEMMA OwnAnswersKept ==
    ASSUME TypeOK, OwnAnswers, Fresh, ReaderSent, Agree, Counted, [Next]_vars
    PROVE  OwnAnswers'
<1> DEFINE rows(p) == /\ Filed(p) = {<<p, k>> : k \in 1..said[p]} \ lost
                      /\ InOrder(response[p].rows)
           outcome(p) ==
               /\ result[p] = "returned" =>
                      router[p] = "done" \/ (router[p] = "failed" /\ Trap(p) \in lost)
               /\ result[p] = "trap" => router[p] = "failed" /\ Trap(p) \notin lost
<1> SUFFICES ASSUME NEW p \in Promises PROVE rows(p)' /\ outcome(p)'
  BY LostCounted DEF OwnAnswers
<1>1. rows(p) /\ outcome(p)
  BY DEF OwnAnswers
<1>2. rows(p)'
  <2>1. ASSUME NEW q \in Promises, ReadRow(q) PROVE rows(p)'
    <3>1. CASE p = q
      <4>1. /\ response'[p].rows = Append(response[p].rows, <<p, said[p] + 1>>)
            /\ said'[p] = said[p] + 1 /\ said[p] \in Nat /\ UNCHANGED lost
            /\ <<p, said[p] + 1>> \in Promises \X (1..MaxRows)
        BY <2>1, <3>1, BoundsAreNumbers DEF ReadRow, Row, TypeOK
      <4>2. <<p, said[p] + 1>> \notin lost
        BY <4>1 DEF Counted
      <4>3. response[p].rows \in Seq(Promises \X (1..MaxRows))
        BY DEF TypeOK
      <4>4. LET t == Append(response[p].rows, <<p, said[p] + 1>>)
            IN /\ {t[i] : i \in DOMAIN t} = {<<p, k>> : k \in 1..(said[p] + 1)} \ lost
               /\ InOrder(t)
        BY <1>1, <4>1, <4>2, <4>3, OneMoreRow DEF Filed
      <4> QED
        BY <4>1, <4>4 DEF Filed
    <3>2. CASE p # q
      <4>1. response'[p] = response[p] /\ said'[p] = said[p] /\ UNCHANGED lost
        BY <2>1, <3>2 DEF ReadRow, TypeOK
      <4> QED
        BY <1>1, <4>1 DEF Filed
    <3> QED
      BY <3>1, <3>2
  <2>2. ASSUME NEW q \in Promises, ReadTrap(q) \/ ReadDone(q) PROVE rows(p)'
    <3>1. response'[p].rows = response[p].rows
      <4>1. CASE p # q
        BY <2>2, <4>1 DEF ReadTrap, ReadDone, TypeOK
      <4>2. CASE p = q /\ ReadTrap(q)
        BY <4>2 DEF ReadTrap, TypeOK
      <4>3. CASE p = q /\ ReadDone(q)
        BY <4>3 DEF ReadDone, TypeOK
      <4> QED
        BY <2>2, <4>1, <4>2, <4>3
    <3>2. UNCHANGED <<said, lost>>
      BY <2>2 DEF ReadTrap, ReadDone
    <3> QED
      BY <1>1, <3>1, <3>2 DEF Filed
  <2>4. ASSUME NEW q \in Promises, ReadGarbled(q) PROVE rows(p)'
    <3>1. UNCHANGED response /\ said[p] \in Nat
      BY <2>4, Garbled, BoundsAreNumbers DEF TypeOK
    <3>2. {<<p, k>> : k \in 1..said'[p]} \ lost' = {<<p, k>> : k \in 1..said[p]} \ lost
      <4>1. CASE p # q
        <5>1. said'[p] = said[p] /\ (lost' = lost \/ \E m : lost' = lost \cup {<<q, m>>})
          BY <2>4, <4>1, Garbled DEF TypeOK
        <5> QED
          BY <3>1, <4>1, <5>1, OneMoreLost
      <4>2. CASE p = q
        <5>1. \/ said'[p] = said[p] + 1 /\ lost' = lost \cup {<<p, said[p] + 1>>}
              \/ said'[p] = said[p] /\ lost' = lost \cup {<<p, 0>>}
              \/ said'[p] = said[p] /\ lost' = lost
          BY <2>4, <4>2, Garbled DEF TypeOK
        <5> QED
          BY <3>1, <5>1, OneMoreLost
      <4> QED
        BY <4>1, <4>2
    <3> QED
      BY <1>1, <3>1, <3>2 DEF Filed
  <2>3. ASSUME UNCHANGED <<response, said, lost>> PROVE rows(p)'
    BY <1>1, <2>3 DEF Filed
  <2> QED
    BY <2>1, <2>2, <2>3, <2>4 DEF Next, Read, Program, Rest, Connect, Close, Send, SendFails,
       Get, NextRow, ReadFatal, ReadUnknown, ReadNothing, Answer, Yield,
       StopIteration, commands, vars
<1>3. outcome(p)'
  <2>1. ASSUME UNCHANGED <<result, lost>>,
               router[p] \in {"done", "failed"} => router'[p] = router[p]
        PROVE  outcome(p)'
    BY <1>1, <2>1 DEF Trap
  <2>2. ASSUME Waiting, Raise,
               Trap(p) \in lost' => Trap(p) \in lost \/ router[p] = "running",
               lost \subseteq lost',
               router[p] \in {"done", "failed"} => router'[p] = router[p]
        PROVE  outcome(p)'
    <3>1. result'[p] = result[p] \/ result'[p] = "failed"
      BY <2>2, ReaderIsPromise DEF Waiting, Raise, TypeOK
    <3> QED
      BY <1>1, <2>2, <3>1 DEF Trap
  <2>3. ASSUME NEW c \in Conns, Send(c) PROVE outcome(p)'
    <3>1. tag[c] + 1 \in Tags /\ tag' = [tag EXCEPT ![c] = @ + 1]
      BY <2>3, TagLeft DEF Send
    <3>2. <<c, tag'[c]>> \in Promises /\ router[<<c, tag'[c]>>] = "idle"
      BY <3>1, NextTag DEF Fresh
    <3> QED
      BY <2>1, <2>3, <3>2 DEF Send, TypeOK
  <2>4. ASSUME NEW c \in Conns, SendFails(c) PROVE outcome(p)'
    <3>1. result'[p] = result[p] \/ result'[p] = "failed"
      BY <2>4 DEF SendFails, TypeOK
    <3> QED
      BY <1>1, <2>4, <3>1 DEF SendFails, Trap
  <2>5. ASSUME NEW q \in Promises, ReadTrap(q) \/ ReadDone(q) PROVE outcome(p)'
    BY <2>1, <2>5 DEF ReadTrap, ReadDone, Receives, TypeOK
  <2>6. ASSUME NEW q \in Promises, ReadFatal(q) PROVE outcome(p)'
    BY <2>2, <2>6 DEF ReadFatal, Receives, TypeOK
  <2>10. ASSUME NEW q \in Promises, ReadGarbled(q) PROVE outcome(p)'
    <3>1. Waiting /\ Raise
      BY <2>10 DEF ReadGarbled, Receives
    <3>2. lost \subseteq lost'
      BY <2>10, Garbled
    <3>3. router[p] \in {"done", "failed"} => router'[p] = router[p]
      BY <2>10, Garbled DEF TypeOK
    <3>4. Trap(p) \in lost' => Trap(p) \in lost \/ router[p] = "running"
      <4>1. said[q] + 1 # 0
        BY BoundsAreNumbers DEF TypeOK
      <4> QED
        BY <2>10, <4>1, Garbled DEF Trap
    <3> QED
      BY <2>2, <3>1, <3>2, <3>3, <3>4
  <2>7. ASSUME ReadUnknown \/ ReadNothing PROVE outcome(p)'
    BY <2>2, <2>7 DEF ReadUnknown, ReadNothing, NothingComes
  <2>8. ASSUME Answer \/ StopIteration PROVE outcome(p)'
    <3>1. Reader \in Promises /\ UNCHANGED <<router, lost>>
      BY <2>8, ReaderIsPromise DEF Answer, StopIteration, Idle
    <3>2. \/ result' = result
          \/ result' = [result EXCEPT ![Reader] = Outcome(Reader)]
      BY <2>8 DEF Answer, StopIteration
    <3>3. response[Reader].done
      BY <2>8 DEF Answer, StopIteration, Waiting, Idle
    <3>4. Agrees(response[Reader], router[Reader], Trap(Reader) \in lost)
      BY <3>1 DEF Agree
    <3>5. \/ /\ Outcome(Reader) = "trap"
             /\ router[Reader] = "failed" /\ Trap(Reader) \notin lost
          \/ /\ Outcome(Reader) = "returned"
             /\ router[Reader] = "done" \/ (router[Reader] = "failed" /\ Trap(Reader) \in lost)
      BY <3>3, <3>4 DEF Outcome, Agrees
    <3>6. result'[p] = result[p] \/ (p = Reader /\ result'[p] = Outcome(Reader))
      BY <3>1, <3>2 DEF TypeOK
    <3> QED
      BY <1>1, <3>1, <3>5, <3>6 DEF Trap
  <2>9. ASSUME UNCHANGED <<result, router, lost>> PROVE outcome(p)'
    BY <2>1, <2>9
  <2> QED
    BY <2>3, <2>4, <2>5, <2>6, <2>7, <2>8, <2>9, <2>10 DEF Next, Read, Program, Rest, Connect,
       Close, Get, NextRow, ReadRow, Yield, commands, vars
<1> QED
  BY <1>2, <1>3

-----------------------------------------------------------------------------
(* As long as nothing fails. *)

\* Every exception but a command's own trap needs a fault.
LEMMA NoFaultNoRaise ==
    ASSUME IInv, [Next]_vars, faults' = 0
    PROVE  /\ faults = 0
           /\ ~Close
           /\ \A c \in Conns : ~SendFails(c)
           /\ \A p \in Promises : ~ReadFatal(p) /\ ~ReadGarbled(p)
           /\ ~ReadUnknown /\ ~ReadNothing
<1> USE DEF IInv
<1>1. ASSUME Fault PROVE FALSE
  BY <1>1, BoundsAreNumbers DEF Fault, TypeOK
<1>2. faults = 0
  <2>1. faults' = faults \/ Fault
    BY DEF Next, Read, Program, Rest, Connect, Close, Send, SendFails, Get, NextRow,
       ReadRow, ReadTrap, ReadDone, ReadUnknown, ReadFatal, ReadGarbled, ReadNothing,
       NothingComes, Answer, Yield, StopIteration, vars
  <2> QED
    BY <1>1, <2>1
<1>3. ~Close /\ \A p \in Promises : ~ReadFatal(p) /\ ~ReadGarbled(p)
  BY <1>1 DEF Close, ReadFatal, ReadGarbled
<1>4. ASSUME NEW c \in Conns, SendFails(c) PROVE FALSE
  BY <1>1, <1>2, <1>4 DEF SendFails, NoFaultYet
<1>5. ASSUME Waiting PROVE Receives(Reader)
  <2>1. Reader \in Promises /\ Sent(Reader) /\ ~response[Reader].done
    BY <1>5, ReaderIsPromise DEF Waiting, ReaderSent
  <2> QED
    BY <1>2, <1>5, <2>1 DEF Receives, NoFaultYet
<1>6. ASSUME ReadNothing PROVE FALSE
  BY <1>1, <1>5, <1>6, ReaderIsPromise DEF ReadNothing, NothingComes, Waiting
<1>7. ASSUME ReadUnknown PROVE FALSE
  <2>1. PICK p \in Promises \ response_buffor : Receives(p)
    BY <1>1, <1>7 DEF ReadUnknown
  <2>2. Sent(p)
    BY <2>1 DEF Receives, Fresh
  <2>3. result[p] \in {"returned", "trap"}
    BY <1>2, <2>1, <2>2 DEF NoCollateral, TypeOK
  <2>4. router[p] \in {"done", "failed"}
    BY <2>1, <2>3 DEF OwnAnswers
  <2> QED
    BY <2>1, <2>4 DEF Receives
<1> QED
  BY <1>2, <1>3, <1>4, <1>6, <1>7

LEMMA NoFaultYetKept ==
    ASSUME IInv, [Next]_vars
    PROVE  NoFaultYet'
<1> SUFFICES ASSUME faults' = 0 PROVE NoFaultYet'
  BY DEF NoFaultYet
<1> DEFINE coming(p) == response[p].done \/ router[p] \in {"running", "trapped"}
<1>1. /\ faults = 0 /\ TypeOK
      /\ apis \subseteq {socket} \cap open \cap up
      /\ apis # {} => connected
      /\ \A p \in Promises : Sent(p) => Conn(p) \in apis /\ coming(p)
  BY NoFaultNoRaise DEF NoFaultYet, IInv
<1>2. ASSUME Connect PROVE NoFaultYet'
  <2>1. apis = {} /\ \A p \in Promises : ~Sent(p)
    BY <1>1, <1>2 DEF Connect
  <2>2. \A p \in Promises : ~Sent(p)'
    BY <1>2, <2>1 DEF Connect, commands, Sent
  <2>3. apis' \subseteq {socket'} \cap open' \cap up' /\ (apis' # {} => connected')
    BY <1>2, <2>1 DEF Connect
  <2> QED
    BY <2>2, <2>3 DEF NoFaultYet
<1>3. ASSUME UNCHANGED <<connected, socket, apis, open, up>>,
             \A p \in Promises : Sent(p)' => Conn(p) \in apis /\ coming(p)'
      PROVE  NoFaultYet'
  BY <1>1, <1>3 DEF NoFaultYet, Conn
<1>4. ASSUME NEW c \in Conns, Send(c) PROVE NoFaultYet'
  <2>1. tag[c] + 1 \in Tags /\ tag' = [tag EXCEPT ![c] = @ + 1]
    BY <1>1, <1>4, TagLeft DEF Send
  <2>2. /\ <<c, tag'[c]>> \in Promises
        /\ \A p \in Promises : Sent(p)' <=> Sent(p) \/ p = <<c, tag'[c]>>
    BY <1>1, <2>1, NextTag
  <2>3. ASSUME NEW p \in Promises, Sent(p)' PROVE Conn(p) \in apis /\ coming(p)'
    <3>1. CASE p = <<c, tag'[c]>>
      <4>1. Conn(p) = c /\ c \in apis \cap up
        BY <1>1, <1>4, <3>1 DEF Send, Conn
      <4>2. router'[p] = "running"
        BY <1>1, <1>4, <2>2, <3>1, <4>1 DEF Send, TypeOK
      <4> QED
        BY <4>1, <4>2
    <3>2. CASE p # <<c, tag'[c]>>
      <4>1. Sent(p) /\ UNCHANGED response /\ router'[p] = router[p]
        BY <1>1, <1>4, <2>2, <2>3, <3>2 DEF Send, TypeOK
      <4> QED
        BY <1>1, <4>1
    <3> QED
      BY <3>1, <3>2
  <2> QED
    BY <1>3, <1>4, <2>3 DEF Send, pool
<1>5. ASSUME UNCHANGED <<pool, tag>>,
             \A p \in Promises : coming(p) => coming(p)'
      PROVE  NoFaultYet'
  BY <1>1, <1>3, <1>5 DEF pool, Sent
<1>6. ASSUME NEW q \in Promises, ReadRow(q) \/ ReadTrap(q) PROVE NoFaultYet'
  <2>1. ASSUME NEW p \in Promises, coming(p) PROVE coming(p)'
    <3>1. CASE p = q
      BY <1>1, <1>6, <3>1 DEF ReadRow, ReadTrap, Receives, TypeOK
    <3>2. CASE p # q
      BY <1>1, <1>6, <2>1, <3>2 DEF ReadRow, ReadTrap, TypeOK
    <3> QED
      BY <3>1, <3>2
  <2> QED
    BY <1>5, <1>6, <2>1 DEF ReadRow, ReadTrap
<1>7. ASSUME NEW q \in Promises, ReadDone(q) PROVE NoFaultYet'
  <2>1. ASSUME NEW p \in Promises, coming(p) PROVE coming(p)'
    <3>1. CASE p = q
      BY <1>1, <1>7, <3>1 DEF ReadDone, TypeOK
    <3>2. CASE p # q
      BY <1>1, <1>7, <2>1, <3>2 DEF ReadDone, TypeOK
    <3> QED
      BY <3>1, <3>2
  <2> QED
    BY <1>5, <1>7, <2>1 DEF ReadDone
<1>8. ASSUME UNCHANGED <<pool, tag, response, router>> PROVE NoFaultYet'
  BY <1>1, <1>3, <1>8 DEF pool, Sent
<1> QED
  BY NoFaultNoRaise, <1>2, <1>4, <1>6, <1>7, <1>8 DEF Next, Read, Program, Rest, Get,
     NextRow, Answer, Yield, StopIteration, commands, pool, vars

LEMMA NoCollateralKept ==
    ASSUME IInv, [Next]_vars
    PROVE  NoCollateral'
<1> DEFINE had(p) == result[p] # "failed" /\ (p \in response_buffor \/ result[p] # "none")
<1> SUFFICES ASSUME faults' = 0, NEW p \in Promises, Sent(p)'
             PROVE  had(p)'
  BY DEF NoCollateral, Sent
<1>1. faults = 0 /\ TypeOK /\ (Sent(p) => had(p)) /\ (~Sent(p) => result[p] = "none")
  BY NoFaultNoRaise DEF NoCollateral, Fresh, IInv
<1>2. ASSUME NEW c \in Conns, Send(c) PROVE had(p)'
  <2>1. tag[c] + 1 \in Tags /\ tag' = [tag EXCEPT ![c] = @ + 1]
    BY <1>1, <1>2, TagLeft DEF Send
  <2>2. Sent(p) \/ p = <<c, tag'[c]>>
    BY <1>1, <2>1, NextTag
  <2> QED
    BY <1>1, <1>2, <2>2 DEF Send
<1>3. ASSUME UNCHANGED tag,
             \/ UNCHANGED <<response_buffor, result>>
             \/ /\ ~Idle
                /\ response_buffor' = response_buffor \ {Reader}
                /\ result' = [result EXCEPT ![Reader] = Outcome(Reader)]
             \/ /\ ~Idle
                /\ response_buffor' = response_buffor \ {Reader}
                /\ Reader \notin response_buffor /\ UNCHANGED result
      PROVE  had(p)'
  <2>1. had(p)
    BY <1>1, <1>3 DEF Sent
  <2>2. ~Idle => Reader \in Promises
    BY <1>1, ReaderIsPromise DEF Idle
  <2>3. Outcome(Reader) \in {"trap", "returned"}
    BY DEF Outcome
  <2> QED
    BY <1>1, <1>3, <2>1, <2>2, <2>3 DEF TypeOK
<1>4. ASSUME Answer \/ StopIteration PROVE had(p)'
  BY <1>3, <1>4 DEF Answer, StopIteration
<1>5. ASSUME UNCHANGED <<tag, response_buffor, result>> PROVE had(p)'
  BY <1>3, <1>5
<1> QED
  BY NoFaultNoRaise, <1>2, <1>4, <1>5 DEF Next, Read, Program, Rest, Connect, Get,
     NextRow, ReadRow, ReadTrap, ReadDone, Yield, commands, vars

-----------------------------------------------------------------------------
(* The theorems. *)

LEMMA InitInvariant == Init => IInv
<1> SUFFICES ASSUME Init PROVE IInv
  OBVIOUS
<1> USE DEF Init, Empty
<1>1. ASSUME NEW p \in Promises PROVE ~Sent(p)
  <2>1. p[1] \in Conns /\ p[2] \in 1..MaxSends
    BY DEF Promises, Tags
  <2>2. tag[p[1]] = 0
    BY <2>1
  <2> QED
    BY <2>1, <2>2, BoundsAreNumbers DEF Sent, Conn
<1>2. PoolType /\ RouterType
  <2>1. connected \in BOOLEAN
    OBVIOUS
  <2>2. socket \in 0..MaxConns /\ made \in 0..MaxConns /\ apis \cup open \cup up \subseteq 1..made
    BY BoundsAreNumbers
  <2>3. RouterType
    BY BoundsAreNumbers DEF RouterType
  <2> QED
    BY <2>1, <2>2, <2>3 DEF PoolType
<1>3. TagType /\ ReaderType
  BY BoundsAreNumbers DEF TagType, ReaderType
<1>4. RowsType
  <2>1. Empty \in Responses /\ Len(Empty.rows) = 0
    BY DEF Responses
  <2> QED
    BY <2>1, BoundsAreNumbers DEF RowsType
<1>5. TypeOK
  BY <1>2, <1>3, <1>4, TypeParts
<1>6. OwnAnswers /\ Counted
  <2>1. IsFiniteSet(lost) /\ Cardinality(lost) = 0
    BY FS_EmptySet
  <2>2. ASSUME NEW p \in Promises
        PROVE  /\ Filed(p) = {} /\ InOrder(response[p].rows) /\ Len(response[p].rows) = 0
               /\ said[p] = 0 /\ result[p] = "none"
    BY DEF Filed, InOrder
  <2>3. \A p \in Promises : {<<p, k>> : k \in 1..said[p]} = {}
    BY <2>2
  <2> QED
    BY <2>1, <2>2, <2>3 DEF OwnAnswers, Counted
<1>7. OneSocket /\ NoCollateral /\ Fresh /\ ReaderSent /\ Agree /\ NoFaultYet
  BY <1>1 DEF OneSocket, NoCollateral, Fresh, ReaderSent, Agree, Agrees, NoFaultYet
<1> QED
  BY <1>5, <1>6, <1>7 DEF IInv

LEMMA NextInvariant == IInv /\ [Next]_vars => IInv'
<1> SUFFICES ASSUME IInv, [Next]_vars PROVE IInv'
  OBVIOUS
<1>1. TypeOK' /\ OneSocket' /\ OwnAnswers'
  BY TypeKept, SocketsKept, OwnAnswersKept DEF IInv
<1>2. Fresh' /\ ReaderSent' /\ Agree' /\ Counted'
  BY FreshKept, ReaderSentKept, AgreeKept, CountedKept DEF IInv
<1>3. NoCollateral' /\ NoFaultYet'
  BY NoCollateralKept, NoFaultYetKept
<1> QED
  BY <1>1, <1>2, <1>3 DEF IInv

\* Every step of the client (ApiCommunicator, AsynchronousResponse, the pool) and
\* every fault of the connection keeps the invariant.
THEOREM InvariantHolds == Spec => []IInv
BY InitInvariant, NextInvariant, PTL DEF Spec

\* The variables of the client and of the router's side keep their types; an iterator
\* never passes the rows of its response (asynchronous_response.py).
THEOREM TypesHold == Spec => []TypeOK
<1>1. IInv => TypeOK
  BY DEF IInv
<1> QED
  BY <1>1, InvariantHolds, PTL

\* Whoever reads them and in whatever order they come, the sentences of a command that
\* were understood reach its own response in order, and its result is what the router
\* said, but for a trap that was not; no more is missing than there were faults.
THEOREM AnswersAreOwn == Spec => []OwnAnswers
<1>1. IInv => OwnAnswers
  BY DEF IInv
<1> QED
  BY <1>1, InvariantHolds, PTL

\* Until the connection is broken, no get or iteration fails but for its own trap, and
\* every answer not consumed can still be had.
THEOREM NobodyPays == Spec => []NoCollateral
<1>1. IInv => NoCollateral
  BY DEF IInv
<1> QED
  BY <1>1, InvariantHolds, PTL

\* The pool leaves no socket open but its own, and is connected only with an open one.
THEOREM OneSocketHolds == Spec => []OneSocket
<1>1. IInv => OneSocket
  BY DEF IInv
<1> QED
  BY <1>1, InvariantHolds, PTL
=============================================================================
