---------------------------- MODULE RouterOsClient ----------------------------
(***************************************************************************)
(* The RouterOS API client of src/routeros_api: a pool that holds at most  *)
(* one connection, and on it commands in flight, told apart by tags, whose *)
(* answers arrive as sentences in any interleaving.                        *)
(*                                                                         *)
(* One thread uses the client.  It sends commands, waits for the answer of *)
(* one (get) or takes its rows one by one (iteration), and may abandon any *)
(* of them.  Whichever it waits for, it reads the next sentence of the     *)
(* connection and files it under the sentence's own tag.  The router's     *)
(* choice of the next sentence is made here when it is read: what it had   *)
(* sent earlier nobody has seen.                                           *)
(*                                                                         *)
(* Calls that fail before they change anything (a refused connect, a get   *)
(* of an answer already consumed) leave the state alone and are left out.  *)
(***************************************************************************)
EXTENDS Naturals, Sequences, FiniteSets

CONSTANTS
    None,      \* nobody is reading
    MaxConns,  \* bound: connections made
    MaxSends,  \* bound: commands sent, on all connections
    MaxRows,   \* bound: rows of an answer
    MaxFaults  \* bound: fatal, garbled or missing sentences, connections lost or ended

ASSUME BoundsAssumption == {MaxConns, MaxSends, MaxRows, MaxFaults} \subseteq Nat

Conns == 1..MaxConns
Tags == 1..MaxSends
Promises == Conns \X Tags
ASSUME NoneAssumption == None \notin Promises \X {"get", "next"}

VARIABLES
    connected,       \* RouterOsApiPool.connected
    socket,          \* RouterOsApiPool.socket: a connection, or 0 for the DummySocket
    made,            \* connections made so far
    apis,            \* connections whose RouterOsApi get_api has returned
    open,            \* connections whose socket is open on this side
    up,              \* connections the router has granted a login and not closed
    tag,             \* ApiCommunicatorBase.tag, per connection
    response_buffor, \* the promises whose tags are keys of that dictionary
    response,        \* AsynchronousResponse, per promise: rows, done, error
    index,           \* AsynchronousResponseIterator.index, per promise
    iterator,        \* "fresh", "used" or "over"
    reading,         \* the get or next that is waiting for a sentence, or None
    router,          \* the router's side of a command: "idle", "running", "trapped",
                     \* "done", "failed"
    said,            \* history: rows the router has answered, per promise
    lost,            \* history: the rows and traps among the sentences not understood
    result,          \* history: how the last get or iteration of a promise ended
    faults           \* counter for the bound

pool == <<connected, socket, made, apis, open, up>>
commands == <<tag, response_buffor, response, index, iterator, result>>
vars == <<connected, socket, made, apis, open, up, tag, response_buffor, response,
          index, iterator, result, reading, router, said, lost, faults>>

Empty == [rows |-> <<>>, done |-> FALSE, error |-> FALSE]

Idle == reading = None
Conn(p) == p[1]

\* The promise the reader waits for, and how.
Reader == reading[1]
How == reading[2]

Sent(p) == p[2] <= tag[Conn(p)]

Fault == faults < MaxFaults /\ faults' = faults + 1

Init ==
    /\ connected = FALSE
    /\ socket = 0
    /\ made = 0
    /\ apis = {}
    /\ open = {}
    /\ up = {}
    /\ tag = [c \in Conns |-> 0]
    /\ response_buffor = {}
    /\ response = [p \in Promises |-> Empty]
    /\ index = [p \in Promises |-> 0]
    /\ iterator = [p \in Promises |-> "fresh"]
    /\ reading = None
    /\ router = [p \in Promises |-> "idle"]
    /\ said = [p \in Promises |-> 0]
    /\ lost = {}
    /\ result = [p \in Promises |-> "none"]
    /\ faults = 0

-----------------------------------------------------------------------------
(* The pool. *)

\* get_api after a disconnect: a new connection and a login on it, which the router
\* grants, refuses with a trap or a tagged fatal, or which the connection does not
\* survive.  Nothing refers to an earlier connection whose login was refused any
\* longer; Python closes it.
Connect ==
    /\ Idle
    /\ ~connected
    /\ made < MaxConns
    /\ made' = made + 1
    /\ \/ /\ connected' = TRUE
          /\ socket' = made'
          /\ apis' = apis \cup {made'}
          /\ open' = (open \ {socket}) \cup {made'}
          /\ up' = up \cup {made'}
       \/ /\ socket' = made'
          /\ open' = (open \ {socket}) \cup {made'}
          /\ UNCHANGED <<connected, apis, up>>
       \/ /\ socket' = 0
          /\ open' = open \ {socket}
          /\ UNCHANGED <<connected, apis, up>>
    /\ UNCHANGED <<commands, reading, router, said, lost, faults>>

\* Mutant: the flag is left as it is.
DisconnectKeepsFlag ==
    /\ open' = open \ {socket}
    /\ socket' = 0
    /\ UNCHANGED connected

\* RouterOsApiPool.disconnect, of whatever connection the pool has now.
Disconnect ==
    /\ connected' = FALSE
    /\ open' = open \ {socket}
    /\ socket' = 0

\* The program ends the connection, also with commands in flight.
Close ==
    /\ Idle
    /\ connected
    /\ Fault
    /\ Disconnect
    /\ UNCHANGED <<made, apis, up, commands, reading, router, said, lost>>

-----------------------------------------------------------------------------
(* Sending. *)

\* The tag is counted first and the buffer made last.  What is sent to a router that has
\* hung up may be taken by the network all the same.
Send(c) ==
    /\ Idle
    /\ c \in apis \cap open
    /\ Cardinality({p \in Promises : Sent(p)}) < MaxSends
    /\ tag' = [tag EXCEPT ![c] = @ + 1]
    /\ response_buffor' = response_buffor \cup {<<c, tag'[c]>>}
    /\ router' = [router EXCEPT ![<<c, tag'[c]>>] = IF c \in up THEN "running" ELSE @]
    /\ UNCHANGED <<pool, response, index, iterator, result, reading, said, lost, faults>>

\* The socket is closed on either side: the exception handler disconnects the pool,
\* which may have a newer connection by now.
SendFails(c) ==
    /\ Idle
    /\ c \in apis
    /\ IF c \in open \cap up THEN Fault ELSE UNCHANGED faults
    /\ Cardinality({p \in Promises : Sent(p)}) < MaxSends
    /\ tag' = [tag EXCEPT ![c] = @ + 1]
    /\ result' = [result EXCEPT ![<<c, tag'[c]>>] = "failed"]
    /\ Disconnect
    /\ UNCHANGED <<made, apis, up, response_buffor, response, index, iterator,
                   reading, router, said, lost>>

-----------------------------------------------------------------------------
(* Waiting for an answer. *)

\* ResponsePromise.get, unless it has its response already.
Get(p) ==
    /\ Idle
    /\ p \in response_buffor
    /\ reading' = <<p, "get">>
    /\ UNCHANGED <<pool, commands, router, said, lost, faults>>

\* The next row is asked for.  A generator that has not begun looks its buffer up;
\* one that has holds the response.
NextRow(p) ==
    /\ Idle
    /\ \/ iterator[p] = "fresh" /\ p \in response_buffor
       \/ iterator[p] = "used"
    /\ iterator' = [iterator EXCEPT ![p] = "used"]
    /\ reading' = <<p, "next">>
    /\ UNCHANGED <<pool, tag, response_buffor, response, index, result, router, said,
                   lost, faults>>

\* More sentences are needed.
Waiting ==
    /\ reading # None
    /\ ~response[Reader].done
    /\ How = "next" => index[Reader] >= Len(response[Reader].rows)

\* An exception ends the reader: the get raises and may be tried again, the
\* generator is finished.
Raise ==
    /\ reading' = None
    /\ result' = [result EXCEPT ![Reader] = "failed"]
    /\ iterator' = IF How = "next" THEN [iterator EXCEPT ![Reader] = "over"] ELSE iterator

-----------------------------------------------------------------------------
(* The sentences. *)

\* The next sentence on the reader's connection belongs to p.
Receives(p) ==
    /\ Waiting
    /\ Conn(p) = Conn(Reader)
    /\ Conn(p) \in open \cap up
    /\ router[p] \in {"running", "trapped"}

Row(p) == <<p, said[p] + 1>>

\* Mutant: the row is filed under the tag that is waited for.
ReadRowForReader(p) ==
    /\ Receives(p)
    /\ router[p] = "running"
    /\ said[p] < MaxRows
    /\ said' = [said EXCEPT ![p] = @ + 1]
    /\ p \in response_buffor
    /\ response' = [response EXCEPT ![Reader].rows = Append(@, Row(p))]
    /\ UNCHANGED <<pool, tag, response_buffor, index, iterator, result, reading, router,
                   lost, faults>>

ReadRow(p) ==
    /\ Receives(p)
    /\ router[p] = "running"
    /\ said[p] < MaxRows
    /\ said' = [said EXCEPT ![p] = @ + 1]
    /\ p \in response_buffor
    /\ response' = [response EXCEPT ![p].rows = Append(@, Row(p))]
    /\ UNCHANGED <<pool, tag, response_buffor, index, iterator, result, reading, router,
                   lost, faults>>

\* Mutant: a trap is the end of the answer.
ReadTrapEnds(p) ==
    /\ Receives(p)
    /\ router[p] = "running"
    /\ p \in response_buffor
    /\ router' = [router EXCEPT ![p] = "trapped"]
    /\ response' = [response EXCEPT ![p].error = TRUE, ![p].done = TRUE]
    /\ UNCHANGED <<pool, tag, response_buffor, index, iterator, result, reading, said,
                   lost, faults>>

\* The router reports an error; its !done follows.
ReadTrap(p) ==
    /\ Receives(p)
    /\ router[p] = "running"
    /\ p \in response_buffor
    /\ router' = [router EXCEPT ![p] = "trapped"]
    /\ response' = [response EXCEPT ![p].error = TRUE]
    /\ UNCHANGED <<pool, tag, response_buffor, index, iterator, result, reading, said,
                   lost, faults>>

After(p) == IF router[p] = "running" THEN "done" ELSE "failed"

ReadDone(p) ==
    /\ Receives(p)
    /\ p \in response_buffor
    /\ router' = [router EXCEPT ![p] = After(p)]
    /\ response' = [response EXCEPT ![p].done = TRUE]
    /\ UNCHANGED <<pool, tag, response_buffor, index, iterator, result, reading, said,
                   lost, faults>>

\* A sentence whose tag has no buffer, or, as a fault, one without a tag: a
\* FatalRouterOsApiError, for which the handler disconnects.
ReadUnknown ==
    /\ Waiting
    /\ Conn(Reader) \in open \cap up
    /\ \/ Fault
       \/ UNCHANGED faults /\ \E p \in Promises \ response_buffor : Receives(p)
    /\ Raise
    /\ Disconnect
    /\ UNCHANGED <<made, apis, up, tag, response_buffor, response, index, router,
                   said, lost>>

\* !fatal with a tag, whoever reads it, after which the router hangs up.  This
\* exception is none of those for which the pool disconnects.
ReadFatal(p) ==
    /\ Receives(p)
    /\ Fault
    /\ p \in response_buffor
    /\ response_buffor' = response_buffor \ {p}
    /\ up' = up \ {Conn(p)}
    /\ router' = [router EXCEPT ![p] = "failed"]
    /\ Raise
    /\ UNCHANGED <<connected, socket, made, apis, open, tag, response, index, said, lost>>

Trap(p) == <<p, 0>>

\* A sentence that cannot be parsed, or a trap without a message: it is gone, and the
\* get it ends may be tried again.  A command's !done that is lost never comes.
ReadGarbled(p) ==
    /\ Receives(p)
    /\ Fault
    /\ \/ /\ router[p] = "running" /\ said[p] < MaxRows
          /\ said' = [said EXCEPT ![p] = @ + 1]
          /\ lost' = lost \cup {Row(p)}
          /\ UNCHANGED router
       \/ /\ router[p] = "running"
          /\ router' = [router EXCEPT ![p] = "trapped"]
          /\ lost' = lost \cup {Trap(p)}
          /\ UNCHANGED said
       \/ /\ router' = [router EXCEPT ![p] = After(p)]
          /\ UNCHANGED <<said, lost>>
    /\ Raise
    /\ UNCHANGED <<pool, tag, response_buffor, response, index>>

\* The router has closed the connection, this side has, or nothing comes in time.
NothingComes ==
    /\ Waiting
    /\ \/ Conn(Reader) \in open \cap up /\ Fault
       \/ (\A p \in Promises : ~Receives(p)) /\ UNCHANGED faults

\* Mutant: no data is taken for an empty sentence, which the loop skips.
ReadNothingAgain == NothingComes /\ UNCHANGED <<pool, commands, reading, router, said,
                                               lost>>

ReadNothing ==
    /\ NothingComes
    /\ Raise
    /\ Disconnect
    /\ UNCHANGED <<made, apis, up, tag, response_buffor, response, index, router,
                   said, lost>>

-----------------------------------------------------------------------------
(* The end of waiting. *)

Outcome(p) == IF response[p].error THEN "trap" ELSE "returned"

\* get: the buffer is removed, then the trap raised or the response returned.
Answer ==
    /\ ~Idle
    /\ How = "get"
    /\ ~Waiting
    /\ response_buffor' = response_buffor \ {Reader}
    /\ result' = [result EXCEPT ![Reader] = Outcome(Reader)]
    /\ reading' = None
    /\ UNCHANGED <<pool, tag, response, index, iterator, router, said, lost, faults>>

\* Mutant: off by one.
YieldOneMore ==
    /\ ~Idle
    /\ How = "next"
    /\ ~Waiting
    /\ index[Reader] <= Len(response[Reader].rows)
    /\ index' = [index EXCEPT ![Reader] = @ + 1]
    /\ reading' = None
    /\ UNCHANGED <<pool, tag, response_buffor, response, iterator, result, router, said,
                   lost, faults>>

Yield ==
    /\ ~Idle
    /\ How = "next"
    /\ ~Waiting
    /\ index[Reader] < Len(response[Reader].rows)
    /\ index' = [index EXCEPT ![Reader] = @ + 1]
    /\ reading' = None
    /\ UNCHANGED <<pool, tag, response_buffor, response, iterator, result, router, said,
                   lost, faults>>

\* All rows are taken.  The buffer is removed, unless a get has done so before, in
\* which case this raises KeyError.
StopIteration ==
    /\ ~Idle
    /\ How = "next"
    /\ ~Waiting
    /\ index[Reader] >= Len(response[Reader].rows)
    /\ response_buffor' = response_buffor \ {Reader}
    /\ result' = IF Reader \in response_buffor
                 THEN [result EXCEPT ![Reader] = Outcome(Reader)] ELSE result
    /\ iterator' = [iterator EXCEPT ![Reader] = "over"]
    /\ reading' = None
    /\ UNCHANGED <<pool, tag, response, index, router, said, lost, faults>>

-----------------------------------------------------------------------------
Read == \/ \E p \in Promises : ReadRow(p) \/ ReadTrap(p) \/ ReadDone(p)
                                 \/ ReadFatal(p) \/ ReadGarbled(p)
        \/ ReadUnknown \/ ReadNothing
        \/ Answer \/ Yield \/ StopIteration

Program == \/ Connect \/ Close
           \/ \E c \in Conns : Send(c) \/ SendFails(c)
           \/ \E p \in Promises : Get(p) \/ NextRow(p)

\* The program may leave it at that.
Rest == Idle /\ UNCHANGED vars

Next == Read \/ Program \/ Rest

Spec == Init /\ [][Next]_vars

\* Reading goes on: every receive ends with a sentence or the socket's timeout.
FairSpec == Spec /\ WF_vars(Read)

-----------------------------------------------------------------------------
(* Properties. *)

\* Every variable has the type its comment gives it, and an iterator has not gone
\* past the rows of its response.
TypeOK ==
    /\ connected \in BOOLEAN
    /\ socket \in 0..MaxConns
    /\ made \in 0..MaxConns
    /\ apis \cup open \cup up \subseteq 1..made
    /\ tag \in [Conns -> 0..MaxSends]
    /\ response_buffor \subseteq {p \in Promises : Sent(p)}
    /\ response \in [Promises -> [rows : Seq(Promises \X (1..MaxRows)), done : BOOLEAN,
                                  error : BOOLEAN]]
    /\ iterator \in [Promises -> {"fresh", "used", "over"}]
    /\ index \in [Promises -> 0..MaxRows]
    /\ \A p \in Promises : index[p] <= Len(response[p].rows)
    /\ reading \in Promises \X {"get", "next"} \cup {None}
    /\ router \in [Promises -> {"idle", "running", "trapped", "done", "failed"}]
    /\ said \in [Promises -> 0..MaxRows]
    /\ lost \subseteq Promises \X (0..MaxRows)
    /\ result \in [Promises -> {"none", "returned", "trap", "failed"}]
    /\ faults \in 0..MaxFaults

\* The rows in a response, and that they are in the order in which the router said them.
Filed(p) == {response[p].rows[i] : i \in DOMAIN response[p].rows}
InOrder(rows) == \A i, j \in DOMAIN rows : i < j => rows[i][2] < rows[j][2]

\* Whoever reads them and in whatever order they come, the sentences of a command
\* reach its own response, in order and but for those that were not understood, of
\* which each has raised an exception.  A get or an iteration returns the response
\* when it is complete, and raises the router's error when there was one, unless it
\* was that sentence: a get tried again then returns as if there had been none.
OwnAnswers ==
    /\ \A p \in Promises :
         /\ Filed(p) = {<<p, k>> : k \in 1..said[p]} \ lost
         /\ InOrder(response[p].rows)
         /\ result[p] = "returned" =>
                router[p] = "done" \/ (router[p] = "failed" /\ Trap(p) \in lost)
         /\ result[p] = "trap" => router[p] = "failed" /\ Trap(p) \notin lost
    /\ Cardinality(lost) <= faults

\* Nobody pays for what others do with their promises (abandon them, iterate half
\* way, get them while iterating, or get an error): as long as the router, the
\* network and the program do not break the connection, no get fails but for its own
\* trap, and every answer not consumed yet can still be had.
NoCollateral ==
    faults = 0 =>
        \A p \in Promises : Sent(p) =>
            result[p] # "failed" /\ (p \in response_buffor \/ result[p] # "none")

\* However a connection ended (by which exception, by the program, by a command left
\* over from an earlier connection, or with a login refused), no socket but the
\* pool's is open, and a pool that says it is connected has one that is.
OneSocket == /\ open \subseteq {socket}
             /\ connected => socket \in open \cap apis

\* A get or an iteration that has begun comes back, whatever sentences are lost.
ReadsEnd == reading # None ~> reading = None
=============================================================================
