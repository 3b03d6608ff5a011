---------------------------- MODULE PollingAgent -----------------------------
(***************************************************************************)
(* The life of the program: the main thread of src/polling_agent.py with   *)
(* its SIGINT handler, the poll thread, the manager process that holds the *)
(* stop event and the inventory list, and the user who presses Ctrl-C at   *)
(* any moment, more than once.                                             *)
(*                                                                         *)
(* Python runs the handler in the main thread, on top of whatever that     *)
(* thread is doing; a second signal runs it once more on top of itself.    *)
(* An exception that leaves a handler unwinds all of them and then the     *)
(* main program.  The pass of the poll thread is PullAllocator; here it is *)
(* one step that ends or raises.                                           *)
(***************************************************************************)
EXTENDS Naturals, Sequences

CONSTANT MaxSignals  \* bound: how often the user presses Ctrl-C

ASSUME SignalsAssumption == MaxSignals \in Nat

VARIABLES
    main,      \* the line of __main__ the main thread is at
    handlers,  \* the handlers that run on top of it, the last one active
    event,     \* _stop_event: "none" until startup has made it, then "clear" or "set"
    manager,   \* the manager process: "none", "up" or "down"
    thread,    \* _poll_thread: "none", "created", "running" or "ended"
    poll,      \* where the poll thread is in its loop
    signals    \* counter for the bound

vars == <<main, handlers, event, manager, thread, poll, signals>>

MainPlaces == {"boot", "manager", "event", "inventory", "allocator", "start", "join",
               "exiting", "exited"}
HandlerPlaces == {"set", "join", "shutdown", "exit"}

Init ==
    /\ main = "boot"
    /\ handlers = <<>>
    /\ event = "none"
    /\ manager = "none"
    /\ thread = "none"
    /\ poll = "check"
    /\ signals = 0

-----------------------------------------------------------------------------
(* The main program. *)

\* The main program is at this place and no handler runs on top of it.
At(place) == main = place /\ handlers = <<>>

Construct ==
    /\ At("boot")
    /\ main' = "manager"
    /\ UNCHANGED <<handlers, event, manager, thread, poll, signals>>

StartManager ==
    /\ At("manager")
    /\ manager' = "up"
    /\ main' = "event"
    /\ UNCHANGED <<handlers, event, thread, poll, signals>>

MakeEvent ==
    /\ At("event")
    /\ event' = "clear"
    /\ main' = "inventory"
    /\ UNCHANGED <<handlers, manager, thread, poll, signals>>

\* The inventory is read from Sonar, or the conversion of an answer raises.
ReadInventory ==
    /\ At("inventory")
    /\ main' \in {"allocator", "exiting"}
    /\ UNCHANGED <<handlers, event, manager, thread, poll, signals>>

CreateThread ==
    /\ At("allocator")
    /\ thread' = "created"
    /\ main' = "start"
    /\ UNCHANGED <<handlers, event, manager, poll, signals>>

StartThread ==
    /\ At("start")
    /\ thread' = "running"
    /\ main' = "join"
    /\ UNCHANGED <<handlers, event, manager, poll, signals>>

\* Mutant: the main thread waits for the event as well.
JoinThreadAndEvent ==
    /\ At("join")
    /\ thread = "ended"
    /\ event = "set"
    /\ main' = "exiting"
    /\ UNCHANGED <<handlers, event, manager, thread, poll, signals>>

JoinThread ==
    /\ At("join")
    /\ thread = "ended"
    /\ main' = "exiting"
    /\ UNCHANGED <<handlers, event, manager, thread, poll, signals>>

\* The interpreter waits for the threads, then the manager's finalizer runs.
Exit ==
    /\ At("exiting")
    /\ thread # "running"
    /\ main' = "exited"
    /\ manager' = IF manager = "up" THEN "down" ELSE manager
    /\ UNCHANGED <<handlers, event, thread, poll, signals>>

-----------------------------------------------------------------------------
(* The handler: shutdown(), then sys.exit(0). *)

Active == handlers[Len(handlers)]
Running(place) == handlers # <<>> /\ Active = place
Proceed(place) == handlers' = [handlers EXCEPT ![Len(handlers)] = place]

\* The user presses Ctrl-C.
Signal ==
    /\ main \notin {"exiting", "exited"}
    /\ signals < MaxSignals
    /\ signals' = signals + 1
    /\ handlers' = Append(handlers, "set")
    /\ UNCHANGED <<main, event, manager, thread, poll>>

\* An exception ends all handlers and the main program, unless that is reading
\* the inventory under one of the bare excepts of sonar/api_connection.py.
Raise ==
    /\ handlers' = <<>>
    /\ \/ main' = "exiting"
       \/ main = "inventory" /\ UNCHANGED main

\* No _stop_event yet, or its manager is gone: the call raises.
SetStopEvent ==
    /\ Running("set")
    /\ IF event = "none" \/ manager = "down"
       THEN Raise /\ UNCHANGED event
       ELSE event' = "set" /\ Proceed("join") /\ UNCHANGED main
    /\ UNCHANGED <<manager, thread, poll, signals>>

\* Mutants: the poll thread is not waited for; a missing one is no error and the
\* handler goes on to log that.
JoinPollerAtOnce ==
    /\ Running("join")
    /\ \/ thread \in {"none", "created"} /\ Raise
       \/ thread \in {"running", "ended"} /\ Proceed("shutdown") /\ UNCHANGED main
    /\ UNCHANGED <<event, manager, thread, poll, signals>>
JoinPollerLogs ==
    /\ Running("join")
    /\ \/ thread \in {"none", "created"} /\ Proceed("log") /\ UNCHANGED main
       \/ thread = "ended" /\ Proceed("shutdown") /\ UNCHANGED main
    /\ UNCHANGED <<event, manager, thread, poll, signals>>

\* No _poll_thread yet, or it has not been started: the call raises.
JoinPoller ==
    /\ Running("join")
    /\ \/ thread \in {"none", "created"} /\ Raise
       \/ thread = "ended" /\ Proceed("shutdown") /\ UNCHANGED main
    /\ UNCHANGED <<event, manager, thread, poll, signals>>

ShutdownManager ==
    /\ Running("shutdown")
    /\ manager' = "down"
    /\ Proceed("exit")
    /\ UNCHANGED <<main, event, thread, poll, signals>>

SysExit ==
    /\ Running("exit")
    /\ Raise
    /\ UNCHANGED <<event, manager, thread, poll, signals>>

-----------------------------------------------------------------------------
(* The poll thread. *)

\* Mutant: the event is not looked at.
PollCheckIgnored ==
    /\ thread = "running"
    /\ poll = "check"
    /\ poll' = "pass"
    /\ UNCHANGED <<main, handlers, event, manager, thread, signals>>

\* is_set is a call to the manager process.
PollCheck ==
    /\ thread = "running"
    /\ poll = "check"
    /\ IF manager # "up" \/ event = "set"
       THEN thread' = "ended" /\ UNCHANGED poll
       ELSE poll' = "pass" /\ UNCHANGED thread
    /\ UNCHANGED <<main, handlers, event, manager, signals>>

\* A pass ends, or an answer of Raemis makes it raise.
PollPass ==
    /\ thread = "running"
    /\ poll = "pass"
    /\ \/ poll' = "sleep" /\ UNCHANGED thread
       \/ thread' = "ended" /\ UNCHANGED poll
    /\ UNCHANGED <<main, handlers, event, manager, signals>>

PollSleep ==
    /\ thread = "running"
    /\ poll = "sleep"
    /\ poll' = "check"
    /\ UNCHANGED <<main, handlers, event, manager, thread, signals>>

-----------------------------------------------------------------------------
Main == \/ Construct \/ StartManager \/ MakeEvent \/ ReadInventory \/ CreateThread
        \/ StartThread \/ JoinThread \/ Exit
        \/ SetStopEvent \/ JoinPoller \/ ShutdownManager \/ SysExit

Poller == PollCheck \/ PollPass \/ PollSleep

Over == main = "exited" /\ UNCHANGED vars

Next == Main \/ Poller \/ Signal \/ Over

Spec == Init /\ [][Next]_vars

\* Both threads are scheduled; the user need not press anything.
FairSpec == Spec /\ WF_vars(Main) /\ WF_vars(Poller)

-----------------------------------------------------------------------------
(* Properties. *)

\* Every variable has one of the values its comment gives.
TypeOK ==
    /\ main \in MainPlaces
    /\ handlers \in Seq(HandlerPlaces)
    /\ event \in {"none", "clear", "set"}
    /\ manager \in {"none", "up", "down"}
    /\ thread \in {"none", "created", "running", "ended"}
    /\ poll \in {"check", "pass", "sleep"}
    /\ signals \in 0..MaxSignals

\* The poll thread works with the manager's event and list: however often and
\* whenever Ctrl-C is pressed, shutdown never takes the manager away under it.
ManagerOutlivesPoller == thread = "running" => manager = "up"

\* After the first Ctrl-C the program ends, wherever it was: also when a second
\* one interrupts the handler, when shutdown raises for want of a poll thread, and
\* when that exception is swallowed while the inventory is read.
InterruptEnds == (signals > 0) ~> (main = "exited")

\* When the poll thread dies the program does not linger without it.
NoIdleProgram == (thread = "ended") ~> (main = "exited")
=============================================================================
