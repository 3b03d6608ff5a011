-------------------------- MODULE PollingAgentProofs --------------------------
(***************************************************************************)
(* Proofs about PollingAgent, for any number of signals.                   *)
(***************************************************************************)
EXTENDS PollingAgent, TLAPS

LEMMA RaiseType ==
    ASSUME TypeOK, Raise
    PROVE  handlers' \in Seq(HandlerPlaces) /\ main' \in MainPlaces
  BY DEF TypeOK, Raise, MainPlaces

LEMMA ProceedType ==
    ASSUME TypeOK, NEW from, Running(from), NEW place \in HandlerPlaces, Proceed(place)
    PROVE  handlers' \in Seq(HandlerPlaces)
  BY DEF TypeOK, Running, Proceed

\* Every variable keeps to the values its comment gives.
THEOREM TypeCorrect == Spec => []TypeOK
<1>1. Init => TypeOK
  BY SignalsAssumption DEF Init, TypeOK, MainPlaces
<1>2. TypeOK /\ [Next]_vars => TypeOK'
  <2> SUFFICES ASSUME TypeOK, [Next]_vars
               PROVE  TypeOK'
    OBVIOUS
  <2>1. CASE Construct \/ StartManager \/ MakeEvent \/ ReadInventory \/ CreateThread
             \/ StartThread \/ JoinThread \/ Exit
    BY <2>1 DEF TypeOK, MainPlaces, At, Construct, StartManager, MakeEvent, ReadInventory,
                CreateThread, StartThread, JoinThread, Exit
  <2>2. CASE SetStopEvent
    BY <2>2, RaiseType, ProceedType DEF TypeOK, HandlerPlaces, SetStopEvent
  <2>3. CASE JoinPoller
    BY <2>3, RaiseType, ProceedType DEF TypeOK, HandlerPlaces, JoinPoller
  <2>4. CASE ShutdownManager
    BY <2>4, ProceedType DEF TypeOK, HandlerPlaces, ShutdownManager
  <2>5. CASE SysExit
    BY <2>5, RaiseType DEF TypeOK, SysExit
  <2>6. CASE Poller
    BY <2>6 DEF TypeOK, Poller, PollCheck, PollPass, PollSleep
  <2>7. CASE Signal
    BY <2>7, SignalsAssumption DEF TypeOK, HandlerPlaces, Signal
  <2>8. CASE Over \/ UNCHANGED vars
    BY <2>8 DEF TypeOK, Over, vars
  <2> QED
    BY <2>1, <2>2, <2>3, <2>4, <2>5, <2>6, <2>7, <2>8 DEF Next, Main
<1> QED
  BY <1>1, <1>2, PTL DEF Spec

-----------------------------------------------------------------------------
(* The manager. *)

\* Between its start and the poll thread's the manager is up: until the thread has
\* been started no handler gets past the join.
StartupInv == main \in {"event", "inventory", "allocator", "start"} =>
                 manager = "up" /\ thread \in {"none", "created"}

\* A thread that has ended was started, so the main program is past its start.
ThreadInv == /\ thread \in {"running", "ended"} => main \in {"join", "exiting", "exited"}
             /\ main \in {"boot", "manager"} => thread = "none"

\* A handler that has come to the shutdown of the manager has waited for the
\* thread, which does not start again.
JoinedInv == \A k \in 1..Len(handlers) :
                handlers[k] \in {"shutdown", "exit"} => thread = "ended"

ManagerInv == StartupInv /\ ThreadInv /\ JoinedInv /\ ManagerOutlivesPoller

\* Raising removes the handlers and moves the main program only to its end.
LEMMA RaiseKeeps ==
    ASSUME ManagerInv, Raise, UNCHANGED <<manager, thread>>
    PROVE  ManagerInv'
  BY DEF ManagerInv, StartupInv, ThreadInv, JoinedInv, ManagerOutlivesPoller, Raise

\* A handler that has not come to the shutdown, or has waited for the thread,
\* may go to its next place.
LEMMA ProceedKeeps ==
    ASSUME TypeOK, ManagerInv, NEW from, Running(from), NEW place, Proceed(place),
           place \in {"shutdown", "exit"} => thread = "ended",
           UNCHANGED <<main, thread>>,
           thread # "ended" => UNCHANGED manager
    PROVE  ManagerInv'
<1>1. JoinedInv'
  BY DEF TypeOK, ManagerInv, JoinedInv, Running, Proceed
<1> QED
  BY <1>1 DEF ManagerInv, StartupInv, ThreadInv, ManagerOutlivesPoller

LEMMA ManagerStep ==
    ASSUME TypeOK, ManagerInv, [Next]_vars
    PROVE  ManagerInv'
<1> USE DEF StartupInv, ThreadInv, JoinedInv, ManagerOutlivesPoller
<1>1. CASE Construct \/ StartManager \/ MakeEvent \/ ReadInventory \/ CreateThread
           \/ StartThread \/ JoinThread \/ Exit
  BY <1>1 DEF TypeOK, ManagerInv, At, Construct, StartManager, MakeEvent, ReadInventory,
              CreateThread, StartThread, JoinThread, Exit
<1>2. CASE SetStopEvent
  BY <1>2, RaiseKeeps, ProceedKeeps DEF SetStopEvent
<1>3. CASE JoinPoller
  BY <1>3, RaiseKeeps, ProceedKeeps DEF JoinPoller
<1>4. CASE ShutdownManager
  <2>1. thread = "ended"
    BY <1>4 DEF TypeOK, ManagerInv, ShutdownManager, Running, Active
  <2> QED
    BY <1>4, <2>1, ProceedKeeps DEF ShutdownManager
<1>5. CASE SysExit
  BY <1>5, RaiseKeeps DEF SysExit
<1>6. CASE Poller
  BY <1>6 DEF ManagerInv, Poller, PollCheck, PollPass, PollSleep
<1>7. CASE Signal
  BY <1>7 DEF TypeOK, ManagerInv, Signal
<1>8. CASE Over \/ UNCHANGED vars
  BY <1>8 DEF ManagerInv, Over, vars
<1> QED
  BY <1>1, <1>2, <1>3, <1>4, <1>5, <1>6, <1>7, <1>8 DEF Next, Main

\* However often and whenever Ctrl-C is pressed, shutdown (polling_agent.py:62-68)
\* never takes the manager process away under the running poll thread.
THEOREM ManagerIsKept == Spec => []ManagerOutlivesPoller
<1>1. Init => ManagerInv
  BY DEF Init, ManagerInv, StartupInv, ThreadInv, JoinedInv, ManagerOutlivesPoller
<1>2. TypeOK /\ ManagerInv /\ [Next]_vars => ManagerInv'
  BY ManagerStep
<1>3. ManagerInv => ManagerOutlivesPoller
  BY DEF ManagerInv
<1> QED
  BY <1>1, <1>2, <1>3, TypeCorrect, PTL DEF Spec
=============================================================================
