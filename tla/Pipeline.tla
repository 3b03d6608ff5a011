------------------------------ MODULE Pipeline ------------------------------
(***************************************************************************)
(* The work pipeline, src/pipeline.py: functions started on a pool of      *)
(* threads or of processes, at once or after futures of earlier ones.      *)
(*                                                                         *)
(* A function that is to run after a future occupies a thread of the pool  *)
(* from the moment a thread takes it, and spins until the future is done.  *)
(* A future is named by its task, the place of its submission in the       *)
(* history of all submissions; Nobody's is the bare Future() that every    *)
(* construction leaves in cursor, and which nothing ever completes.        *)
(***************************************************************************)
EXTENDS Naturals, Sequences, FiniteSets

CONSTANTS
    Threads,     \* pool_size
    Processes,   \* max_workers of the process pool
    MaxTasks,    \* bound: tasks submitted
    MaxPools,    \* bound: constructions of Pipeline
    MaxFns       \* bound: functions given to one call of start_fns_after_future

ASSUME SizesAssumption == Threads \in Nat \ {0} /\ Processes \in Nat \ {0}
ASSUME BoundsAssumption == MaxTasks \in Nat /\ MaxPools \in Nat /\ MaxFns \in Nat

VARIABLES
    task,      \* the sequence of tasks submitted to an executor
    cursor,    \* self.cursor
    pools,     \* how many times Pipeline has been constructed: the executors in use
    defaults,  \* the length of start_fns_after_future's default lists
    calls      \* history: of each call, the future it returned and its functions' tasks

vars == <<task, cursor, pools, defaults, calls>>

Nobodys == 0
Tasks == 1..Len(task)
Futures == {Nobodys} \cup Tasks

Kinds == {"fn", "copy", "after", "merge"}
Executors == [of : Nat, what : {"thread", "process"}]
Size(e) == IF e.what = "thread" THEN Threads ELSE Processes
ThreadExec == [of |-> pools, what |-> "thread"]
ProcExec == [of |-> pools, what |-> "process"]

Done(f) == f \in Tasks /\ task[f].state = "done"

\* hangs: history, the task waits, through whatever tasks, for Nobody's future.
Task == [kind : Kinds, waits : SUBSET Nat, on : Executors, hangs : BOOLEAN,
         state : {"queued", "running", "done"}, failed : BOOLEAN]

New(kind, waits, on, hangs) ==
    [kind |-> kind, waits |-> waits, on |-> on, hangs |-> hangs,
     state |-> "queued", failed |-> FALSE]

Hangs(f) == f = Nobodys \/ (f \in Tasks /\ task[f].hangs)
AnyHangs(l) == \E f \in l : Hangs(f)

-----------------------------------------------------------------------------
(* The client. *)

\* The first construction.
Init ==
    /\ task = <<>>
    /\ cursor = Nobodys
    /\ pools = 1
    /\ defaults = 0
    /\ calls = {}

\* There is one instance, but __init__ runs again on it and replaces its executors;
\* those replaced finish what they were given.
Construct ==
    /\ pools < MaxPools
    /\ pools' = pools + 1
    /\ cursor' = Nobodys
    /\ UNCHANGED <<task, defaults, calls>>

\* The tasks of one call are submitted; cursor is the last one's future.
Submit(new) ==
    /\ Len(task) + Len(new) <= MaxTasks
    /\ task' = task \o new
    /\ cursor' = Len(task) + Len(new)

Returns(ret, fns) == calls' = calls \cup {[ret |-> ret, fns |-> fns]}

\* start_fn, and start_fn_in_executor on the threads: the function is submitted twice,
\* and the second future is returned.
StartFn ==
    /\ Submit(<<New("copy", {}, ThreadExec, FALSE), New("fn", {}, ThreadExec, FALSE)>>)
    /\ Returns(Len(task) + 2, {Len(task) + 1, Len(task) + 2})
    /\ UNCHANGED <<pools, defaults>>

\* start_fn_in_executor on the processes.
StartFnInProcess ==
    /\ Submit(<<New("fn", {}, ProcExec, FALSE)>>)
    /\ Returns(Len(task) + 1, {Len(task) + 1})
    /\ UNCHANGED <<pools, defaults>>

\* start_fn_after_future; start_fn_after_cursor with f = cursor.
StartFnAfterFuture(f) ==
    /\ Submit(<<New("after", {f}, ThreadExec, Hangs(f))>>)
    /\ Returns(Len(task) + 1, {Len(task) + 1})
    /\ UNCHANGED <<pools, defaults>>

\* Mutant: the function is submitted before the merge it waits for.
StartFnAfterListSwapped(l) ==
    /\ Submit(<<New("after", {Len(task) + 2}, ThreadExec, AnyHangs(l)),
                New("merge", l, ThreadExec, AnyHangs(l))>>)
    /\ Returns(Len(task) + 1, {Len(task) + 1})
    /\ UNCHANGED <<pools, defaults>>

\* start_fn_after_futures_list: a task merges the list's results, the function waits
\* for that task.
StartFnAfterList(l) ==
    /\ Submit(<<New("merge", l, ThreadExec, AnyHangs(l)),
                New("after", {Len(task) + 1}, ThreadExec, AnyHangs(l))>>)
    /\ Returns(Len(task) + 2, {Len(task) + 2})
    /\ UNCHANGED <<pools, defaults>>

\* start_fns_after_future with its default argument lists, which keep the entries the
\* first call appended: as many functions as that call had, or fewer, can be given.
StartFnsAfterFuture(f, n) ==
    /\ n <= defaults \/ defaults = 0
    /\ defaults' = IF defaults = 0 THEN n ELSE defaults
    /\ LET fns == (Len(task) + 1)..(Len(task) + n)
       IN /\ Submit([i \in 1..(n + 1) |->
                       IF i <= n THEN New("after", {f}, ThreadExec, Hangs(f))
                                 ELSE New("merge", fns, ThreadExec, Hangs(f))])
          /\ Returns(Len(task) + n + 1, fns)
    /\ UNCHANGED pools

\* With more functions than entries the call raises IndexError when it has
\* submitted as many as there are entries.
StartTooManyFns(f) ==
    /\ defaults > 0 /\ defaults < MaxFns
    /\ Submit([i \in 1..defaults |-> New("after", {f}, ThreadExec, Hangs(f))])
    /\ UNCHANGED <<pools, defaults, calls>>

-----------------------------------------------------------------------------
(* The executors. *)

On(e, state) == {i \in Tasks : task[i].on = e /\ task[i].state = state}

\* A worker is free, and the task is the first in the queue.
Startable(i) ==
    /\ i \in Tasks /\ task[i].state = "queued"
    /\ \A j \in On(task[i].on, "queued") : i <= j
    /\ Cardinality(On(task[i].on, "running")) < Size(task[i].on)

Take(i) ==
    /\ Startable(i)
    /\ task' = [task EXCEPT ![i].state = "running"]
    /\ UNCHANGED <<cursor, pools, defaults, calls>>

\* What the worker spins for has come.
Finishable(i) ==
    /\ i \in Tasks /\ task[i].state = "running"
    /\ \A f \in task[i].waits : Done(f)

Finish(i, failed) ==
    /\ task' = [task EXCEPT ![i].state = "done", ![i].failed = failed]
    /\ UNCHANGED <<cursor, pools, defaults, calls>>

\* The function returns or raises, whatever became of the future it waited for.
RunFn(i) ==
    /\ Finishable(i) /\ task[i].kind # "merge"
    /\ \E failed \in BOOLEAN : Finish(i, failed)

\* Mutant: one future of the list is enough.
MergeAny(i) ==
    /\ i \in Tasks /\ task[i].state = "running" /\ task[i].kind = "merge"
    /\ \E f \in task[i].waits : Done(f) /\ Finish(i, task[f].failed)

\* The results are gathered; the first that is an exception is raised.
Merge(i) ==
    /\ Finishable(i) /\ task[i].kind = "merge"
    /\ Finish(i, \E f \in task[i].waits : task[f].failed)

-----------------------------------------------------------------------------
Lists == {l \in SUBSET Futures : Cardinality(l) \in 1..2}

Client == \/ Construct \/ StartFn \/ StartFnInProcess
          \/ \E f \in Futures : StartFnAfterFuture(f) \/ StartTooManyFns(f)
          \/ \E f \in Futures, n \in 1..MaxFns : StartFnsAfterFuture(f, n)
          \/ \E l \in Lists : StartFnAfterList(l)
Worker(i) == Take(i) \/ RunFn(i) \/ Merge(i)
Next == Client \/ \E i \in Tasks : Worker(i)

Spec == Init /\ [][Next]_vars

-----------------------------------------------------------------------------
(* Properties. *)

TypeOK ==
    /\ task \in Seq(Task)
    /\ cursor \in Nat
    /\ pools \in Nat
    /\ defaults \in Nat

Unfinished == {i \in Tasks : task[i].state # "done" /\ ~task[i].hangs}
Hanging(e) == {i \in Tasks : task[i].on = e /\ task[i].hangs}

\* Spinning tasks hold workers, and yet the pools never starve: while fewer tasks than
\* a pool has workers hang on a future that nothing completes, there is always a task
\* that a worker can take or an unfinished one whose worker need not spin any more.
NoStarvation ==
    (\A i \in Tasks : Cardinality(Hanging(task[i].on)) < Size(task[i].on)) /\ Unfinished # {}
        => \/ \E i \in Tasks : Startable(i)
           \/ \E i \in Unfinished : Finishable(i)

\* When the future a call returned is done, all functions it was given have been run,
\* and if it is done without an exception none of them raised one; but not so the
\* first of the two copies start_fn makes.
CallDone ==
    \A c \in calls : Done(c.ret) =>
        \A i \in c.fns : \/ task[i].kind = "copy"
                         \/ Done(i) /\ (task[i].failed => task[c.ret].failed)
=============================================================================
