--------------------------- MODULE PipelineProofs ---------------------------
(***************************************************************************)
(* Proofs about Pipeline, for pools of any size, any number of tasks and   *)
(* any number of constructions.                                            *)
(*                                                                         *)
(* Threads that spin for a future do not exhaust the pool because a future *)
(* exists only after its task was submitted: what a task waits for is      *)
(* earlier than the task (WaitsEarlier), and an executor takes its tasks   *)
(* in the order of submission (InOrder).  So the earliest unfinished task  *)
(* waits for nothing that is still to come.                                *)
(***************************************************************************)
EXTENDS Pipeline, FiniteSetTheorems, SequenceTheorems, WellFoundedInduction, TLAPS

-----------------------------------------------------------------------------
(* Numbers. *)

\* A set of numbers that is not empty has a least element.
LEMMA LeastNumber ==
    ASSUME NEW S \in SUBSET Nat, S # {}
    PROVE  \E i \in S : \A j \in S : i <= j
<1> DEFINE Less == OpToRel(<, Nat)
<1>1. IsWellFoundedOn(Less, Nat)
  BY NatLessThanWellFounded
<1>2. Less = {pair \in Nat \X Nat : pair[1] < pair[2]}
  BY DEF OpToRel
<1> HIDE DEF Less
<1>3. ASSUME NEW i \in S, NEW j \in S, <<j, i>> \notin Less
      PROVE  i <= j
  BY <1>2, <1>3
<1>4. PICK i \in S : \A j \in S : <<j, i>> \notin Less
  BY <1>1, WFMin
<1>5. \A j \in S : i <= j
  BY <1>3, <1>4
<1> QED
  BY <1>5

-----------------------------------------------------------------------------
(* The inductive invariant. *)

WaitsEarlier == \A i \in Tasks : \A f \in task[i].waits : f \in 0..(i - 1)

HangsIfWaitsDo == \A i \in Tasks : \A f \in task[i].waits : Hangs(f) => task[i].hangs

InOrder == \A i, j \in Tasks :
    task[i].on = task[j].on /\ task[i].state = "queued" /\ task[j].state # "queued" => j < i

IInv == TypeOK /\ WaitsEarlier /\ HangsIfWaitsDo /\ InOrder

\* Tasks as the client submits them: queued, waiting for earlier tasks only, and
\* hanging if one of those does.
WellFormed(new) ==
    LET all == task \o new
    IN \A i \in 1..Len(new) :
         /\ new[i].state = "queued"
         /\ \A f \in new[i].waits :
               /\ f \in 0..(Len(task) + i - 1)
               /\ f = Nobodys \/ all[f].hangs => new[i].hangs

LEMMA ExecutorsType ==
    ASSUME TypeOK
    PROVE  ThreadExec \in Executors /\ ProcExec \in Executors
BY DEF TypeOK, ThreadExec, ProcExec, Executors

LEMMA FuturesAreEarlier ==
    ASSUME TypeOK
    PROVE  Len(task) \in Nat /\ Futures = 0..Len(task)
BY DEF TypeOK, Futures, Nobodys, Tasks

\* Submission keeps the invariant: all that was there is earlier.
LEMMA SubmitKeeps ==
    ASSUME IInv, NEW new \in Seq(Task), Submit(new), WellFormed(new),
           pools' \in Nat, defaults' \in Nat
    PROVE  IInv'
<1> DEFINE all == task \o new
<1>1. task' = all /\ all \in Seq(Task) /\ Len(all) = Len(task) + Len(new)
  BY DEF IInv, TypeOK, Submit
<1>2. \A i \in 1..Len(task) : all[i] = task[i]
  BY DEF IInv, TypeOK
<1>3. \A i \in 1..Len(new) : all[Len(task) + i] = new[i]
  BY DEF IInv, TypeOK
<1>4. Len(task) \in Nat /\ Len(new) \in Nat
  BY DEF IInv, TypeOK
<1>5. ASSUME NEW i \in 1..Len(all), i \notin 1..Len(task)
      PROVE  /\ i - Len(task) \in 1..Len(new) /\ i > Len(task)
             /\ all[i] = new[i - Len(task)]
  BY <1>1, <1>3, <1>4, <1>5
<1>6. TypeOK'
  BY <1>1, <1>4 DEF IInv, TypeOK, Submit
<1> HIDE DEF all
<1>7. WaitsEarlier'
  <2> SUFFICES ASSUME NEW i \in 1..Len(all), NEW f \in all[i].waits
               PROVE  f \in 0..(i - 1)
    BY <1>1 DEF WaitsEarlier, Tasks
  <2>1. CASE i \in 1..Len(task)
    BY <1>2, <2>1 DEF IInv, WaitsEarlier, Tasks
  <2>2. CASE i \notin 1..Len(task)
    <3>1. f \in 0..(Len(task) + (i - Len(task)) - 1)
      BY <1>5, <2>2 DEF WellFormed
    <3> QED
      BY <3>1, <1>1, <1>4
  <2> QED
    BY <2>1, <2>2
<1>8. HangsIfWaitsDo'
  <2> SUFFICES ASSUME NEW i \in 1..Len(all), NEW f \in all[i].waits,
                      f = Nobodys \/ (f \in 1..Len(all) /\ all[f].hangs)
               PROVE  all[i].hangs
    BY <1>1 DEF HangsIfWaitsDo, Tasks, Hangs
  <2>1. CASE i \in 1..Len(task)
    <3>1. f \in 0..(i - 1) /\ all[i] = task[i]
      BY <1>2, <2>1 DEF IInv, WaitsEarlier, Tasks
    <3>2. f # Nobodys => f \in 1..Len(task) /\ all[f] = task[f]
      BY <1>2, <1>4, <2>1, <3>1 DEF Nobodys
    <3> QED
      BY <2>1, <3>1, <3>2 DEF IInv, HangsIfWaitsDo, Tasks, Hangs
  <2>2. CASE i \notin 1..Len(task)
    BY <1>5, <2>2 DEF WellFormed, all
  <2> QED
    BY <2>1, <2>2
<1>9. InOrder'
  <2> SUFFICES ASSUME NEW i \in 1..Len(all), NEW j \in 1..Len(all), all[i].on = all[j].on,
                      all[i].state = "queued", all[j].state # "queued"
               PROVE  j < i
    BY <1>1 DEF InOrder, Tasks
  <2>1. j \in 1..Len(task)
    BY <1>5 DEF WellFormed
  <2>2. CASE i \in 1..Len(task)
    BY <1>2, <2>1, <2>2 DEF IInv, InOrder, Tasks
  <2>3. CASE i \notin 1..Len(task)
    BY <1>4, <1>5, <2>1, <2>3
  <2> QED
    BY <2>2, <2>3
<1> QED
  BY <1>6, <1>7, <1>8, <1>9 DEF IInv

\* One task passes from state to state.
LEMMA WorkerKeeps ==
    ASSUME IInv, NEW i \in Tasks, Worker(i)
    PROVE  IInv'
<1> USE DEF IInv, Tasks
<1>1. Len(task) \in Nat /\ DOMAIN task = 1..Len(task)
  BY DEF TypeOK
<1>2. \E t \in Task : /\ task' = [task EXCEPT ![i] = t]
                      /\ t.waits = task[i].waits /\ t.on = task[i].on
                      /\ t.hangs = task[i].hangs /\ t.state # "queued"
                      /\ UNCHANGED <<cursor, pools, defaults>>
  <2> task[i] \in Task
    BY DEF TypeOK
  <2>1. CASE Take(i)
    <3> DEFINE t == [task[i] EXCEPT !.state = "running"]
    <3>1. t \in Task /\ t.waits = task[i].waits /\ t.on = task[i].on
          /\ t.hangs = task[i].hangs /\ t.state # "queued"
      BY DEF Task
    <3>2. task' = [task EXCEPT ![i] = t]
      BY <2>1 DEF Take
    <3> QED
      BY <2>1, <3>1, <3>2 DEF Take
  <2>2. ASSUME NEW failed \in BOOLEAN, Finish(i, failed)
        PROVE  \E t \in Task : /\ task' = [task EXCEPT ![i] = t]
                      /\ t.waits = task[i].waits /\ t.on = task[i].on
                      /\ t.hangs = task[i].hangs /\ t.state # "queued"
                      /\ UNCHANGED <<cursor, pools, defaults>>
    <3> DEFINE t == [task[i] EXCEPT !.state = "done", !.failed = failed]
    <3>1. t \in Task /\ t.waits = task[i].waits /\ t.on = task[i].on
          /\ t.hangs = task[i].hangs /\ t.state # "queued"
      BY DEF Task
    <3>2. task' = [task EXCEPT ![i] = t]
      BY <1>1, <2>2 DEF Finish
    <3> QED
      BY <2>2, <3>1, <3>2 DEF Finish
  <2>3. CASE RunFn(i)
    BY <2>2, <2>3 DEF RunFn
  <2>4. CASE Merge(i)
    <3>1. (\E f \in task[i].waits : task[f].failed) \in BOOLEAN
      OBVIOUS
    <3> QED
      BY <2>2, <2>4, <3>1 DEF Merge
  <2> QED
    BY <2>1, <2>3, <2>4 DEF Worker
<1>3. /\ task' \in Seq(Task) /\ Len(task') = Len(task)
      /\ \A j \in Tasks : /\ task'[j].waits = task[j].waits
                          /\ task'[j].on = task[j].on
                          /\ task'[j].hangs = task[j].hangs
                          /\ j # i => task'[j] = task[j]
      /\ task'[i].state # "queued"
      /\ UNCHANGED <<cursor, pools, defaults>>
  BY <1>1, <1>2 DEF TypeOK
<1>4. TypeOK'
  BY <1>3 DEF TypeOK
<1>5. WaitsEarlier' /\ HangsIfWaitsDo'
  BY <1>3 DEF WaitsEarlier, HangsIfWaitsDo, Hangs
<1>6. InOrder'
  <2> SUFFICES ASSUME NEW k \in Tasks, NEW j \in Tasks, task[k].on = task[j].on,
                      task'[k].state = "queued", task'[j].state # "queued"
               PROVE  j < k
    BY <1>3 DEF InOrder
  <2>1. k # i /\ task[k].state = "queued"
    BY <1>3
  <2>2. CASE task[j].state # "queued"
    BY <2>1, <2>2 DEF InOrder
  <2>3. CASE task[j].state = "queued"
    <3>1. j = i /\ Take(i)
      BY <1>3, <2>3 DEF Worker, RunFn, Merge, Finishable
    <3>2. i <= k
      BY <2>1, <3>1 DEF Take, Startable, On
    <3> QED
      BY <2>1, <3>1, <3>2
  <2> QED
    BY <2>2, <2>3
<1> QED
  BY <1>4, <1>5, <1>6

-----------------------------------------------------------------------------
(* The client's calls submit well-formed tasks. *)

LEMMA CallKeeps ==
    ASSUME IInv, NEW new \in Seq(Task), Submit(new), WellFormed(new), UNCHANGED <<pools, defaults>>
    PROVE  IInv'
BY SubmitKeeps DEF IInv, TypeOK

LEMMA StartFnKeeps ==
    ASSUME IInv, StartFn
    PROVE  IInv'
<1> DEFINE t == New("copy", {}, ThreadExec, FALSE)
           u == New("fn", {}, ThreadExec, FALSE)
           new == <<t, u>>
<1>1. {"copy", "fn"} \subseteq Kinds /\ {} \in SUBSET Nat /\ ThreadExec \in Executors
  BY ExecutorsType DEF IInv, Kinds
<1>2. /\ t \in Task /\ t.state = "queued" /\ t.waits = {}
      /\ u \in Task /\ u.state = "queued" /\ u.waits = {}
  BY <1>1 DEF New, Task
<1>3. Submit(new) /\ UNCHANGED <<pools, defaults>>
  BY DEF StartFn
<1> HIDE DEF t, u
<1>4. new \in Seq(Task) /\ WellFormed(new)
  BY <1>2 DEF WellFormed
<1> QED
  BY <1>3, <1>4, CallKeeps

LEMMA StartFnInProcessKeeps ==
    ASSUME IInv, StartFnInProcess
    PROVE  IInv'
<1> DEFINE t == New("fn", {}, ProcExec, FALSE)
           new == <<t>>
<1>1. "fn" \in Kinds /\ {} \in SUBSET Nat /\ ProcExec \in Executors
  BY ExecutorsType DEF IInv, Kinds
<1>2. t \in Task /\ t.state = "queued" /\ t.waits = {}
  BY <1>1 DEF New, Task
<1>3. Submit(new) /\ UNCHANGED <<pools, defaults>>
  BY DEF StartFnInProcess
<1> HIDE DEF t
<1>4. new \in Seq(Task) /\ WellFormed(new)
  BY <1>2 DEF WellFormed
<1> QED
  BY <1>3, <1>4, CallKeeps

\* A future that was there names the same task after a submission.
LEMMA OldFutures ==
    ASSUME TypeOK, NEW new \in Seq(Task), NEW f \in Futures
    PROVE  f = Nobodys \/ (task \o new)[f].hangs => Hangs(f)
<1>1. f \in 0..Len(task) /\ Len(task) \in Nat /\ task \in Seq(Task)
  BY FuturesAreEarlier DEF TypeOK
<1>2. f # Nobodys => f \in Tasks /\ (task \o new)[f] = task[f]
  BY <1>1 DEF Nobodys, Tasks
<1> QED
  BY <1>2 DEF Hangs

\* The task of a function that waits for f.
LEMMA AfterIsTask ==
    ASSUME TypeOK, NEW f \in Nat
    PROVE  LET t == New("after", {f}, ThreadExec, Hangs(f))
           IN t \in Task /\ t.state = "queued" /\ t.waits = {f} /\ (Hangs(f) => t.hangs)
<1>1. "after" \in Kinds /\ {f} \in SUBSET Nat /\ ThreadExec \in Executors
  BY ExecutorsType DEF Kinds
<1>2. Hangs(f) \in BOOLEAN
  BY DEF Hangs
<1> QED
  BY <1>1, <1>2 DEF New, Task

LEMMA StartFnAfterFutureKeeps ==
    ASSUME IInv, NEW f \in Futures, StartFnAfterFuture(f)
    PROVE  IInv'
<1> DEFINE t == New("after", {f}, ThreadExec, Hangs(f))
           new == <<t>>
<1>1. TypeOK /\ f \in 0..Len(task) /\ f \in Nat /\ Len(task) \in Nat
  BY FuturesAreEarlier DEF IInv
<1>2. t \in Task /\ t.state = "queued" /\ t.waits = {f} /\ (Hangs(f) => t.hangs)
  BY <1>1, AfterIsTask
<1>3. Submit(new) /\ UNCHANGED <<pools, defaults>>
  BY DEF StartFnAfterFuture
<1> HIDE DEF t
<1>4. new \in Seq(Task) /\ Len(new) = 1 /\ new[1] = t
  BY <1>2
<1>5. f = Nobodys \/ (task \o new)[f].hangs => t.hangs
  BY <1>1, <1>2, <1>4, OldFutures
<1> HIDE DEF new
<1>6. WellFormed(new)
  <2> SUFFICES ASSUME NEW i \in 1..1, NEW g \in new[i].waits
               PROVE  /\ g \in 0..(Len(task) + i - 1)
                      /\ g = Nobodys \/ (task \o new)[g].hangs => new[i].hangs
    <3>1. \A i \in 1..1 : new[i].state = "queued"
      BY <1>2, <1>4
    <3> QED
      BY <1>4, <3>1 DEF WellFormed
  <2>1. i = 1 /\ g = f /\ new[i] = t
    BY <1>2, <1>4
  <2>2. g \in 0..(Len(task) + i - 1)
    BY <1>1, <1>2, <2>1
  <2>3. g = Nobodys \/ (task \o new)[g].hangs => new[i].hangs
    BY <1>5, <2>1
  <2> QED
    BY <2>2, <2>3
<1> QED
  BY <1>3, <1>4, <1>6, CallKeeps

LEMMA StartFnAfterListKeeps ==
    ASSUME IInv, NEW l \in SUBSET Futures, StartFnAfterList(l)
    PROVE  IInv'
<1> DEFINE t == New("merge", l, ThreadExec, AnyHangs(l))
           u == New("after", {Len(task) + 1}, ThreadExec, AnyHangs(l))
           new == <<t, u>>
<1>1. TypeOK /\ Futures = 0..Len(task) /\ Len(task) \in Nat /\ task \in Seq(Task)
  BY FuturesAreEarlier DEF IInv, TypeOK
<1>2. /\ {"merge", "after"} \subseteq Kinds /\ ThreadExec \in Executors
      /\ l \in SUBSET Nat /\ {Len(task) + 1} \in SUBSET Nat
  BY <1>1, ExecutorsType DEF Kinds
<1>3. AnyHangs(l) \in BOOLEAN
  BY DEF AnyHangs
<1>4. /\ t \in Task /\ t.state = "queued" /\ t.waits = l /\ (AnyHangs(l) => t.hangs)
      /\ u \in Task /\ u.state = "queued" /\ u.waits = {Len(task) + 1}
      /\ (t.hangs => u.hangs)
  BY <1>2, <1>3 DEF New, Task
<1>5. Submit(new) /\ UNCHANGED <<pools, defaults>>
  BY DEF StartFnAfterList
<1> HIDE DEF t, u
<1>6. new \in Seq(Task) /\ Len(new) = 2 /\ new[1] = t /\ new[2] = u
  BY <1>4
<1>7. ASSUME NEW f \in l, f = Nobodys \/ (task \o new)[f].hangs
      PROVE  t.hangs
  <2>1. Hangs(f)
    BY <1>1, <1>6, <1>7, OldFutures
  <2>2. AnyHangs(l)
    BY <2>1 DEF AnyHangs
  <2> QED
    BY <1>4, <2>2
<1> HIDE DEF new
<1>8. (task \o new)[Len(task) + 1] = t
  <2>1. 1 \in 1..Len(new) /\ Len(task) + 1 \in 1..(Len(task) + Len(new))
        /\ ~(Len(task) + 1 <= Len(task)) /\ (Len(task) + 1) - Len(task) = 1
    BY <1>1, <1>6
  <2>2. (task \o new)[Len(task) + 1] = new[(Len(task) + 1) - Len(task)]
    BY <1>1, <1>6, <2>1
  <2> QED
    BY <1>6, <2>1, <2>2
<1>9. WellFormed(new)
  <2> SUFFICES ASSUME NEW i \in 1..2, NEW f \in new[i].waits
               PROVE  /\ f \in 0..(Len(task) + i - 1)
                      /\ f = Nobodys \/ (task \o new)[f].hangs => new[i].hangs
    <3>1. \A i \in 1..2 : new[i].state = "queued"
      BY <1>4, <1>6
    <3> QED
      BY <1>6, <3>1 DEF WellFormed
  <2>1. CASE i = 1
    <3>1. new[i] = t /\ f \in l
      BY <1>4, <1>6, <2>1
    <3>2. f \in 0..(Len(task) + i - 1)
      BY <1>1, <2>1, <3>1
    <3> QED
      BY <1>7, <3>1, <3>2
  <2>2. CASE i = 2
    <3>1. new[i] = u /\ f = Len(task) + 1
      BY <1>4, <1>6, <2>2
    <3>2. f \in 0..(Len(task) + i - 1) /\ f # Nobodys
      BY <1>1, <2>2, <3>1 DEF Nobodys
    <3> QED
      BY <1>4, <1>8, <3>1, <3>2
  <2>3. i = 1 \/ i = 2
    OBVIOUS
  <2> QED
    BY <2>1, <2>2, <2>3
<1> QED
  BY <1>5, <1>6, <1>9, CallKeeps

LEMMA StartFnsAfterFutureKeeps ==
    ASSUME IInv, NEW f \in Futures, NEW n \in Nat, StartFnsAfterFuture(f, n)
    PROVE  IInv'
<1> DEFINE fns == (Len(task) + 1)..(Len(task) + n)
           t == New("after", {f}, ThreadExec, Hangs(f))
           u == New("merge", fns, ThreadExec, Hangs(f))
           new == [i \in 1..(n + 1) |-> IF i <= n THEN t ELSE u]
<1>1. TypeOK /\ f \in 0..Len(task) /\ f \in Nat /\ Len(task) \in Nat /\ task \in Seq(Task)
  BY FuturesAreEarlier DEF IInv, TypeOK
<1>2. "merge" \in Kinds /\ ThreadExec \in Executors /\ fns \in SUBSET Nat
  BY <1>1, ExecutorsType DEF Kinds
<1>3. Hangs(f) \in BOOLEAN
  BY DEF Hangs
<1>4. t \in Task /\ t.state = "queued" /\ t.waits = {f} /\ (Hangs(f) => t.hangs)
  BY <1>1, AfterIsTask
<1>5. u \in Task /\ u.state = "queued" /\ u.waits = fns /\ (t.hangs => u.hangs)
  BY <1>2, <1>3 DEF New, Task
<1>6. Submit(new) /\ pools' \in Nat /\ defaults' \in Nat
  BY DEF StartFnsAfterFuture, IInv, TypeOK
<1> HIDE DEF t, u
<1>7. /\ new \in Seq(Task) /\ Len(new) = n + 1
      /\ \A i \in 1..(n + 1) : new[i] = IF i <= n THEN t ELSE u
  BY <1>4, <1>5
<1>8. f = Nobodys \/ (task \o new)[f].hangs => t.hangs
  BY <1>1, <1>4, <1>7, OldFutures
<1> HIDE DEF new
<1>9. ASSUME NEW g \in fns
      PROVE  g # Nobodys /\ (task \o new)[g] = t
  <2>1. g \in Nat /\ g > Len(task) /\ g - Len(task) \in 1..(n + 1) /\ g - Len(task) <= n
        /\ g \in 1..(Len(task) + Len(new))
    BY <1>1, <1>7
  <2>2. (task \o new)[g] = new[g - Len(task)]
    BY <1>1, <1>7, <2>1
  <2> QED
    BY <1>1, <1>7, <2>1, <2>2 DEF Nobodys
<1>10. WellFormed(new)
  <2> SUFFICES ASSUME NEW i \in 1..(n + 1), NEW g \in new[i].waits
               PROVE  /\ g \in 0..(Len(task) + i - 1)
                      /\ g = Nobodys \/ (task \o new)[g].hangs => new[i].hangs
    <3>1. \A i \in 1..(n + 1) : new[i].state = "queued"
      BY <1>4, <1>5, <1>7
    <3> QED
      BY <1>7, <3>1 DEF WellFormed
  <2>1. CASE i <= n
    <3>1. new[i] = t /\ g = f
      BY <1>4, <1>7, <2>1
    <3>2. g \in 0..(Len(task) + i - 1)
      BY <1>1, <3>1
    <3> QED
      BY <1>8, <3>1, <3>2
  <2>2. CASE ~(i <= n)
    <3>1. i = n + 1 /\ new[i] = u /\ g \in fns
      BY <1>5, <1>7, <2>2
    <3>2. g \in 0..(Len(task) + i - 1)
      BY <1>1, <3>1
    <3> QED
      BY <1>5, <1>9, <3>1, <3>2
  <2> QED
    BY <2>1, <2>2
<1> QED
  BY <1>6, <1>7, <1>10, SubmitKeeps

LEMMA StartTooManyFnsKeeps ==
    ASSUME IInv, NEW f \in Futures, StartTooManyFns(f)
    PROVE  IInv'
<1> DEFINE t == New("after", {f}, ThreadExec, Hangs(f))
           new == [i \in 1..defaults |-> t]
<1>1. TypeOK /\ f \in 0..Len(task) /\ f \in Nat /\ Len(task) \in Nat /\ defaults \in Nat
  BY FuturesAreEarlier DEF IInv, TypeOK
<1>2. t \in Task /\ t.state = "queued" /\ t.waits = {f} /\ (Hangs(f) => t.hangs)
  BY <1>1, AfterIsTask
<1>3. Submit(new) /\ UNCHANGED <<pools, defaults>>
  BY DEF StartTooManyFns
<1> HIDE DEF t
<1>4. new \in Seq(Task) /\ Len(new) = defaults /\ \A i \in 1..defaults : new[i] = t
  BY <1>1, <1>2
<1>5. f = Nobodys \/ (task \o new)[f].hangs => t.hangs
  BY <1>1, <1>2, <1>4, OldFutures
<1> HIDE DEF new
<1>6. WellFormed(new)
  <2> SUFFICES ASSUME NEW i \in 1..defaults, NEW g \in new[i].waits
               PROVE  /\ g \in 0..(Len(task) + i - 1)
                      /\ g = Nobodys \/ (task \o new)[g].hangs => new[i].hangs
    <3>1. \A i \in 1..defaults : new[i].state = "queued"
      BY <1>2, <1>4
    <3> QED
      BY <1>4, <3>1 DEF WellFormed
  <2>1. g = f /\ new[i] = t
    BY <1>2, <1>4
  <2>2. g \in 0..(Len(task) + i - 1)
    BY <1>1, <1>2, <2>1
  <2>3. g = Nobodys \/ (task \o new)[g].hangs => new[i].hangs
    BY <1>5, <2>1
  <2> QED
    BY <2>2, <2>3
<1> QED
  BY <1>3, <1>4, <1>6, CallKeeps

-----------------------------------------------------------------------------
(* The specification keeps the invariant. *)

LEMMA InitIInv ==
    ASSUME Init
    PROVE  IInv
BY DEF Init, IInv, TypeOK, WaitsEarlier, HangsIfWaitsDo, InOrder, Tasks, Nobodys

LEMMA StutterKeeps ==
    ASSUME IInv, pools' \in Nat, cursor' \in Nat, UNCHANGED <<task, defaults>>
    PROVE  IInv'
BY DEF IInv, TypeOK, WaitsEarlier, HangsIfWaitsDo, InOrder, Tasks, Hangs

LEMMA ClientKeeps ==
    ASSUME IInv, Client
    PROVE  IInv'
<1>1. CASE Construct
  BY <1>1, StutterKeeps DEF Construct, Nobodys, IInv, TypeOK
<1>2. CASE StartFn
  BY <1>2, StartFnKeeps
<1>3. CASE StartFnInProcess
  BY <1>3, StartFnInProcessKeeps
<1>4. ASSUME NEW f \in Futures, StartFnAfterFuture(f) \/ StartTooManyFns(f)
      PROVE  IInv'
  BY <1>4, StartFnAfterFutureKeeps, StartTooManyFnsKeeps
<1>5. ASSUME NEW f \in Futures, NEW n \in 1..MaxFns, StartFnsAfterFuture(f, n)
      PROVE  IInv'
  <2>1. n \in Nat
    BY BoundsAssumption
  <2> QED
    BY <1>5, <2>1, StartFnsAfterFutureKeeps
<1>6. ASSUME NEW l \in Lists, StartFnAfterList(l)
      PROVE  IInv'
  BY <1>6, StartFnAfterListKeeps DEF Lists
<1> QED
  BY <1>1, <1>2, <1>3, <1>4, <1>5, <1>6 DEF Client

\* What a task waits for is earlier, hanging passes on to all that wait, and every
\* executor has taken its tasks in the order of submission: the spinning of workers
\* never changes that.
THEOREM InvariantHolds == Spec => []IInv
<1>1. Init => IInv
  BY InitIInv
<1>2. IInv /\ [Next]_vars => IInv'
  <2> SUFFICES ASSUME IInv, [Next]_vars PROVE IInv'
    OBVIOUS
  <2>1. CASE Client
    BY <2>1, ClientKeeps
  <2>2. CASE \E i \in Tasks : Worker(i)
    BY <2>2, WorkerKeeps
  <2>3. CASE UNCHANGED vars
    BY <2>3, StutterKeeps DEF vars, IInv, TypeOK
  <2> QED
    BY <2>1, <2>2, <2>3 DEF Next
<1> QED
  BY <1>1, <1>2, PTL DEF Spec

-----------------------------------------------------------------------------
(* No starvation. *)

\* The tasks of a set are finitely many.
LEMMA TasksFinite ==
    ASSUME TypeOK, NEW S \in SUBSET Tasks
    PROVE  IsFiniteSet(S) /\ Cardinality(S) \in Nat
<1>1. IsFiniteSet(1..Len(task))
  BY FS_Interval DEF TypeOK
<1>2. IsFiniteSet(S)
  BY <1>1, FS_Subset DEF Tasks
<1> QED
  BY <1>2, FS_CardinalityType

\* The earliest unfinished task that does not hang waits for nothing unfinished.
LEMMA EarliestWaitsForDone ==
    ASSUME IInv, NEW i \in Unfinished, \A j \in Unfinished : i <= j
    PROVE  \A f \in task[i].waits : Done(f)
<1> SUFFICES ASSUME NEW f \in task[i].waits PROVE Done(f)
  OBVIOUS
<1>1. i \in 1..Len(task) /\ ~task[i].hangs /\ Len(task) \in Nat
  BY DEF Unfinished, Tasks, IInv, TypeOK
<1>2. f \in 0..(i - 1) /\ ~Hangs(f)
  BY <1>1 DEF IInv, WaitsEarlier, HangsIfWaitsDo, Tasks
<1>3. f \in Tasks /\ ~task[f].hangs
  BY <1>1, <1>2 DEF Hangs, Nobodys, Tasks
<1>4. f \notin Unfinished
  BY <1>1, <1>2
<1> QED
  BY <1>3, <1>4 DEF Done, Unfinished

\* While fewer tasks hang than the executor has workers, the first task in the queue in
\* which it stands, or one before it, can be taken.
LEMMA QueueMoves ==
    ASSUME IInv, NEW i \in Unfinished, \A j \in Unfinished : i <= j,
           task[i].state = "queued",
           Cardinality(Hanging(task[i].on)) < Size(task[i].on)
    PROVE  \E k \in Tasks : Startable(k)
<1> DEFINE e == task[i].on
           queue == On(e, "queued")
<1>1. TypeOK /\ i \in Tasks /\ i \in queue /\ queue \in SUBSET Nat
  BY DEF Unfinished, On, Tasks, IInv, TypeOK
<1>2. PICK k \in queue : \A j \in queue : k <= j
  BY <1>1, LeastNumber
<1>3. k \in Tasks /\ task[k].on = e /\ task[k].state = "queued" /\ k <= i
  BY <1>1, <1>2 DEF On
<1>4. ASSUME NEW j \in On(e, "running")
      PROVE  j \in Hanging(e)
  <2>1. j \in Tasks /\ task[j].on = e /\ task[j].state = "running"
    BY <1>4 DEF On
  <2>2. j < k
    BY <1>3, <2>1 DEF IInv, InOrder
  <2>3. j \notin Unfinished
    BY <1>1, <1>3, <2>1, <2>2 DEF Tasks, TypeOK
  <2> QED
    BY <2>1, <2>3 DEF Unfinished, Hanging
<1>5. On(e, "running") \subseteq Hanging(e) /\ Hanging(e) \subseteq Tasks
  BY <1>4 DEF Hanging
<1>6. Cardinality(On(e, "running")) <= Cardinality(Hanging(e))
  BY <1>1, <1>5, TasksFinite, FS_Subset
<1>7. Cardinality(On(e, "running")) \in Nat /\ Cardinality(Hanging(e)) \in Nat
  BY <1>1, <1>5, TasksFinite
<1>8. Size(e) \in Nat
  BY SizesAssumption DEF Size
<1>9. Cardinality(On(e, "running")) < Size(e)
  BY <1>6, <1>7, <1>8
<1> QED
  BY <1>2, <1>3, <1>9 DEF Startable

\* The pools never starve, whatever their size, however many tasks wait for each other
\* and in whatever order the calls come: spinning workers are only ever waiting for
\* tasks that a worker has already taken, or for the future that nothing completes.
THEOREM PoolsNeverStarve == Spec => []NoStarvation
<1>1. IInv => NoStarvation
  <2> SUFFICES ASSUME IInv, Unfinished # {},
                      \A i \in Tasks : Cardinality(Hanging(task[i].on)) < Size(task[i].on)
               PROVE  \/ \E i \in Tasks : Startable(i)
                      \/ \E i \in Unfinished : Finishable(i)
    BY DEF NoStarvation
  <2>1. Unfinished \in SUBSET Nat
    BY DEF Unfinished, Tasks, IInv, TypeOK
  <2>2. PICK i \in Unfinished : \A j \in Unfinished : i <= j
    BY <2>1, LeastNumber
  <2>3. i \in Tasks /\ task[i].state # "done" /\ task[i] \in Task
    BY DEF Unfinished, Tasks, IInv, TypeOK
  <2>4. task[i].state \in {"queued", "running"}
    BY <2>3 DEF Task
  <2>5. CASE task[i].state = "queued"
    BY <2>2, <2>3, <2>5, QueueMoves
  <2>6. CASE task[i].state = "running"
    BY <2>2, <2>3, <2>6, EarliestWaitsForDone DEF Finishable
  <2> QED
    BY <2>4, <2>5, <2>6
<1> QED
  BY <1>1, InvariantHolds, PTL

-----------------------------------------------------------------------------
(* The calls. *)

CallsKnown == \A c \in calls : c.ret \in Tasks /\ c.fns \subseteq Tasks

\* How the future a call returned comes to stand for the functions it was given.
Attached(c) == \A i \in c.fns : \/ i = c.ret \/ task[i].kind = "copy"
                                \/ task[c.ret].kind = "merge" /\ i \in task[c.ret].waits

CallsAttached == \A c \in calls : Attached(c)

DoneAfterWaits == \A i \in Tasks : task[i].state = "done" =>
    \A f \in task[i].waits : /\ Done(f)
                             /\ task[i].kind = "merge" /\ task[f].failed => task[i].failed

CInv == CallsKnown /\ CallsAttached /\ DoneAfterWaits

LEMMA SubmittedTasks ==
    ASSUME TypeOK, NEW S, NEW new \in Seq(S), Submit(new)
    PROVE  /\ Len(task) \in Nat /\ Len(new) \in Nat /\ Len(task') = Len(task) + Len(new)
           /\ \A i \in Tasks : task'[i] = task[i]
           /\ \A i \in 1..Len(new) : task'[Len(task) + i] = new[i]
           /\ \A j \in 1..Len(task') : j \in Tasks \/ j - Len(task) \in 1..Len(new)
<1> DEFINE all == task \o new
<1>1. task \in Seq(Task \cup S) /\ new \in Seq(Task \cup S) /\ task' = all
  BY DEF TypeOK, Submit
<1>2. /\ Len(task) \in Nat /\ Len(new) \in Nat /\ Len(all) = Len(task) + Len(new)
      /\ \A i \in 1..Len(task) : all[i] = task[i]
      /\ \A i \in 1..Len(new) : all[Len(task) + i] = new[i]
  BY <1>1
<1> HIDE DEF all
<1> QED
  BY <1>1, <1>2 DEF Tasks

\* What was submitted before is as it was; of a new call, its future stands for its
\* functions.
LEMMA SubmitKeepsCalls ==
    ASSUME TypeOK, CInv, NEW S, NEW new \in Seq(S), Submit(new),
           \A i \in 1..Len(new) : new[i].state = "queued",
           \A c \in calls' \ calls : c.ret \in Tasks' /\ c.fns \subseteq Tasks' /\ Attached(c)'
    PROVE  CInv'
<1>1. /\ Len(task) \in Nat /\ Len(new) \in Nat /\ Len(task') = Len(task) + Len(new)
      /\ \A i \in Tasks : task'[i] = task[i]
      /\ \A i \in 1..Len(new) : task'[Len(task) + i] = new[i]
      /\ \A j \in 1..Len(task') : j \in Tasks \/ j - Len(task) \in 1..Len(new)
  BY SubmittedTasks
<1>2. Tasks \subseteq Tasks'
  BY <1>1 DEF Tasks
<1>3. CallsKnown'
  BY <1>2 DEF CInv, CallsKnown
<1>4. CallsAttached'
  <2>1. ASSUME NEW c \in calls PROVE Attached(c)'
    <3>1. c.ret \in Tasks /\ c.fns \subseteq Tasks /\ Attached(c)
      BY DEF CInv, CallsKnown, CallsAttached
    <3> QED
      BY <1>1, <3>1 DEF Attached
  <2> QED
    BY <2>1 DEF CallsAttached
<1>5. DoneAfterWaits'
  <2> SUFFICES ASSUME NEW i \in Tasks', task'[i].state = "done", NEW f \in task'[i].waits
               PROVE  /\ Done(f)'
                      /\ task'[i].kind = "merge" /\ task'[f].failed => task'[i].failed
    BY DEF DoneAfterWaits
  <2>1. i \in Tasks
    <3>1. ASSUME i - Len(task) \in 1..Len(new) PROVE FALSE
      <4>1. task'[i] = new[i - Len(task)]
        BY <1>1, <3>1 DEF Tasks
      <4> QED
        BY <3>1, <4>1
    <3> QED
      BY <1>1, <3>1 DEF Tasks
  <2>2. task'[i] = task[i]
    BY <1>1, <2>1
  <2>3. Done(f) /\ (task[i].kind = "merge" /\ task[f].failed => task[i].failed)
    BY <2>1, <2>2 DEF CInv, DoneAfterWaits
  <2>4. f \in Tasks /\ task'[f] = task[f]
    BY <1>1, <2>3 DEF Done
  <2> QED
    BY <1>2, <2>2, <2>3, <2>4 DEF Done
<1> QED
  BY <1>3, <1>4, <1>5 DEF CInv

LEMMA StartFnKeepsCalls ==
    ASSUME TypeOK, CInv, StartFn
    PROVE  CInv'
<1> DEFINE t == New("copy", {}, ThreadExec, FALSE)
           u == New("fn", {}, ThreadExec, FALSE)
           new == <<t, u>>
<1> PICK c : c = [ret |-> Len(task) + 2, fns |-> {Len(task) + 1, Len(task) + 2}]
  OBVIOUS
<1>1. t.kind = "copy" /\ t.state = "queued" /\ u.state = "queued"
  BY DEF New
<1>2. Submit(new) /\ calls' = calls \cup {c}
  BY DEF StartFn, Returns
<1> HIDE DEF t, u
<1>3. /\ new \in Seq({t, u}) /\ Len(new) = 2 /\ new[1] = t
      /\ \A i \in 1..2 : new[i].state = "queued"
  BY <1>1
<1> HIDE DEF new
<1>4. /\ Len(task) \in Nat /\ Len(task') = Len(task) + 2
      /\ task'[Len(task) + 1] = new[1]
  <2>1. 1 \in 1..Len(new)
    BY <1>3
  <2> QED
    BY <1>2, <1>3, <2>1, SubmittedTasks
<1>5. c.ret \in Tasks' /\ c.fns \subseteq Tasks'
  BY <1>4 DEF Tasks
<1>6. Attached(c)'
  BY <1>1, <1>3, <1>4 DEF Attached
<1> QED
  BY <1>2, <1>3, <1>5, <1>6, SubmitKeepsCalls

\* A call that returns the task of the only function it was given.
LEMMA OneFnKeepsCalls ==
    ASSUME TypeOK, CInv, NEW S, NEW new \in Seq(S), Submit(new), Len(new) > 0,
           \A i \in 1..Len(new) : new[i].state = "queued",
           Returns(Len(task) + Len(new), {Len(task) + Len(new)})
    PROVE  CInv'
<1> PICK c : c = [ret |-> Len(task) + Len(new), fns |-> {Len(task) + Len(new)}]
  OBVIOUS
<1>1. Len(task) \in Nat /\ Len(new) \in Nat /\ Len(task') = Len(task) + Len(new)
  BY SubmittedTasks
<1>2. c.ret \in Tasks' /\ c.fns \subseteq Tasks'
  BY <1>1 DEF Tasks
<1>3. Attached(c)'
  BY DEF Attached
<1>4. calls' = calls \cup {c}
  BY DEF Returns
<1> QED
  BY <1>2, <1>3, <1>4, SubmitKeepsCalls

LEMMA OneFnCallsKeepCalls ==
    ASSUME TypeOK, CInv,
           \/ StartFnInProcess
           \/ \E f \in Futures : StartFnAfterFuture(f)
           \/ \E l \in Lists : StartFnAfterList(l)
    PROVE  CInv'
<1>1. ASSUME NEW t, t.state = "queued", Submit(<<t>>), Returns(Len(task) + 1, {Len(task) + 1})
      PROVE  CInv'
  <2> DEFINE new == <<t>>
  <2>1. new \in Seq({t}) /\ Len(new) = 1 /\ \A i \in 1..1 : new[i].state = "queued"
    BY <1>1
  <2>2. Submit(new)
    BY <1>1
  <2>3. Len(new) > 0 /\ Returns(Len(task) + Len(new), {Len(task) + Len(new)})
    BY <1>1, <2>1
  <2> HIDE DEF new
  <2> QED
    BY <2>1, <2>2, <2>3, OneFnKeepsCalls
<1>2. ASSUME NEW t, NEW u, t.state = "queued", u.state = "queued", Submit(<<t, u>>),
             Returns(Len(task) + 2, {Len(task) + 2})
      PROVE  CInv'
  <2> DEFINE new == <<t, u>>
  <2>1. new \in Seq({t, u}) /\ Len(new) = 2 /\ \A i \in 1..2 : new[i].state = "queued"
    BY <1>2
  <2>2. Submit(new)
    BY <1>2
  <2>3. Len(new) > 0 /\ Returns(Len(task) + Len(new), {Len(task) + Len(new)})
    BY <1>2, <2>1
  <2> HIDE DEF new
  <2> QED
    BY <2>1, <2>2, <2>3, OneFnKeepsCalls
<1>3. \A kind, waits, on, hangs : New(kind, waits, on, hangs).state = "queued"
  BY DEF New
<1> QED
  BY <1>1, <1>2, <1>3 DEF StartFnInProcess, StartFnAfterFuture, StartFnAfterList

LEMMA StartFnsAfterFutureKeepsCalls ==
    ASSUME TypeOK, CInv, NEW f \in Futures, NEW n \in Nat, StartFnsAfterFuture(f, n)
    PROVE  CInv'
<1> PICK fns : fns = (Len(task) + 1)..(Len(task) + n)
  OBVIOUS
<1> PICK c : c = [ret |-> Len(task) + n + 1, fns |-> fns]
  OBVIOUS
<1> DEFINE t == New("after", {f}, ThreadExec, Hangs(f))
           u == New("merge", fns, ThreadExec, Hangs(f))
           new == [i \in 1..(n + 1) |-> IF i <= n THEN t ELSE u]
<1>1. t.state = "queued" /\ u.state = "queued" /\ u.kind = "merge" /\ u.waits = fns
  BY DEF New
<1>2. Submit(new) /\ calls' = calls \cup {c}
  BY DEF StartFnsAfterFuture, Returns
<1> HIDE DEF t, u
<1>3. /\ new \in Seq({t, u}) /\ Len(new) = n + 1 /\ new[n + 1] = u
      /\ \A i \in 1..(n + 1) : new[i].state = "queued"
  BY <1>1
<1> HIDE DEF new
<1>4. /\ Len(task) \in Nat /\ Len(task') = Len(task) + (n + 1)
      /\ task'[Len(task) + (n + 1)] = new[n + 1]
  BY <1>2, <1>3, SubmittedTasks
<1>5. c.ret = Len(task) + (n + 1) /\ c.fns = fns
  BY <1>4
<1>6. c.ret \in Tasks' /\ c.fns \subseteq Tasks'
  BY <1>4, <1>5 DEF Tasks
<1>7. task'[c.ret].kind = "merge" /\ task'[c.ret].waits = fns
  BY <1>1, <1>3, <1>4, <1>5
<1>8. Attached(c)'
  BY <1>5, <1>7 DEF Attached
<1> QED
  BY <1>2, <1>3, <1>6, <1>8, SubmitKeepsCalls

LEMMA StartTooManyFnsKeepsCalls ==
    ASSUME TypeOK, CInv, NEW f \in Futures, StartTooManyFns(f)
    PROVE  CInv'
<1> DEFINE t == New("after", {f}, ThreadExec, Hangs(f))
           new == [i \in 1..defaults |-> t]
<1>1. t.state = "queued" /\ defaults \in Nat
  BY DEF New, TypeOK
<1>2. Submit(new) /\ calls' = calls
  BY DEF StartTooManyFns
<1> HIDE DEF t
<1>3. new \in Seq({t}) /\ \A i \in 1..Len(new) : new[i].state = "queued"
  BY <1>1
<1> HIDE DEF new
<1> QED
  BY <1>2, <1>3, SubmitKeepsCalls

\* A task is done after what it waits for, and a merged result has the exceptions of
\* all that it merges.
LEMMA WorkerKeepsCalls ==
    ASSUME TypeOK, CInv, NEW i \in Tasks, Worker(i)
    PROVE  CInv'
<1>1. task \in Seq(Task) /\ DOMAIN task = Tasks /\ task[i] \in Task /\ Len(task) \in Nat
  BY DEF TypeOK, Tasks
<1>2. /\ calls' = calls /\ Tasks' = Tasks
      /\ \A j \in Tasks : /\ task'[j].kind = task[j].kind /\ task'[j].waits = task[j].waits
                          /\ j # i => task'[j] = task[j]
      /\ task[i].state # "done"
      /\ task'[i].state = "done" => \A f \in task[i].waits :
            /\ Done(f)
            /\ task[i].kind = "merge" /\ task[f].failed => task'[i].failed
  <2>1. CASE Take(i)
    <3>1. task' = [task EXCEPT ![i].state = "running"] /\ calls' = calls
          /\ task[i].state = "queued"
      BY <2>1 DEF Take, Startable
    <3>2. task'[i] = [task[i] EXCEPT !.state = "running"]
          /\ \A j \in Tasks : j # i => task'[j] = task[j]
      BY <1>1, <3>1
    <3>3. task'[i].kind = task[i].kind /\ task'[i].waits = task[i].waits
          /\ task'[i].state = "running"
      BY <1>1, <3>2 DEF Task
    <3>4. Tasks' = Tasks
      BY <1>1, <3>1 DEF Tasks
    <3> QED
      BY <3>1, <3>2, <3>3, <3>4
  <2>2. ASSUME NEW failed \in BOOLEAN, Finish(i, failed)
        PROVE  /\ calls' = calls /\ Tasks' = Tasks
               /\ task'[i].kind = task[i].kind /\ task'[i].waits = task[i].waits
               /\ task'[i].failed = failed
               /\ \A j \in Tasks : j # i => task'[j] = task[j]
    <3>1. task' = [task EXCEPT ![i] = [task[i] EXCEPT !.state = "done", !.failed = failed]]
          /\ calls' = calls
      BY <1>1, <2>2 DEF Finish
    <3>2. task'[i] = [task[i] EXCEPT !.state = "done", !.failed = failed]
          /\ \A j \in Tasks : j # i => task'[j] = task[j]
      BY <1>1, <3>1
    <3>3. task'[i].kind = task[i].kind /\ task'[i].waits = task[i].waits
          /\ task'[i].failed = failed
      BY <1>1, <3>2 DEF Task
    <3>4. Tasks' = Tasks
      BY <1>1, <3>1 DEF Tasks
    <3> QED
      BY <3>1, <3>2, <3>3, <3>4
  <2>3. CASE RunFn(i)
    <3>1. PICK failed \in BOOLEAN : Finish(i, failed)
      BY <2>3 DEF RunFn
    <3>2. task[i].state = "running" /\ task[i].kind # "merge" /\ \A f \in task[i].waits : Done(f)
      BY <2>3 DEF RunFn, Finishable
    <3> QED
      BY <2>2, <3>1, <3>2
  <2>4. CASE Merge(i)
    <3> DEFINE any == \E f \in task[i].waits : task[f].failed
    <3>1. any \in BOOLEAN /\ Finish(i, any)
      BY <2>4 DEF Merge
    <3>2. task[i].state = "running" /\ \A f \in task[i].waits : Done(f)
      BY <2>4 DEF Merge, Finishable
    <3>3. \A f \in task[i].waits : task[f].failed => any
      OBVIOUS
    <3> HIDE DEF any
    <3> QED
      BY <2>2, <3>1, <3>2, <3>3
  <2> QED
    BY <2>1, <2>3, <2>4 DEF Worker
<1>3. CallsKnown'
  BY <1>2 DEF CInv, CallsKnown
<1>4. CallsAttached'
  <2>1. ASSUME NEW c \in calls PROVE Attached(c)'
    <3>1. c.ret \in Tasks /\ c.fns \subseteq Tasks /\ Attached(c)
      BY DEF CInv, CallsKnown, CallsAttached
    <3> QED
      BY <1>2, <3>1 DEF Attached
  <2> QED
    BY <1>2, <2>1 DEF CallsAttached
<1>5. \A f : Done(f) => Done(f)' /\ task'[f] = task[f]
  BY <1>2 DEF Done
<1>6. DoneAfterWaits'
  <2> SUFFICES ASSUME NEW j \in Tasks, task'[j].state = "done", NEW f \in task[j].waits
               PROVE  /\ Done(f)'
                      /\ task'[j].kind = "merge" /\ task'[f].failed => task'[j].failed
    BY <1>2 DEF DoneAfterWaits
  <2>1. CASE j = i
    BY <1>2, <1>5, <2>1
  <2>2. CASE j # i
    <3>1. Done(f) /\ (task[j].kind = "merge" /\ task[f].failed => task[j].failed)
      BY <1>2, <2>2 DEF CInv, DoneAfterWaits
    <3> QED
      BY <1>2, <1>5, <2>2, <3>1
  <2> QED
    BY <2>1, <2>2
<1> QED
  BY <1>3, <1>4, <1>6 DEF CInv

LEMMA StutterKeepsCalls ==
    ASSUME CInv, UNCHANGED <<task, calls>>
    PROVE  CInv'
BY DEF CInv, CallsKnown, CallsAttached, Attached, DoneAfterWaits, Tasks, Done

\* When the future of a call is done, so are the call's functions, and it has their
\* exceptions, however the workers were scheduled.
THEOREM CallsAreDone == Spec => []CallDone
<1>1. Init => CInv
  BY DEF Init, CInv, CallsKnown, CallsAttached, DoneAfterWaits, Tasks
<1>2. IInv /\ CInv /\ [Next]_vars => CInv'
  <2> SUFFICES ASSUME TypeOK, CInv, [Next]_vars PROVE CInv'
    BY DEF IInv
  <2>1. ASSUME NEW f \in Futures, NEW n \in 1..MaxFns, StartFnsAfterFuture(f, n)
        PROVE  CInv'
    <3>1. n \in Nat
      BY BoundsAssumption
    <3> QED
      BY <2>1, <3>1, StartFnsAfterFutureKeepsCalls
  <2>2. CASE Construct \/ UNCHANGED vars
    BY <2>2, StutterKeepsCalls DEF Construct, vars
  <2> QED
    BY <2>1, <2>2, StartFnKeepsCalls, OneFnCallsKeepCalls, StartTooManyFnsKeepsCalls,
       WorkerKeepsCalls DEF Next, Client
<1>3. IInv /\ CInv => CallDone
  <2> SUFFICES ASSUME TypeOK, CInv, NEW c \in calls, Done(c.ret), NEW i \in c.fns,
                      task[i].kind # "copy"
               PROVE  Done(i) /\ (task[i].failed => task[c.ret].failed)
    BY DEF CallDone, IInv
  <2> QED
    BY DEF CInv, CallsAttached, Attached, DoneAfterWaits, Done
<1> QED
  BY <1>1, <1>2, <1>3, InvariantHolds, PTL DEF Spec
=============================================================================
