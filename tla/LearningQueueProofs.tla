-------------------------- MODULE LearningQueueProofs --------------------------
(***************************************************************************)
(* For every number of workers and games, and both programs: a merge keeps *)
(* every game that was merged before, a failed game is never merged, and   *)
(* the active count is what is in flight.                                  *)
(*                                                                         *)
(* The queue merges a game into policies that have moved on since it       *)
(* started: what saves the others is that a game in flight is in one place *)
(* only and not yet merged (OnePlace).  The run may even replace the       *)
(* policies by those of a single game: what saves it is that nothing was   *)
(* merged since the batch started (SameStart), because the merge waits for *)
(* an active count of zero, which must be a true count (Counted).  That no *)
(* game disappears is a count of the places a dispatched game can be in.   *)
(***************************************************************************)
EXTENDS LearningQueue, FiniteSetTheorems, TLAPS

RunningWorkers == {w \in Workers : worker[w] = "running"}

Counted ==
  active = Len(tasks) + Cardinality(RunningWorkers) + Len(results) + Cardinality(Panicked)

\* A game starts from games dispatched before it, and adds itself.
GoodTask(t) == t.episode < nextEpisode /\ t.policies \subseteq 0..t.episode - 1
GoodResult(r) ==
  /\ r.episode < nextEpisode /\ r.start \subseteq 0..r.episode - 1
  /\ r.policies = r.start \union {r.episode}

WellFormed ==
  /\ \A i \in 1..Len(tasks) : GoodTask(tasks[i])
  /\ \A w \in RunningWorkers : GoodTask(task[w])
  /\ \A i \in 1..Len(results) : GoodResult(results[i])
  /\ \A i \in 1..Len(batch) : GoodResult(batch[i])
  /\ policies \subseteq 0..nextEpisode - 1 /\ failed \subseteq 0..nextEpisode - 1

Settled == policies \union failed

OnePlace ==
  program = "queue" =>
    /\ batch = <<>>
    /\ \A i, j \in 1..Len(tasks) : tasks[i].episode = tasks[j].episode => i = j
    /\ \A v, w \in RunningWorkers : task[v].episode = task[w].episode => v = w
    /\ \A i, j \in 1..Len(results) : results[i].episode = results[j].episode => i = j
    /\ \A i \in 1..Len(tasks) :
         /\ tasks[i].episode \notin Settled
         /\ \A w \in RunningWorkers : tasks[i].episode # task[w].episode
         /\ \A j \in 1..Len(results) : tasks[i].episode # results[j].episode
    /\ \A w \in RunningWorkers :
         /\ task[w].episode \notin Settled
         /\ \A j \in 1..Len(results) : task[w].episode # results[j].episode
    /\ \A j \in 1..Len(results) : results[j].episode \notin Settled

SameStart ==
  program = "run" =>
    /\ failed = {} /\ Panicked = {}
    /\ \A i \in 1..Len(tasks) : tasks[i].policies = policies
    /\ \A w \in RunningWorkers : task[w].policies = policies
    /\ \A i \in 1..Len(results) : results[i].start = policies
    /\ \A i \in 1..Len(batch) : batch[i].start = policies

LockIdle == lock # None => worker[lock] = "idle"

IInv == TypeOK /\ LockIdle /\ Counted /\ WellFormed /\ OnePlace /\ SameStart /\ MergesKept

-----------------------------------------------------------------------------
(* What taking the first element of a sequence and appending one leave. *)

LEMMA TailFacts ==
  ASSUME NEW S, NEW s \in Seq(S), s # <<>>
  PROVE  /\ Head(s) \in S /\ Head(s) = s[1] /\ 1 \in 1..Len(s)
         /\ Tail(s) \in Seq(S) /\ Len(s) \in Nat \ {0} /\ Len(Tail(s)) = Len(s) - 1
         /\ \A i \in 1..Len(Tail(s)) : i + 1 \in 1..Len(s) /\ Tail(s)[i] = s[i + 1]
OBVIOUS

LEMMA AppendFacts ==
  ASSUME NEW S, NEW s \in Seq(S), NEW e \in S
  PROVE  /\ Append(s, e) \in Seq(S) /\ Len(s) \in Nat /\ Len(Append(s, e)) = Len(s) + 1
         /\ Append(s, e)[Len(s) + 1] = e
         /\ \A i \in 1..Len(s) : Append(s, e)[i] = s[i]
         /\ \A i \in 1..Len(Append(s, e)) : i \in 1..Len(s) \/ i = Len(s) + 1
OBVIOUS

(* The workers are finitely many, and so are those in any state. *)
LEMMA WorkersFinite ==
  /\ Parallel \in Nat
  /\ IsFiniteSet(RunningWorkers) /\ Cardinality(RunningWorkers) \in Nat
  /\ IsFiniteSet(Panicked) /\ Cardinality(Panicked) \in Nat
<1>1. RunningWorkers \in SUBSET Workers /\ Panicked \in SUBSET Workers
  BY DEF RunningWorkers, Panicked
<1> QED
  BY <1>1, QueueAssumption, FS_Subset, FS_CardinalityType DEF Parallel

(* A result that is there is counted, and nothing is in flight when the     *)
(* count is zero.                                                           *)
LEMMA ActivePositive ==
  ASSUME TypeOK, Counted, results # <<>>
  PROVE  active > 0
BY WorkersFinite DEF TypeOK, Counted

LEMMA NoneInFlight ==
  ASSUME TypeOK, Counted, active = 0
  PROVE  tasks = <<>> /\ RunningWorkers = {} /\ results = <<>>
<1>1. Len(tasks) \in Nat /\ Len(results) \in Nat
  BY DEF TypeOK
<1>2. Len(tasks) = 0 /\ Len(results) = 0 /\ Cardinality(RunningWorkers) = 0
  BY <1>1, WorkersFinite DEF Counted
<1>3. RunningWorkers = {}
  BY <1>2, WorkersFinite, FS_EmptySet
<1> QED
  BY <1>2, <1>3 DEF TypeOK

(* What is in the batch of the run. *)
LEMMA BatchElements ==
  ASSUME TypeOK
  PROVE  /\ \A r \in Batch : r \in Results /\ \E i \in 1..Len(batch) : r = batch[i]
         /\ \A i \in 1..Len(batch) : batch[i] \in Results /\ batch[i] \in Batch
         /\ Len(batch) = 1 => 1 \in 1..Len(batch)
<1>1. batch \in Seq(Results)
  BY DEF TypeOK
<1>2. DOMAIN batch = 1..Len(batch) /\ Len(batch) \in Nat /\ \A i \in 1..Len(batch) : batch[i] \in Results
  BY <1>1
<1>3. Batch = {batch[i] : i \in 1..Len(batch)}
  BY <1>2 DEF Batch
<1> QED
  BY <1>2, <1>3

-----------------------------------------------------------------------------

(* The empty queue and the empty batch satisfy the invariant. *)
LEMMA InitInv == Init => IInv
<1> SUFFICES ASSUME Init PROVE IInv
  OBVIOUS
<1> USE QueueAssumption DEF Init
<1>1. RunningWorkers = {} /\ Panicked = {}
  BY DEF RunningWorkers, Panicked
<1>2. TypeOK
  <2>1. tasks \in Seq(Tasks) /\ results \in Seq(Results) /\ batch \in Seq(Results)
    OBVIOUS
  <2>2. worker \in [Workers -> {"idle", "running", "stopped", "panicked"}]
        /\ task \in [Workers -> Tasks \union {NoTask}]
    OBVIOUS
  <2>3. active \in 0..Parallel /\ nextEpisode \in 0..Games
    BY WorkersFinite
  <2> QED
    BY <2>1, <2>2, <2>3 DEF TypeOK
<1>3. Counted
  BY <1>1, FS_EmptySet DEF Counted
<1>4. LockIdle /\ WellFormed /\ OnePlace /\ SameStart /\ MergesKept
  BY <1>1 DEF LockIdle, WellFormed, OnePlace, SameStart, MergesKept, Settled
<1> QED
  BY <1>2, <1>3, <1>4 DEF IInv

(* The holder of the mutex of the task receiver is waiting for a task. *)
LEMMA LockStep ==
  ASSUME TypeOK, LockIdle, Next
  PROVE  LockIdle'
<1> USE QueueAssumption DEF TypeOK, LockIdle, loop, threads
<1>1. CASE Dispatch
  BY <1>1 DEF Dispatch, MayDispatch
<1>2. CASE DispatchFails
  BY <1>2 DEF DispatchFails, Leave
<1>3. CASE Receive
  BY <1>3 DEF Receive, ReceiveFailed, ReceiveOk, CompletedGameFails, Merge, Leave
<1>4. CASE ReceiveOfBatch
  BY <1>4 DEF ReceiveOfBatch, Leave
<1>5. CASE MergeBatch
  BY <1>5 DEF MergeBatch, Leave
<1>6. CASE ResultsClosed
  BY <1>6 DEF ResultsClosed, Leave
<1>7. CASE AllCounted
  BY <1>7 DEF AllCounted, Leave
<1>8. CASE Join
  BY <1>8 DEF Join
<1>9. ASSUME NEW w \in Workers, TakeLock(w) PROVE LockIdle'
  BY <1>9 DEF TakeLock
<1>10. ASSUME NEW w \in Workers, TakeTask(w) PROVE LockIdle'
  BY <1>10 DEF TakeTask
<1>11. ASSUME NEW w \in Workers, Stop(w) PROVE LockIdle'
  BY <1>11 DEF Stop
<1>12. ASSUME NEW w \in Workers, NEW ok \in BOOLEAN, FinishGame(w, ok) PROVE LockIdle'
  BY <1>12 DEF FinishGame
<1>13. ASSUME NEW w \in Workers, Panic(w) PROVE LockIdle'
  BY <1>13 DEF Panic
<1> QED
  BY <1>1, <1>2, <1>3, <1>4, <1>5, <1>6, <1>7, <1>8, <1>9, <1>10, <1>11, <1>12, <1>13
  DEF Next, Main, Worker, Play

(* A result received was counted, so the count does not go below zero. *)
LEMMA TypeStep ==
  ASSUME TypeOK, Counted, WellFormed, Next
  PROVE  TypeOK'
<1> USE QueueAssumption DEF TypeOK, Tasks, Results, NoTask, Episodes, loop, threads
<1>1. CASE Dispatch
  <2>1. [episode |-> nextEpisode, policies |-> policies] \in Tasks
    BY <1>1 DEF Dispatch, MayDispatch
  <2>2. tasks' \in Seq(Tasks)
    BY <1>1, <2>1, AppendFacts DEF Dispatch
  <2>3. active' \in 0..Parallel /\ nextEpisode' \in 0..Games
    BY <1>1, WorkersFinite DEF Dispatch, MayDispatch
  <2> QED
    BY <1>1, <2>2, <2>3 DEF Dispatch
<1>2. CASE DispatchFails
  BY <1>2 DEF DispatchFails, Leave
<1>3. CASE Receive
  <2>1. results # <<>> /\ active > 0
    BY <1>3, ActivePositive DEF Receive
  <2>2. Head(results) \in Results /\ results' \in Seq(Results)
    BY <1>3, <2>1, TailFacts DEF Receive
  <2>6. active' = active - 1
    BY <1>3 DEF Receive, ReceiveFailed, ReceiveOk, CompletedGameFails
  <2>3. active' \in 0..Parallel
    BY <2>1, <2>6, WorkersFinite
  <2>4. policies' \subseteq Episodes /\ completed' \subseteq Episodes /\ failed' \subseteq Episodes
    BY <1>3, <2>2 DEF Receive, ReceiveFailed, ReceiveOk, CompletedGameFails, Merge
  <2>5. main' \in {"loop", "join"} /\ firstError' \in BOOLEAN /\ taskTx' \in BOOLEAN
    BY <1>3 DEF Receive, ReceiveFailed, ReceiveOk, CompletedGameFails, Leave
  <2> QED
    BY <1>3, <2>2, <2>3, <2>4, <2>5 DEF Receive
<1>4. CASE ReceiveOfBatch
  <2>1. results # <<>> /\ active > 0
    BY <1>4, ActivePositive DEF ReceiveOfBatch
  <2>2. Head(results) \in Results /\ results' \in Seq(Results)
    BY <1>4, <2>1, TailFacts DEF ReceiveOfBatch
  <2>3. active' \in 0..Parallel
    BY <1>4, <2>1, WorkersFinite DEF ReceiveOfBatch
  <2>4. batch' \in Seq(Results)
    <3>1. batch' = batch \/ batch' = Append(batch, Head(results))
      BY <1>4 DEF ReceiveOfBatch
    <3>2. batch \in Seq(Results)
      OBVIOUS
    <3>3. Append(batch, Head(results)) \in Seq(Results)
      <4> HIDE DEF Results, TypeOK
      <4> QED
        BY ONLY <2>2, <3>2, AppendFacts
    <3> QED
      BY ONLY <3>1, <3>2, <3>3
  <2>5. main' \in {"loop", "join"} /\ firstError' \in BOOLEAN /\ taskTx' \in BOOLEAN
    BY <1>4 DEF ReceiveOfBatch, Leave
  <2> QED
    BY <1>4, <2>2, <2>3, <2>4, <2>5 DEF ReceiveOfBatch
<1>5. CASE MergeBatch
  <2>1. \A r \in Batch : r.policies \subseteq Episodes /\ r.episode \in Episodes
    BY BatchElements DEF Results
  <2>2. Len(batch) = 1 => batch[1].policies \subseteq Episodes
    BY <2>1, BatchElements
  <2>3. policies' \subseteq Episodes
    BY <1>5, <2>1, <2>2 DEF MergeBatch
  <2>4. completed' \subseteq Episodes
    <3>1. {r.episode : r \in Batch} \subseteq Episodes
      BY <2>1
    <3> QED
      BY <1>5, <3>1 DEF MergeBatch
  <2>6. /\ batch' = <<>> /\ main = "loop"
        /\ UNCHANGED <<main, firstError, taskTx>> \/ Leave(TRUE)
    BY <1>5 DEF MergeBatch
  <2>5. main' \in {"loop", "join"} /\ firstError' \in BOOLEAN /\ taskTx' \in BOOLEAN
    BY <2>6 DEF Leave
  <2>7. batch' \in Seq(Results)
    BY <2>6
  <2> QED
    BY <1>5, <2>3, <2>4, <2>5, <2>7 DEF MergeBatch
<1>6. CASE ResultsClosed
  BY <1>6 DEF ResultsClosed, Leave
<1>7. CASE AllCounted
  BY <1>7 DEF AllCounted, Leave
<1>8. CASE Join
  BY <1>8 DEF Join
<1>9. ASSUME NEW w \in Workers, TakeLock(w) PROVE TypeOK'
  BY <1>9 DEF TakeLock
<1>10. ASSUME NEW w \in Workers, TakeTask(w) PROVE TypeOK'
  <2>1. Head(tasks) \in Tasks /\ tasks' \in Seq(Tasks)
    BY <1>10, TailFacts DEF TakeTask
  <2>2. task' \in [Workers -> Tasks \union {NoTask}]
    <3>1. task \in [Workers -> Tasks \union {NoTask}]
      OBVIOUS
    <3>2. task' = [task EXCEPT ![w] = Head(tasks)]
      BY <1>10 DEF TakeTask
    <3> QED
      BY ONLY <2>1, <3>1, <3>2
  <2>3. worker' \in [Workers -> {"idle", "running", "stopped", "panicked"}]
    BY <1>10 DEF TakeTask
  <2> QED
    BY <1>10, <2>1, <2>2, <2>3 DEF TakeTask
<1>11. ASSUME NEW w \in Workers, Stop(w) PROVE TypeOK'
  BY <1>11 DEF Stop
<1>12. ASSUME NEW w \in Workers, NEW ok \in BOOLEAN, FinishGame(w, ok) PROVE TypeOK'
  <2>1. task[w] \in Tasks
    BY <1>12 DEF FinishGame, WellFormed, GoodTask, RunningWorkers
  <2> DEFINE result == [episode |-> task[w].episode, ok |-> ok, start |-> task[w].policies,
                        policies |-> task[w].policies \union {task[w].episode}]
  <2>2. result \in Results
    BY <2>1
  <2>3. results' = Append(results, result)
    BY <1>12 DEF FinishGame
  <2>4. results' \in Seq(Results)
    BY <2>2, <2>3, AppendFacts
  <2>5. worker' \in [Workers -> {"idle", "running", "stopped", "panicked"}]
    BY <1>12 DEF FinishGame
  <2> QED
    BY <1>12, <2>4, <2>5 DEF FinishGame
<1>13. ASSUME NEW w \in Workers, Panic(w) PROVE TypeOK'
  <2>1. task[w].episode \in Episodes
    BY <1>13 DEF Panic, WellFormed, GoodTask, RunningWorkers
  <2>2. worker' \in [Workers -> {"idle", "running", "stopped", "panicked"}] /\ lost' \subseteq Episodes
    BY <1>13, <2>1 DEF Panic
  <2> QED
    BY <1>13, <2>2 DEF Panic
<1> QED
  BY <1>1, <1>2, <1>3, <1>4, <1>5, <1>6, <1>7, <1>8, <1>9, <1>10, <1>11, <1>12, <1>13
  DEF Next, Main, Worker, Play

(* Every step moves a game from one place of the count to another. *)
LEMMA CountedStep ==
  ASSUME TypeOK, Counted, LockIdle, Next
  PROVE  Counted'
<1> USE QueueAssumption DEF TypeOK, Counted, loop, threads
<1>1. CASE Dispatch
  <2>1. RunningWorkers' = RunningWorkers /\ Panicked' = Panicked
    BY <1>1 DEF Dispatch, RunningWorkers, Panicked
  <2>2. Len(tasks') = Len(tasks) + 1
    BY <1>1 DEF Dispatch
  <2> QED
    BY <1>1, <2>1, <2>2, WorkersFinite DEF Dispatch
<1>2. CASE DispatchFails
  BY <1>2 DEF DispatchFails, Leave, RunningWorkers, Panicked
<1>3. CASE Receive
  <2>1. RunningWorkers' = RunningWorkers /\ Panicked' = Panicked /\ tasks' = tasks
    BY <1>3 DEF Receive, RunningWorkers, Panicked, RunningWorkers, Panicked
  <2>2. Len(results') = Len(results) - 1 /\ Len(results) \in Nat
    BY <1>3, TailFacts DEF Receive
  <2>3. active' = active - 1
    BY <1>3 DEF Receive, ReceiveFailed, ReceiveOk, CompletedGameFails
  <2> QED
    BY <2>1, <2>2, <2>3, WorkersFinite
<1>4. CASE ReceiveOfBatch
  <2>1. RunningWorkers' = RunningWorkers /\ Panicked' = Panicked /\ tasks' = tasks
    BY <1>4 DEF ReceiveOfBatch, RunningWorkers, Panicked, RunningWorkers, Panicked
  <2>2. Len(results') = Len(results) - 1 /\ Len(results) \in Nat
    BY <1>4, TailFacts DEF ReceiveOfBatch
  <2>3. active' = active - 1
    BY <1>4 DEF ReceiveOfBatch
  <2> QED
    BY <2>1, <2>2, <2>3, WorkersFinite
<1>5. CASE MergeBatch
  BY <1>5 DEF MergeBatch, Leave, RunningWorkers, Panicked
<1>6. CASE ResultsClosed
  BY <1>6 DEF ResultsClosed, Leave, RunningWorkers, Panicked
<1>7. CASE AllCounted
  BY <1>7 DEF AllCounted, Leave, RunningWorkers, Panicked
<1>8. CASE Join
  BY <1>8 DEF Join, RunningWorkers, Panicked
<1>9. ASSUME NEW w \in Workers, TakeLock(w) PROVE Counted'
  BY <1>9 DEF TakeLock, RunningWorkers, Panicked
<1>10. ASSUME NEW w \in Workers, TakeTask(w) PROVE Counted'
  <2>1. RunningWorkers' = RunningWorkers \union {w} /\ w \notin RunningWorkers
    BY <1>10 DEF TakeTask, LockIdle, RunningWorkers, Panicked
  <2>2. Panicked' = Panicked
    BY <1>10 DEF TakeTask, LockIdle, RunningWorkers, Panicked
  <2>3. Cardinality(RunningWorkers') = Cardinality(RunningWorkers) + 1
    BY <2>1, WorkersFinite, FS_AddElement
  <2>4. Len(tasks') = Len(tasks) - 1 /\ Len(tasks) \in Nat
    BY <1>10, TailFacts DEF TakeTask
  <2> QED
    BY <1>10, <2>2, <2>3, <2>4, WorkersFinite DEF TakeTask
<1>11. ASSUME NEW w \in Workers, Stop(w) PROVE Counted'
  <2>1. RunningWorkers' = RunningWorkers /\ Panicked' = Panicked
    BY <1>11 DEF Stop, LockIdle, RunningWorkers, Panicked
  <2> QED
    BY <1>11, <2>1 DEF Stop
<1>12. ASSUME NEW w \in Workers, NEW ok \in BOOLEAN, FinishGame(w, ok) PROVE Counted'
  <2>1. RunningWorkers' = RunningWorkers \ {w} /\ w \in RunningWorkers /\ Panicked' = Panicked
    BY <1>12 DEF FinishGame, RunningWorkers, Panicked
  <2>2. Cardinality(RunningWorkers') = Cardinality(RunningWorkers) - 1
    BY <2>1, WorkersFinite, FS_RemoveElement
  <2>3. Len(results') = Len(results) + 1 /\ Len(results) \in Nat
    BY <1>12 DEF FinishGame
  <2>4. active' = active /\ tasks' = tasks /\ Len(tasks) \in Nat /\ active \in Nat
    BY <1>12, WorkersFinite DEF FinishGame
  <2>5. Cardinality(Panicked)' = Cardinality(Panicked)
    BY <2>1
  <2> QED
    BY <2>2, <2>3, <2>4, <2>5, WorkersFinite
<1>13. ASSUME NEW w \in Workers, Panic(w) PROVE Counted'
  <2>1. /\ RunningWorkers' = RunningWorkers \ {w} /\ w \in RunningWorkers
        /\ Panicked' = Panicked \union {w} /\ w \notin Panicked
    BY <1>13 DEF Panic, RunningWorkers, Panicked
  <2>2. Cardinality(RunningWorkers') = Cardinality(RunningWorkers) - 1
    BY <2>1, WorkersFinite, FS_RemoveElement
  <2>3. Cardinality(Panicked') = Cardinality(Panicked) + 1
    BY <2>1, WorkersFinite, FS_AddElement
  <2> QED
    BY <1>13, <2>2, <2>3, WorkersFinite DEF Panic
<1> QED
  BY <1>1, <1>2, <1>3, <1>4, <1>5, <1>6, <1>7, <1>8, <1>9, <1>10, <1>11, <1>12, <1>13
  DEF Next, Main, Worker, Play

(* What a game starts from was merged before it was dispatched. *)
LEMMA WellFormedStep ==
  ASSUME TypeOK, WellFormed, Next
  PROVE  WellFormed'
<1> USE QueueAssumption DEF TypeOK, Episodes, WellFormed, loop, threads
<1>1. CASE Dispatch
  <2> DEFINE new == [episode |-> nextEpisode, policies |-> policies]
  <2>1. tasks' = Append(tasks, new) /\ nextEpisode' = nextEpisode + 1
    BY <1>1 DEF Dispatch
  <2>2. new \in Tasks
    BY <1>1 DEF Dispatch, MayDispatch, Tasks
  <2>3. UNCHANGED <<batch, results, policies, failed, task>> /\ RunningWorkers' = RunningWorkers
    BY <1>1 DEF Dispatch, RunningWorkers
  <2>4. \A t \in Tasks : GoodTask(t) => GoodTask(t)'
    BY <2>1 DEF Tasks, GoodTask
  <2>5. \A r \in Results : GoodResult(r) => GoodResult(r)'
    BY <2>1 DEF Results, GoodResult
  <2>6. new.episode < nextEpisode' /\ new.policies \subseteq 0..new.episode - 1
    BY <2>1
  <2>7. \A i \in 1..Len(tasks') : GoodTask(tasks[i])'
    <3> SUFFICES ASSUME NEW i \in 1..Len(tasks') PROVE GoodTask(tasks[i])'
      OBVIOUS
    <3>1. (i \in 1..Len(tasks) /\ tasks'[i] = tasks[i]) \/ tasks'[i] = new
      BY <2>1, <2>2, AppendFacts
    <3>2. i \in 1..Len(tasks) => tasks[i] \in Tasks /\ GoodTask(tasks[i])
      OBVIOUS
    <3>3. CASE i \in 1..Len(tasks) /\ tasks'[i] = tasks[i]
      <4>1. GoodTask(tasks[i]) /\ tasks[i] \in Tasks
        BY <3>2, <3>3
      <4>2. tasks[i].episode < nextEpisode' /\ tasks[i].policies \subseteq 0..tasks[i].episode - 1
        BY <4>1, <2>1 DEF GoodTask, Tasks
      <4> QED
        BY <3>3, <4>2 DEF GoodTask
    <3>4. CASE tasks'[i] = new
      BY <2>6, <3>4 DEF GoodTask
    <3> QED
      BY <3>1, <3>3, <3>4
  <2>8. \A v \in RunningWorkers' : GoodTask(task[v])'
    <3> SUFFICES ASSUME NEW v \in RunningWorkers PROVE GoodTask(task[v])'
      BY <2>3
    <3>1. GoodTask(task[v]) /\ task[v] \in Tasks \union {NoTask}
      BY DEF RunningWorkers
    <3> QED
      BY <2>1, <2>3, <3>1 DEF GoodTask, Tasks, NoTask
  <2>9. \A i \in 1..Len(results') : GoodResult(results[i])'
    <3> SUFFICES ASSUME NEW i \in 1..Len(results) PROVE GoodResult(results[i])'
      BY <2>3
    <3>1. GoodResult(results[i]) /\ results[i] \in Results
      OBVIOUS
    <3> QED
      BY <2>1, <2>3, <3>1 DEF GoodResult, Results
  <2>10. \A i \in 1..Len(batch') : GoodResult(batch[i])'
    <3> SUFFICES ASSUME NEW i \in 1..Len(batch) PROVE GoodResult(batch[i])'
      BY <2>3
    <3>1. GoodResult(batch[i]) /\ batch[i] \in Results
      OBVIOUS
    <3> QED
      BY <2>1, <2>3, <3>1 DEF GoodResult, Results
  <2>11. policies' \subseteq 0..nextEpisode' - 1 /\ failed' \subseteq 0..nextEpisode' - 1
    BY <2>1, <2>3
  <2> QED
    BY <2>7, <2>8, <2>9, <2>10, <2>11
<1>2. CASE DispatchFails
  BY <1>2 DEF DispatchFails, Leave, Tasks, Results, NoTask, GoodTask, GoodResult, RunningWorkers
<1>3. CASE Receive
  <2>1. Head(results) \in Results /\ Head(results) = results[1] /\ 1 \in 1..Len(results)
    BY <1>3, TailFacts DEF Receive
  <2>2. \A i \in 1..Len(results') : i + 1 \in 1..Len(results) /\ results'[i] = results[i + 1]
    BY <1>3, TailFacts DEF Receive
  <2>3. UNCHANGED <<nextEpisode, tasks, worker, task>> /\ RunningWorkers' = RunningWorkers
    BY <1>3 DEF Receive, RunningWorkers
  <2>4. \A i \in 1..Len(results') : GoodResult(results[i])'
    BY <2>2, <2>3 DEF GoodResult
  <2>7. GoodResult(Head(results))
    BY <2>1
  <2>8. (\A i \in 1..Len(tasks') : GoodTask(tasks[i])') /\ \A v \in RunningWorkers' : GoodTask(task[v])'
    BY <2>3 DEF GoodTask
  <2> DEFINE r == Head(results)
  <2>9. r.episode \in 0..nextEpisode - 1 /\ r.policies \subseteq 0..nextEpisode - 1
    <3>1. r.episode \in Nat /\ nextEpisode \in Nat /\ r.episode < nextEpisode
      BY <2>1, <2>7 DEF GoodResult, Results
    <3>2. r.start \subseteq 0..r.episode - 1 /\ r.policies = r.start \union {r.episode}
      BY <2>7 DEF GoodResult
    <3>3. 0..r.episode - 1 \subseteq 0..nextEpisode - 1
      BY <3>1
    <3> QED
      BY <3>1, <3>2, <3>3
  <2>5. policies' \subseteq 0..nextEpisode' - 1 /\ failed' \subseteq 0..nextEpisode' - 1
    <3>1. CASE ReceiveFailed(Head(results))
      BY <2>3, <2>9, <3>1 DEF ReceiveFailed
    <3>2. CASE ReceiveOk(Head(results))
      BY <2>3, <2>9, <3>2 DEF ReceiveOk, Merge
    <3>3. CASE CompletedGameFails(Head(results))
      BY <2>3, <2>9, <3>3 DEF CompletedGameFails, Merge
    <3> QED
      BY <1>3, <3>1, <3>2, <3>3 DEF Receive
  <2>6. \A i \in 1..Len(batch') : GoodResult(batch[i])'
    BY <1>3, <2>3 DEF Receive, GoodResult
  <2> QED
    BY <2>4, <2>5, <2>6, <2>8
<1>4. CASE ReceiveOfBatch
  <2>1. Head(results) \in Results /\ Head(results) = results[1] /\ 1 \in 1..Len(results)
    BY <1>4, TailFacts DEF ReceiveOfBatch
  <2>2. \A i \in 1..Len(results') : i + 1 \in 1..Len(results) /\ results'[i] = results[i + 1]
    BY <1>4, TailFacts DEF ReceiveOfBatch
  <2>3. UNCHANGED <<nextEpisode, tasks, worker, task>> /\ RunningWorkers' = RunningWorkers
    BY <1>4 DEF ReceiveOfBatch, RunningWorkers
  <2>4. \A i \in 1..Len(results') : GoodResult(results[i])'
    BY <2>2, <2>3 DEF GoodResult
  <2>7. GoodResult(Head(results))
    BY <2>1
  <2>8. (\A i \in 1..Len(tasks') : GoodTask(tasks[i])') /\ \A v \in RunningWorkers' : GoodTask(task[v])'
    BY <2>3 DEF GoodTask
  <2>5. \A i \in 1..Len(batch') : GoodResult(batch[i])'
    <3> SUFFICES ASSUME NEW i \in 1..Len(batch') PROVE GoodResult(batch[i])'
      OBVIOUS
    <3>1. batch' = batch \/ batch' = Append(batch, Head(results))
      BY <1>4 DEF ReceiveOfBatch
    <3>2. (i \in 1..Len(batch) /\ batch'[i] = batch[i]) \/ batch'[i] = Head(results)
      BY <2>1, <3>1, AppendFacts
    <3>3. CASE i \in 1..Len(batch) /\ batch'[i] = batch[i]
      <4>1. GoodResult(batch[i])
        BY <3>3
      <4> QED
        BY <2>3, <3>3, <4>1 DEF GoodResult
    <3>4. CASE batch'[i] = Head(results)
      BY <2>3, <2>7, <3>4 DEF GoodResult
    <3> QED
      BY <3>2, <3>3, <3>4
  <2>6. policies' = policies /\ failed' = failed
    BY <1>4 DEF ReceiveOfBatch
  <2> QED
    BY <2>3, <2>4, <2>5, <2>6, <2>8
<1>5. CASE MergeBatch
  <2>1. \A r \in Batch : r.policies \subseteq 0..nextEpisode - 1
    <3> SUFFICES ASSUME NEW i \in 1..Len(batch) PROVE batch[i].policies \subseteq 0..nextEpisode - 1
      BY BatchElements
    <3>1. GoodResult(batch[i]) /\ batch[i] \in Results
      OBVIOUS
    <3> QED
      BY <3>1 DEF GoodResult, Results
  <2>2. Len(batch) = 1 => batch[1].policies \subseteq 0..nextEpisode - 1
    BY <2>1, BatchElements
  <2>3. policies' \subseteq 0..nextEpisode - 1
    BY <1>5, <2>1, <2>2 DEF MergeBatch
  <2>4. /\ UNCHANGED <<nextEpisode, tasks, worker, task, results, failed>> /\ batch' = <<>>
        /\ RunningWorkers' = RunningWorkers
    BY <1>5 DEF MergeBatch, RunningWorkers
  <2> QED
    BY <2>3, <2>4 DEF GoodTask, GoodResult
<1>6. CASE ResultsClosed
  BY <1>6 DEF ResultsClosed, Leave, Tasks, Results, NoTask, GoodTask, GoodResult, RunningWorkers
<1>7. CASE AllCounted
  BY <1>7 DEF AllCounted, Leave, Tasks, Results, NoTask, GoodTask, GoodResult, RunningWorkers
<1>8. CASE Join
  BY <1>8 DEF Join, Tasks, Results, NoTask, GoodTask, GoodResult, RunningWorkers
<1>9. ASSUME NEW w \in Workers, TakeLock(w) PROVE WellFormed'
  BY <1>9 DEF TakeLock, Tasks, Results, NoTask, GoodTask, GoodResult, RunningWorkers
<1>10. ASSUME NEW w \in Workers, TakeTask(w) PROVE WellFormed'
  <2>1. Head(tasks) = tasks[1] /\ 1 \in 1..Len(tasks) /\ tasks' = Tail(tasks)
    BY <1>10, TailFacts DEF TakeTask
  <2>2. \A i \in 1..Len(tasks') : i + 1 \in 1..Len(tasks) /\ tasks'[i] = tasks[i + 1]
    BY <1>10, TailFacts DEF TakeTask
  <2>3. UNCHANGED <<nextEpisode, results, batch, policies, failed>>
    BY <1>10 DEF TakeTask
  <2>4. \A i \in 1..Len(tasks') : GoodTask(tasks[i])'
    BY <2>2, <2>3 DEF GoodTask
  <2>5. task' = [task EXCEPT ![w] = tasks[1]] /\ RunningWorkers' \subseteq RunningWorkers \union {w}
    BY <1>10, <2>1 DEF TakeTask, RunningWorkers
  <2>6. \A v \in RunningWorkers' : GoodTask(task[v])'
    <3> SUFFICES ASSUME NEW v \in RunningWorkers' PROVE GoodTask(task'[v])
      BY <2>3 DEF GoodTask
    <3>1. CASE v = w
      BY <2>1, <2>5, <3>1
    <3>2. CASE v # w
      BY <2>5, <3>2
    <3> QED
      BY <3>1, <3>2
  <2> QED
    BY <2>3, <2>4, <2>6 DEF GoodResult
<1>11. ASSUME NEW w \in Workers, Stop(w) PROVE WellFormed'
  BY <1>11 DEF Stop, Tasks, Results, NoTask, GoodTask, GoodResult, RunningWorkers
<1>12. ASSUME NEW w \in Workers, NEW ok \in BOOLEAN, FinishGame(w, ok) PROVE WellFormed'
  <2> DEFINE result == [episode |-> task[w].episode, ok |-> ok, start |-> task[w].policies,
                        policies |-> task[w].policies \union {task[w].episode}]
  <2>1. w \in RunningWorkers /\ task[w] \in Tasks /\ GoodTask(task[w])
    BY <1>12 DEF FinishGame, RunningWorkers, GoodTask, Tasks, NoTask
  <2>2. result \in Results /\ GoodResult(result)
    BY <2>1 DEF Tasks, Results, GoodTask, GoodResult
  <2>3. results' = Append(results, result)
    BY <1>12 DEF FinishGame
  <2>4. /\ UNCHANGED <<nextEpisode, tasks, task, batch, policies, failed>>
        /\ RunningWorkers' \subseteq RunningWorkers
    BY <1>12 DEF FinishGame, RunningWorkers
  <2>5. \A i \in 1..Len(results') : GoodResult(results[i])'
    <3> SUFFICES ASSUME NEW i \in 1..Len(results') PROVE GoodResult(results[i])'
      OBVIOUS
    <3>1. (i \in 1..Len(results) /\ results'[i] = results[i]) \/ results'[i] = result
      BY <2>2, <2>3, AppendFacts
    <3>2. GoodResult(results'[i])
      BY <2>2, <3>1
    <3> QED
      BY <2>4, <3>2 DEF GoodResult
  <2> QED
    BY <2>4, <2>5 DEF GoodTask, GoodResult
<1>13. ASSUME NEW w \in Workers, Panic(w) PROVE WellFormed'
  BY <1>13 DEF Panic, Tasks, Results, NoTask, GoodTask, GoodResult, RunningWorkers
<1> QED
  BY <1>1, <1>2, <1>3, <1>4, <1>5, <1>6, <1>7, <1>8, <1>9, <1>10, <1>11, <1>12, <1>13
  DEF Next, Main, Worker, Play

(* In the queue, a result received is settled and in no other place. *)
LEMMA OnePlaceStep ==
  ASSUME TypeOK, WellFormed, OnePlace, Next
  PROVE  OnePlace'
<1> USE QueueAssumption DEF TypeOK, OnePlace, loop, threads
<1>1. CASE Dispatch
  BY <1>1
  DEF Dispatch, MayDispatch, Tasks, Results, NoTask, Episodes, WellFormed, GoodTask, GoodResult,
      RunningWorkers, Settled
<1>2. CASE DispatchFails
  BY <1>2
  DEF DispatchFails, Leave, Tasks, Results, NoTask, Episodes, WellFormed, GoodTask, GoodResult,
      RunningWorkers, Settled
<1>3. CASE Receive
  <2> SUFFICES ASSUME program = "queue" PROVE OnePlace'
    BY <1>3 DEF Receive
  <2> DEFINE first == results[1].episode
  <2>1. Head(results) \in Results /\ Head(results) = results[1] /\ 1 \in 1..Len(results)
    BY <1>3, TailFacts DEF Receive
  <2>2. \A i \in 1..Len(results') : i + 1 \in 1..Len(results) /\ results'[i] = results[i + 1]
    BY <1>3, TailFacts DEF Receive
  <2>3. UNCHANGED <<batch, tasks, worker, task>> /\ RunningWorkers' = RunningWorkers
    BY <1>3 DEF Receive, RunningWorkers
  <2>4. Settled' \subseteq Settled \union {first}
    <3>1. GoodResult(Head(results))
      BY <2>1 DEF WellFormed
    <3>2. Merge(Head(results)) \subseteq policies \union {first}
      BY <2>1, <3>1 DEF Merge, GoodResult, Results
    <3>3. CASE ReceiveFailed(Head(results))
      BY <2>1, <3>3 DEF ReceiveFailed, Settled
    <3>4. CASE ReceiveOk(Head(results))
      BY <3>2, <3>4 DEF ReceiveOk, Settled
    <3>5. CASE CompletedGameFails(Head(results))
      BY <3>2, <3>5 DEF CompletedGameFails, Settled
    <3> QED
      BY <1>3, <3>3, <3>4, <3>5 DEF Receive
  <2>5. \A i \in 1..Len(results') :
          /\ results'[i].episode = results[i + 1].episode /\ results'[i].episode # first
          /\ results'[i].episode \notin Settled
    <3> SUFFICES ASSUME NEW i \in 1..Len(results')
                 PROVE  /\ results'[i].episode = results[i + 1].episode /\ results'[i].episode # first
                        /\ results'[i].episode \notin Settled
      OBVIOUS
    <3>1. i + 1 \in 1..Len(results) /\ results'[i] = results[i + 1] /\ i + 1 # 1
      BY <2>2
    <3> QED
      BY <2>1, <3>1
  <2>6. \A i, j \in 1..Len(results') : results'[i].episode = results'[j].episode => i = j
    <3> SUFFICES ASSUME NEW i \in 1..Len(results'), NEW j \in 1..Len(results'),
                        results'[i].episode = results'[j].episode
                 PROVE  i = j
      OBVIOUS
    <3>1. /\ i + 1 \in 1..Len(results) /\ j + 1 \in 1..Len(results)
          /\ results[i + 1].episode = results[j + 1].episode
      BY <2>2
    <3>2. i + 1 = j + 1
      BY <3>1
    <3> QED
      BY <3>2
  <2>7. \A i \in 1..Len(tasks) :
          /\ tasks[i].episode \notin Settled'
          /\ \A j \in 1..Len(results') : tasks[i].episode # results'[j].episode
    <3> SUFFICES ASSUME NEW i \in 1..Len(tasks)
                 PROVE  /\ tasks[i].episode \notin Settled'
                        /\ \A j \in 1..Len(results') : tasks[i].episode # results'[j].episode
      OBVIOUS
    <3>1. tasks[i].episode \notin Settled /\ \A j \in 1..Len(results) : tasks[i].episode # results[j].episode
      OBVIOUS
    <3>2. tasks[i].episode # first /\ tasks[i].episode \notin Settled'
      BY <2>1, <2>4, <3>1
    <3>3. ASSUME NEW j \in 1..Len(results') PROVE tasks[i].episode # results'[j].episode
      <4>1. j + 1 \in 1..Len(results) /\ results'[j] = results[j + 1]
        BY <2>2
      <4>2. tasks[i].episode # results[j + 1].episode
        BY <3>1, <4>1
      <4> QED
        BY ONLY <4>1, <4>2
    <3> QED
      BY <3>2, <3>3
  <2>8. \A v \in RunningWorkers :
          /\ task[v].episode \notin Settled'
          /\ \A j \in 1..Len(results') : task[v].episode # results'[j].episode
    BY <2>1, <2>2, <2>4, SMTT(30)
  <2>9. \A j \in 1..Len(results') : results'[j].episode \notin Settled'
    BY <2>4, <2>5
  <2> QED
    BY <2>3, <2>6, <2>7, <2>8, <2>9
<1>4. CASE ReceiveOfBatch
  BY <1>4
  DEF ReceiveOfBatch, Leave, Tasks, Results, NoTask, Episodes, WellFormed, GoodTask, GoodResult,
      RunningWorkers, Settled
<1>5. CASE MergeBatch
  BY <1>5
  DEF MergeBatch, Leave, Tasks, Results, NoTask, Episodes, WellFormed, GoodTask, GoodResult,
      RunningWorkers, Settled
<1>6. CASE ResultsClosed
  BY <1>6
  DEF ResultsClosed, Leave, Tasks, Results, NoTask, Episodes, WellFormed, GoodTask, GoodResult,
      RunningWorkers, Settled
<1>7. CASE AllCounted
  BY <1>7
  DEF AllCounted, Leave, Tasks, Results, NoTask, Episodes, WellFormed, GoodTask, GoodResult,
      RunningWorkers, Settled
<1>8. CASE Join
  BY <1>8
  DEF Join, Tasks, Results, NoTask, Episodes, WellFormed, GoodTask, GoodResult, RunningWorkers, Settled
<1>9. ASSUME NEW w \in Workers, TakeLock(w) PROVE OnePlace'
  BY <1>9
  DEF TakeLock, Tasks, Results, NoTask, Episodes, WellFormed, GoodTask, GoodResult, RunningWorkers, Settled
<1>10. ASSUME NEW w \in Workers, TakeTask(w) PROVE OnePlace'
  BY <1>10
  DEF TakeTask, Tasks, Results, NoTask, Episodes, WellFormed, GoodTask, GoodResult, RunningWorkers, Settled
<1>11. ASSUME NEW w \in Workers, Stop(w) PROVE OnePlace'
  BY <1>11
  DEF Stop, Tasks, Results, NoTask, Episodes, WellFormed, GoodTask, GoodResult, RunningWorkers, Settled
<1>12. ASSUME NEW w \in Workers, NEW ok \in BOOLEAN, FinishGame(w, ok) PROVE OnePlace'
  BY <1>12
  DEF FinishGame, Tasks, Results, NoTask, Episodes, WellFormed, GoodTask, GoodResult, RunningWorkers,
      Settled
<1>13. ASSUME NEW w \in Workers, Panic(w) PROVE OnePlace'
  BY <1>13
  DEF Panic, Tasks, Results, NoTask, Episodes, WellFormed, GoodTask, GoodResult, RunningWorkers, Settled
<1> QED
  BY <1>1, <1>2, <1>3, <1>4, <1>5, <1>6, <1>7, <1>8, <1>9, <1>10, <1>11, <1>12, <1>13
  DEF Next, Main, Worker, Play

(* In the run, the policies change only when nothing is in flight. *)
LEMMA SameStartStep ==
  ASSUME TypeOK, Counted, WellFormed, SameStart, Next
  PROVE  SameStart'
<1> USE QueueAssumption DEF TypeOK, SameStart, loop, threads
<1>1. CASE Dispatch
  BY <1>1 DEF Dispatch, MayDispatch, Tasks, Results, NoTask, Episodes, RunningWorkers, Panicked
<1>2. CASE DispatchFails
  BY <1>2 DEF DispatchFails, Leave, Tasks, Results, NoTask, Episodes, RunningWorkers, Panicked
<1>3. CASE Receive
  BY <1>3
  DEF Receive, ReceiveFailed, ReceiveOk, CompletedGameFails, Merge, Leave, Tasks, Results, NoTask,
      Episodes, RunningWorkers, Panicked
<1>4. CASE ReceiveOfBatch
  <2>1. Head(results) \in Results /\ Head(results) = results[1] /\ 1 \in 1..Len(results)
    BY <1>4, TailFacts DEF ReceiveOfBatch
  <2>2. \A i \in 1..Len(results') : i + 1 \in 1..Len(results) /\ results'[i] = results[i + 1]
    BY <1>4, TailFacts DEF ReceiveOfBatch
  <2>3. /\ UNCHANGED <<program, tasks, worker, task, policies, failed>> /\ RunningWorkers' = RunningWorkers
        /\ Panicked' = Panicked
    BY <1>4 DEF ReceiveOfBatch, RunningWorkers, Panicked
  <2>4. program = "run" => \A i \in 1..Len(results') : results'[i].start = policies'
    BY <2>2, <2>3
  <2>5. program = "run" => \A i \in 1..Len(batch') : batch'[i].start = policies'
    <3>1. CASE batch' = batch
      BY <2>3, <3>1
    <3>2. CASE batch' = Append(batch, Head(results))
      <4> SUFFICES ASSUME program = "run", NEW i \in 1..Len(batch') PROVE batch'[i].start = policies'
        OBVIOUS
      <4>1. (i \in 1..Len(batch) /\ batch'[i] = batch[i]) \/ batch'[i] = Head(results)
        BY <2>1, <3>2, AppendFacts
      <4> QED
        BY <2>1, <2>3, <4>1
    <3> QED
      BY <1>4, <3>1, <3>2 DEF ReceiveOfBatch
  <2> QED
    BY <2>3, <2>4, <2>5
<1>5. CASE MergeBatch
  <2>1. tasks = <<>> /\ RunningWorkers = {} /\ results = <<>>
    BY <1>5, NoneInFlight DEF MergeBatch
  <2>2. UNCHANGED <<program, tasks, worker, task, results, failed>> /\ batch' = <<>>
        /\ RunningWorkers' = RunningWorkers /\ Panicked' = Panicked
    BY <1>5 DEF MergeBatch, RunningWorkers, Panicked
  <2> QED
    BY <2>1, <2>2
<1>6. CASE ResultsClosed
  BY <1>6 DEF ResultsClosed, Leave, Tasks, Results, NoTask, Episodes, RunningWorkers, Panicked
<1>7. CASE AllCounted
  BY <1>7 DEF AllCounted, Leave, Tasks, Results, NoTask, Episodes, RunningWorkers, Panicked
<1>8. CASE Join
  BY <1>8 DEF Join, Tasks, Results, NoTask, Episodes, RunningWorkers, Panicked
<1>9. ASSUME NEW w \in Workers, TakeLock(w) PROVE SameStart'
  BY <1>9 DEF TakeLock, Tasks, Results, NoTask, Episodes, RunningWorkers, Panicked
<1>10. ASSUME NEW w \in Workers, TakeTask(w) PROVE SameStart'
  BY <1>10 DEF TakeTask, Tasks, Results, NoTask, Episodes, RunningWorkers, Panicked
<1>11. ASSUME NEW w \in Workers, Stop(w) PROVE SameStart'
  BY <1>11 DEF Stop, Tasks, Results, NoTask, Episodes, RunningWorkers, Panicked
<1>12. ASSUME NEW w \in Workers, NEW ok \in BOOLEAN, FinishGame(w, ok) PROVE SameStart'
  BY <1>12 DEF FinishGame, Tasks, Results, NoTask, Episodes, RunningWorkers, Panicked
<1>13. ASSUME NEW w \in Workers, Panic(w) PROVE SameStart'
  BY <1>13 DEF Panic, Tasks, Results, NoTask, Episodes, RunningWorkers, Panicked
<1> QED
  BY <1>1, <1>2, <1>3, <1>4, <1>5, <1>6, <1>7, <1>8, <1>9, <1>10, <1>11, <1>12, <1>13
  DEF Next, Main, Worker, Play

(* Neither form of merge drops a completed game or adds a failed one. *)
LEMMA MergedStep ==
  ASSUME TypeOK, WellFormed, OnePlace, SameStart, MergesKept, Next
  PROVE  MergesKept'
<1> USE QueueAssumption DEF TypeOK, WellFormed, OnePlace, SameStart, MergesKept, loop, threads
<1>1. CASE Dispatch
  BY <1>1 DEF Dispatch, MayDispatch
<1>2. CASE DispatchFails
  BY <1>2 DEF DispatchFails, Leave
<1>3. CASE Receive
  <2> DEFINE first == Head(results).episode
  <2>1. Head(results) \in Results /\ Head(results) = results[1] /\ 1 \in 1..Len(results)
    BY <1>3, TailFacts DEF Receive
  <2>2. first \notin policies /\ first \notin failed /\ GoodResult(Head(results))
    BY <1>3, <2>1 DEF Receive, Settled
  <2>3. Merge(Head(results)) = policies \union {first}
    BY <2>1, <2>2 DEF Merge, GoodResult, Results
  <2>7. first \notin completed
    BY <2>2
  <2>4. CASE ReceiveFailed(Head(results))
    <3>1. failed' = failed \union {first} /\ UNCHANGED <<policies, completed>>
      BY <2>4 DEF ReceiveFailed
    <3>2. completed \subseteq policies /\ failed \intersect policies = {}
      OBVIOUS
    <3> QED
      BY ONLY <2>2, <2>7, <3>1, <3>2 DEF MergesKept
  <2>5. CASE ReceiveOk(Head(results))
    <3>1. /\ policies' = policies \union {first} /\ completed' \subseteq completed \union {first}
          /\ failed' = failed
      BY <2>3, <2>5 DEF ReceiveOk
    <3>2. completed \subseteq policies /\ failed \intersect policies = {}
      OBVIOUS
    <3> QED
      BY ONLY <2>2, <3>1, <3>2 DEF MergesKept
  <2>6. CASE CompletedGameFails(Head(results))
    <3>1. /\ policies' = policies \union {first} /\ completed' \subseteq completed \union {first}
          /\ failed' = failed
      BY <2>3, <2>6 DEF CompletedGameFails
    <3>2. completed \subseteq policies /\ failed \intersect policies = {}
      OBVIOUS
    <3> QED
      BY ONLY <2>2, <3>1, <3>2 DEF MergesKept
  <2> QED
    BY <1>3, <2>4, <2>5, <2>6 DEF Receive
<1>4. CASE ReceiveOfBatch
  BY <1>4 DEF ReceiveOfBatch, Leave
<1>5. CASE MergeBatch
  <2>1. program = "run" /\ failed' = {}
    BY <1>5 DEF MergeBatch
  <2>2. \A r \in Batch :
            /\ r.start = policies /\ r.policies = policies \union {r.episode}
            /\ r.episode \notin policies
    <3> SUFFICES ASSUME NEW i \in 1..Len(batch)
                 PROVE  /\ batch[i].start = policies
                        /\ batch[i].policies = policies \union {batch[i].episode}
                        /\ batch[i].episode \notin policies
      BY BatchElements
    <3>1. GoodResult(batch[i]) /\ batch[i] \in Results /\ batch[i].start = policies
      BY <2>1
    <3> QED
      BY <3>1 DEF GoodResult, Results, Episodes
  <2>3. policies \union {r.episode : r \in Batch} \subseteq policies'
    <3>1. CASE Len(batch) = 1
      <4>1. \A r \in Batch : r = batch[1]
        BY <3>1, BatchElements
      <4>2. policies' = batch[1].policies /\ batch[1] \in Batch
        BY <1>5, <3>1, BatchElements DEF MergeBatch
      <4> QED
        BY <2>2, <4>1, <4>2
    <3>2. CASE Len(batch) # 1
      <4>1. policies' = policies \union UNION {r.policies \ r.start : r \in Batch}
        BY <1>5, <3>2 DEF MergeBatch
      <4>2. \A r \in Batch : r.episode \in r.policies \ r.start
        BY <2>2
      <4> QED
        BY <4>1, <4>2
    <3> QED
      BY <3>1, <3>2
  <2>4. completed' = completed \/ completed' = completed \union {r.episode : r \in Batch}
    BY <1>5 DEF MergeBatch
  <2> QED
    BY <2>1, <2>3, <2>4
<1>6. CASE ResultsClosed
  BY <1>6 DEF ResultsClosed, Leave
<1>7. CASE AllCounted
  BY <1>7 DEF AllCounted, Leave
<1>8. CASE Join
  BY <1>8 DEF Join
<1>9. ASSUME NEW w \in Workers, TakeLock(w) PROVE MergesKept'
  BY <1>9 DEF TakeLock
<1>10. ASSUME NEW w \in Workers, TakeTask(w) PROVE MergesKept'
  BY <1>10 DEF TakeTask
<1>11. ASSUME NEW w \in Workers, Stop(w) PROVE MergesKept'
  BY <1>11 DEF Stop
<1>12. ASSUME NEW w \in Workers, NEW ok \in BOOLEAN, FinishGame(w, ok) PROVE MergesKept'
  BY <1>12 DEF FinishGame
<1>13. ASSUME NEW w \in Workers, Panic(w) PROVE MergesKept'
  BY <1>13 DEF Panic
<1> QED
  BY <1>1, <1>2, <1>3, <1>4, <1>5, <1>6, <1>7, <1>8, <1>9, <1>10, <1>11, <1>12, <1>13
  DEF Next, Main, Worker, Play

(* The invariant holds in every reachable state of either program. *)
LEMMA Invariance == Spec => []IInv
<1>1. ASSUME IInv, [Next]_vars PROVE IInv'
  <2>1. CASE Next
    BY <1>1, <2>1, LockStep, TypeStep, CountedStep, WellFormedStep, OnePlaceStep, SameStartStep, MergedStep
       DEF IInv
  <2>2. CASE UNCHANGED vars
    <3> USE <1>1, <2>2 DEF IInv, vars, loop, threads
    <3>1. TypeOK' /\ LockIdle'
      BY DEF TypeOK, LockIdle
    <3>2. Counted'
      BY DEF Counted, RunningWorkers, Panicked
    <3>3. WellFormed'
      BY DEF WellFormed, GoodTask, GoodResult, RunningWorkers
    <3>4. OnePlace'
      BY DEF OnePlace, Settled, RunningWorkers
    <3>5. SameStart' /\ MergesKept'
      BY DEF SameStart, MergesKept, RunningWorkers, Panicked
    <3> QED
      BY <3>1, <3>2, <3>3, <3>4, <3>5
  <2> QED
    BY <1>1, <2>1, <2>2
<1> QED
  BY <1>1, InitInv, PTL DEF Spec

-----------------------------------------------------------------------------
(* No game disappears.  That none is in two places or counted twice follows *)
(* by counting: the places are never more than the games found in them      *)
(* (OnceOnly), because a step either moves a game or takes one off both.    *)

Placed == Queued \union Running \union Sent \union lost \union completed \union failed

OnceOnly ==
  Cardinality(Placed) >= active + Len(batch) + Cardinality(completed) + Cardinality(failed)

NoneLost ==
  /\ lost = {task[w].episode : w \in Panicked} /\ lost \subseteq 0..nextEpisode - 1
  /\ ~firstError => 0..nextEpisode - 1 \subseteq Placed

(* Main leaves the loop with an error or with every game counted, and what  *)
(* is left in the channel is taken by the last worker that stops. *)
Ends ==
  /\ taskTx = (main = "loop")
  /\ main \in {"loop", "ok"} => ~firstError
  /\ main \in {"join", "ok"} /\ ~firstError => Cardinality(completed) + Cardinality(failed) >= Games
  /\ main = "ok" => Panicked = {}
  /\ main \in {"ok", "err"} => Alive = {}
  /\ \A w \in Workers : worker[w] = "stopped" => tasks = <<>> /\ ~taskTx

(* Main waits for a result or, at the end, for its workers ... *)
MainWaits ==
  \/ /\ main = "loop" /\ MoreGames /\ ~MayDispatch
     /\ results = <<>> /\ Alive # {} /\ ~(batch # <<>> /\ active = 0)
  \/ main = "join" /\ Alive # {}

(* ... and a worker for the mutex or with it for a task, or it has ended. *)
WorkerWaits(w) ==
  \/ worker[w] = "idle" /\ lock \notin {None, w}
  \/ lock = w /\ tasks = <<>> /\ taskTx
  \/ w \notin Alive

(* When all threads wait for each other, some workers have panicked and     *)
(* every game main still waits for is one of theirs: nothing else in the    *)
(* queue can make it hang, and the learning run not at all.                 *)
OnlyPanicsHang ==
  MainWaits /\ (\A w \in Workers : WorkerWaits(w)) =>
    /\ program = "queue" /\ main = "loop"
    /\ active = Cardinality(Panicked) /\ Panicked \notin {{}, Workers}

EpisodesOf(s) == {s[i].episode : i \in DOMAIN s}
Count == active + Len(batch) + Cardinality(completed) + Cardinality(failed)

(* Finite sets, and the games of a sequence or of some workers. *)

LEMMA ImageFacts ==
  ASSUME NEW S, IsFiniteSet(S), NEW f
  PROVE  /\ IsFiniteSet({f[x].episode : x \in S})
         /\ Cardinality({f[x].episode : x \in S}) <= Cardinality(S)
<1> DEFINE T == {f[x].episode : x \in S}
           g == [x \in S |-> f[x].episode]
<1>1. g \in [S -> T] /\ \A t \in T : \E x \in S : g[x] = t
  OBVIOUS
<1>2. g \in Surjection(S, T)
  BY <1>1 DEF Surjection
<1> HIDE DEF g, T
<1>3. IsFiniteSet(T) /\ Cardinality(T) <= Cardinality(S)
  BY <1>2, FS_Surjection
<1> QED
  BY <1>3 DEF T

LEMMA SequenceGames ==
  ASSUME NEW S, NEW s \in Seq(S)
  PROVE  IsFiniteSet(EpisodesOf(s)) /\ Cardinality(EpisodesOf(s)) <= Len(s)
         /\ Cardinality(EpisodesOf(s)) \in Nat
<1>1. DOMAIN s = 1..Len(s) /\ Len(s) \in Nat
  OBVIOUS
<1>2. 1 \in Int /\ Len(s) \in Int
  BY <1>1
<1>3. IsFiniteSet(1..Len(s)) /\ Cardinality(1..Len(s)) = IF 1 > Len(s) THEN 0 ELSE Len(s) - 1 + 1
  BY <1>2, FS_Interval
<1>4. Cardinality(1..Len(s)) = Len(s)
  BY <1>1, <1>3
<1>5. /\ IsFiniteSet({s[x].episode : x \in 1..Len(s)})
      /\ Cardinality({s[x].episode : x \in 1..Len(s)}) <= Cardinality(1..Len(s))
  BY <1>3, ImageFacts
<1> QED
  BY <1>1, <1>4, <1>5, FS_CardinalityType DEF EpisodesOf

LEMMA AppendGames ==
  ASSUME NEW S, NEW s \in Seq(S), NEW e \in S
  PROVE  EpisodesOf(Append(s, e)) = EpisodesOf(s) \union {e.episode}
<1> DEFINE t == Append(s, e)
<1>1. /\ t \in Seq(S) /\ Len(s) \in Nat /\ Len(t) = Len(s) + 1 /\ t[Len(s) + 1] = e
      /\ \A i \in 1..Len(s) : t[i] = s[i]
      /\ \A i \in 1..Len(t) : i \in 1..Len(s) \/ i = Len(s) + 1
  BY AppendFacts
<1>2. DOMAIN t = 1..Len(t) /\ DOMAIN s = 1..Len(s)
  BY <1>1
<1> HIDE DEF t
<1>3. Len(s) + 1 \in 1..Len(t) /\ \A i \in 1..Len(s) : i \in 1..Len(t)
  BY <1>1
<1>4. EpisodesOf(t) = EpisodesOf(s) \union {e.episode}
  BY <1>1, <1>2, <1>3 DEF EpisodesOf
<1> QED
  BY <1>4 DEF t

LEMMA TailGames ==
  ASSUME NEW S, NEW s \in Seq(S), s # <<>>
  PROVE  EpisodesOf(s) = {Head(s).episode} \union EpisodesOf(Tail(s))
<1> DEFINE t == Tail(s)
<1>1. /\ Head(s) = s[1] /\ t \in Seq(S) /\ Len(s) \in Nat \ {0} /\ Len(t) = Len(s) - 1
      /\ \A i \in 1..Len(t) : i + 1 \in 1..Len(s) /\ t[i] = s[i + 1]
  BY TailFacts
<1>2. DOMAIN t = 1..Len(t) /\ DOMAIN s = 1..Len(s)
  BY <1>1
<1> HIDE DEF t
<1>3. \A i \in 1..Len(s) : i = 1 \/ (i - 1 \in 1..Len(t) /\ (i - 1) + 1 = i)
  BY <1>1
<1>4. \A i \in 1..Len(s) : i = 1 \/ \E j \in 1..Len(t) : s[i] = t[j]
  BY <1>1, <1>3
<1>5. 1 \in 1..Len(s)
  BY <1>1
<1>6. EpisodesOf(s) = {s[i].episode : i \in 1..Len(s)} /\ EpisodesOf(t) = {t[i].episode : i \in 1..Len(t)}
  BY <1>2 DEF EpisodesOf
<1>7. EpisodesOf(s) \subseteq {Head(s).episode} \union EpisodesOf(t)
  <2> SUFFICES ASSUME NEW i \in 1..Len(s) PROVE s[i].episode \in {Head(s).episode} \union EpisodesOf(t)
    BY <1>6
  <2>1. CASE i = 1
    BY <1>1, <2>1
  <2>2. ASSUME NEW j \in 1..Len(t), s[i] = t[j] PROVE s[i].episode \in EpisodesOf(t)
    BY <1>6, <2>2
  <2> QED
    BY <1>4, <2>1, <2>2
<1>8. EpisodesOf(t) \subseteq EpisodesOf(s)
  <2> SUFFICES ASSUME NEW i \in 1..Len(t) PROVE t[i].episode \in EpisodesOf(s)
    BY <1>6
  <2>1. i + 1 \in 1..Len(s) /\ t[i] = s[i + 1]
    BY <1>1
  <2> QED
    BY <1>6, <2>1
<1>9. Head(s).episode \in EpisodesOf(s)
  BY <1>1, <1>5, <1>6
<1> QED
  BY <1>7, <1>8, <1>9 DEF t

LEMMA UnionBound ==
  ASSUME NEW S, IsFiniteSet(S), NEW T, IsFiniteSet(T)
  PROVE  /\ IsFiniteSet(S \union T) /\ Cardinality(S \union T) \in Nat
         /\ Cardinality(S \union T) <= Cardinality(S) + Cardinality(T)
<1>1. IsFiniteSet(S \cap T)
  BY FS_Intersection
<1>2. Cardinality(S) \in Nat /\ Cardinality(T) \in Nat /\ Cardinality(S \cap T) \in Nat
  BY <1>1, FS_CardinalityType
<1>3. /\ IsFiniteSet(S \union T)
      /\ Cardinality(S \union T) = Cardinality(S) + Cardinality(T) - Cardinality(S \cap T)
  BY FS_Union
<1> QED
  BY <1>2, <1>3, FS_CardinalityType

LEMMA CoverBound ==
  ASSUME NEW S, NEW T, IsFiniteSet(T), NEW X, IsFiniteSet(X), S \subseteq T \union X
  PROVE  /\ IsFiniteSet(S) /\ Cardinality(S) \in Nat
         /\ Cardinality(S) <= Cardinality(T) + Cardinality(X)
<1>1. /\ IsFiniteSet(T \union X) /\ Cardinality(T \union X) \in Nat
      /\ Cardinality(T \union X) <= Cardinality(T) + Cardinality(X)
  BY UnionBound
<1>2. IsFiniteSet(S) /\ Cardinality(S) <= Cardinality(T \union X)
  BY <1>1, FS_Subset
<1> QED
  BY <1>1, <1>2, FS_CardinalityType

(* The places, and how many games they can hold. *)
LEMMA SentIs ==
  /\ Queued = EpisodesOf(tasks) /\ Sent = EpisodesOf(results) \union EpisodesOf(batch)
  /\ Queued' = EpisodesOf(tasks') /\ Sent' = EpisodesOf(results') \union EpisodesOf(batch')
  /\ {r.episode : r \in Batch} = EpisodesOf(batch)
<1>1. {r.episode : r \in Batch} = EpisodesOf(batch) /\ {r.episode : r \in Batch'} = EpisodesOf(batch')
  BY DEF Batch, EpisodesOf
<1> QED
  BY <1>1 DEF Queued, Sent, EpisodesOf

LEMMA EpisodesFinite == ASSUME NEW S \in SUBSET Episodes PROVE IsFiniteSet(S) /\ Cardinality(S) \in Nat
<1>1. 0 \in Int /\ Games - 1 \in Int
  BY QueueAssumption
<1>2. IsFiniteSet(Episodes)
  BY <1>1, FS_Interval DEF Episodes
<1> QED
  BY <1>2, FS_Subset, FS_CardinalityType

LEMMA SevenBound ==
  ASSUME NEW A, IsFiniteSet(A), NEW B, IsFiniteSet(B), NEW C, IsFiniteSet(C), NEW D, IsFiniteSet(D),
         NEW E, IsFiniteSet(E), NEW F, IsFiniteSet(F), NEW G, IsFiniteSet(G)
  PROVE  /\ IsFiniteSet(A \union B \union (C \union D) \union E \union F \union G)
         /\ Cardinality(A \union B \union (C \union D) \union E \union F \union G)
              <= Cardinality(A) + Cardinality(B) + Cardinality(C) + Cardinality(D)
                 + Cardinality(E) + Cardinality(F) + Cardinality(G)
<1> DEFINE AB == A \union B
           CD == C \union D
           ABCD == AB \union CD
           ABCDE == ABCD \union E
           ABCDEF == ABCDE \union F
           All == ABCDEF \union G
<1>1. /\ Cardinality(A) \in Nat /\ Cardinality(B) \in Nat /\ Cardinality(C) \in Nat
      /\ Cardinality(D) \in Nat /\ Cardinality(E) \in Nat /\ Cardinality(F) \in Nat
      /\ Cardinality(G) \in Nat
  BY FS_CardinalityType
<1>2. IsFiniteSet(AB) /\ Cardinality(AB) \in Nat /\ Cardinality(AB) <= Cardinality(A) + Cardinality(B)
  BY UnionBound
<1>3. IsFiniteSet(CD) /\ Cardinality(CD) \in Nat /\ Cardinality(CD) <= Cardinality(C) + Cardinality(D)
  BY UnionBound
<1> HIDE DEF AB, CD
<1>4. /\ IsFiniteSet(ABCD) /\ Cardinality(ABCD) \in Nat
      /\ Cardinality(ABCD) <= Cardinality(AB) + Cardinality(CD)
  BY <1>2, <1>3, UnionBound
<1> HIDE DEF ABCD
<1>5. /\ IsFiniteSet(ABCDE) /\ Cardinality(ABCDE) \in Nat
      /\ Cardinality(ABCDE) <= Cardinality(ABCD) + Cardinality(E)
  BY <1>4, UnionBound
<1> HIDE DEF ABCDE
<1>6. /\ IsFiniteSet(ABCDEF) /\ Cardinality(ABCDEF) \in Nat
      /\ Cardinality(ABCDEF) <= Cardinality(ABCDE) + Cardinality(F)
  BY <1>5, UnionBound
<1> HIDE DEF ABCDEF
<1>7. /\ IsFiniteSet(All) /\ Cardinality(All) \in Nat
      /\ Cardinality(All) <= Cardinality(ABCDEF) + Cardinality(G)
  BY <1>6, UnionBound
<1> HIDE DEF All
<1>8. Cardinality(All) <= Cardinality(A) + Cardinality(B) + Cardinality(C) + Cardinality(D)
                          + Cardinality(E) + Cardinality(F) + Cardinality(G)
  BY <1>1, <1>2, <1>3, <1>4, <1>5, <1>6, <1>7
<1> QED
  BY <1>7, <1>8 DEF All, ABCDEF, ABCDE, ABCD, CD, AB

-----------------------------------------------------------------------------
(* What a step does to the places: the games of X, at most one for every    *)
(* game it takes off the count, are in no place after it.  Only a step that *)
(* ends in an error drops a game.                                           *)

Moves(X) ==
  /\ nextEpisode' = nextEpisode
  /\ Placed \subseteq Placed' \union X /\ (X # {} => firstError')
  /\ Count' + Cardinality(X) <= Count

PlacesUnchanged ==
  UNCHANGED <<tasks, results, batch, lost, completed, failed, active, nextEpisode>>

LEMMA CountTyped ==
  ASSUME TypeOK
  PROVE  /\ active \in Nat /\ Len(batch) \in Nat /\ Cardinality(completed) \in Nat
         /\ Cardinality(failed) \in Nat /\ Cardinality(lost) \in Nat
         /\ IsFiniteSet(completed) /\ IsFiniteSet(failed) /\ IsFiniteSet(lost)
         /\ Count \in Nat
<1>1. completed \in SUBSET Episodes /\ failed \in SUBSET Episodes /\ lost \in SUBSET Episodes
  BY DEF TypeOK
<1>2. active \in Nat /\ Len(batch) \in Nat
  BY DEF TypeOK
<1> QED
  BY <1>1, <1>2, EpisodesFinite DEF Count

LEMMA QuietMoves ==
  ASSUME TypeOK, PlacesUnchanged, Running' = Running
  PROVE  Moves({})
<1>1. Placed' = Placed
  BY DEF PlacesUnchanged, Placed, Queued, Sent, Batch
<1>2. Count' = Count /\ Cardinality({}) = 0 /\ Count \in Nat
  BY CountTyped, FS_EmptySet DEF PlacesUnchanged, Count
<1> QED
  BY <1>1, <1>2 DEF Moves, PlacesUnchanged

LEMMA OneMore ==
  ASSUME NEW S, IsFiniteSet(S), NEW e
  PROVE  Cardinality(S \union {e}) \in Nat /\ Cardinality(S \union {e}) <= Cardinality(S) + 1
BY UnionBound, FS_Singleton

(* The games that are played are the same while no worker starts or ends.   *)
LEMMA SameRunning ==
  ASSUME UNCHANGED <<worker, task>>
  PROVE  Running' = Running
BY DEF Running

(* Main takes a result off the channel. *)
LEMMA ReceiveMoves ==
  ASSUME TypeOK, Receive
  PROVE  \E X \in SUBSET Episodes : Moves(X)
<1> DEFINE result == Head(results)
<1>1. result \in Results /\ results # <<>> /\ results \in Seq(Results)
  BY TailFacts DEF Receive, TypeOK
<1>2. /\ Queued' = Queued /\ Running' = Running /\ lost' = lost /\ batch' = batch
      /\ nextEpisode' = nextEpisode /\ results' = Tail(results) /\ active' = active - 1
  BY SameRunning DEF Receive, threads, ReceiveFailed, ReceiveOk, CompletedGameFails, Queued
<1>3. EpisodesOf(results) = {result.episode} \union EpisodesOf(results')
  BY <1>1, <1>2, TailGames
<1>4. /\ Sent = EpisodesOf(results) \union EpisodesOf(batch)
      /\ Sent' = EpisodesOf(results') \union EpisodesOf(batch)
  BY <1>2, SentIs
<1>5. Sent \subseteq Sent' \union {result.episode}
  BY <1>3, <1>4
<1>6. PICK n \in Nat : n = Len(batch)
  BY CountTyped
<1>7. PICK c \in Nat, d \in Nat : c = Cardinality(completed) /\ d = Cardinality(failed)
  BY CountTyped
<1>8. active \in Nat /\ Count = active + n + c + d
  BY <1>6, <1>7, CountTyped DEF Count
<1>9. Len(batch') = n
  BY <1>2, <1>6
<1> HIDE DEF result
<1>10. CASE failed' = failed \union {result.episode} /\ completed' = completed
  <2>1. Placed \subseteq Placed'
    BY <1>2, <1>5, <1>10 DEF Placed
  <2>2. PICK m \in Nat : m = Cardinality(failed') /\ m <= d + 1
    BY <1>7, <1>10, OneMore, CountTyped
  <2>3. Count' = active - 1 + n + c + m
    BY <1>2, <1>7, <1>9, <1>10, <2>2 DEF Count
  <2>4. Count' + Cardinality({}) <= Count
    BY <1>8, <2>2, <2>3, FS_EmptySet
  <2> QED
    BY <1>2, <2>1, <2>4 DEF Moves
<1>11. CASE completed' = completed \union {result.episode} /\ failed' = failed
  <2>1. Placed \subseteq Placed'
    BY <1>2, <1>5, <1>11 DEF Placed
  <2>2. PICK m \in Nat : m = Cardinality(completed') /\ m <= c + 1
    BY <1>7, <1>11, OneMore, CountTyped
  <2>3. Count' = active - 1 + n + m + d
    BY <1>2, <1>7, <1>9, <1>11, <2>2 DEF Count
  <2>4. Count' + Cardinality({}) <= Count
    BY <1>8, <2>2, <2>3, FS_EmptySet
  <2> QED
    BY <1>2, <2>1, <2>4 DEF Moves
<1>12. CASE UNCHANGED <<completed, failed>> /\ firstError'
  <2>1. Placed \subseteq Placed' \union {result.episode}
    BY <1>2, <1>5, <1>12 DEF Placed
  <2>2. Count' = active - 1 + n + c + d
    BY <1>2, <1>7, <1>9, <1>12 DEF Count
  <2>3. Count' + Cardinality({result.episode}) <= Count
    <3>1. Cardinality({result.episode}) = 1
      BY FS_Singleton
    <3> QED
      BY <1>8, <2>2, <3>1
  <2>4. {result.episode} \in SUBSET Episodes
    BY <1>1 DEF Results
  <2> QED
    BY <1>2, <1>12, <2>1, <2>3, <2>4 DEF Moves
<1> QED
  BY <1>10, <1>11, <1>12 DEF Receive, ReceiveFailed, ReceiveOk, CompletedGameFails, Leave, result

LEMMA ReceiveOfBatchMoves ==
  ASSUME TypeOK, ReceiveOfBatch
  PROVE  \E X \in SUBSET Episodes : Moves(X)
<1> DEFINE result == Head(results)
<1>1. result \in Results /\ results # <<>> /\ results \in Seq(Results) /\ batch \in Seq(Results)
  BY TailFacts DEF ReceiveOfBatch, TypeOK
<1>2. /\ Queued' = Queued /\ Running' = Running /\ UNCHANGED <<lost, completed, failed>>
      /\ nextEpisode' = nextEpisode /\ results' = Tail(results) /\ active' = active - 1
  BY SameRunning DEF ReceiveOfBatch, threads, Queued
<1>3. EpisodesOf(results) = {result.episode} \union EpisodesOf(results')
  BY <1>1, <1>2, TailGames
<1>4. /\ Sent = EpisodesOf(results) \union EpisodesOf(batch)
      /\ Sent' = EpisodesOf(results') \union EpisodesOf(batch')
  BY SentIs
<1>5. PICK n \in Nat, c \in Nat, d \in Nat :
          n = Len(batch) /\ c = Cardinality(completed) /\ d = Cardinality(failed)
  BY CountTyped
<1>6. active \in Nat /\ Count = active + n + c + d
  BY <1>5, CountTyped DEF Count
<1> HIDE DEF result
<1>7. CASE batch' = Append(batch, result)
  <2>1. EpisodesOf(batch') = EpisodesOf(batch) \union {result.episode}
    BY <1>1, <1>7, AppendGames
  <2>2. Placed \subseteq Placed'
    BY <1>2, <1>3, <1>4, <2>1 DEF Placed
  <2>3. Len(batch') = n + 1
    BY <1>1, <1>5, <1>7
  <2>4. Count' = active - 1 + (n + 1) + c + d
    BY <1>2, <1>5, <2>3 DEF Count
  <2>5. Count' + Cardinality({}) <= Count
    BY <1>6, <2>4, FS_EmptySet
  <2> QED
    BY <1>2, <2>2, <2>5 DEF Moves
<1>8. CASE batch' = batch /\ firstError'
  <2>1. Placed \subseteq Placed' \union {result.episode}
    BY <1>2, <1>3, <1>4, <1>8 DEF Placed
  <2>2. Count' = active - 1 + n + c + d
    BY <1>2, <1>5, <1>8 DEF Count
  <2>3. Count' + Cardinality({result.episode}) <= Count
    <3>1. Cardinality({result.episode}) = 1
      BY FS_Singleton
    <3> QED
      BY <1>6, <2>2, <3>1
  <2>4. {result.episode} \in SUBSET Episodes
    BY <1>1 DEF Results
  <2> QED
    BY <1>2, <1>8, <2>1, <2>3, <2>4 DEF Moves
<1> QED
  BY <1>7, <1>8 DEF ReceiveOfBatch, Leave, result

(* A batch is counted whole, or its games are dropped with the error. *)
LEMMA MergeMoves ==
  ASSUME TypeOK, MergeBatch
  PROVE  \E X \in SUBSET Episodes : Moves(X)
<1> DEFINE games == EpisodesOf(batch)
<1>1. /\ Queued' = Queued /\ Running' = Running /\ UNCHANGED <<lost, failed, results>>
      /\ nextEpisode' = nextEpisode /\ batch' = <<>> /\ active' = active
  BY SameRunning DEF MergeBatch, threads, Queued
<1>2. batch \in Seq(Results)
  BY DEF TypeOK
<1>3. IsFiniteSet(games) /\ Cardinality(games) <= Len(batch) /\ Cardinality(games) \in Nat
  BY <1>2, SequenceGames
<1>4. Sent = EpisodesOf(results) \union games /\ EpisodesOf(results) \subseteq Sent'
  BY <1>1, SentIs
<1>5. PICK n \in Nat, c \in Nat, d \in Nat :
          n = Len(batch) /\ c = Cardinality(completed) /\ d = Cardinality(failed)
  BY CountTyped
<1>6. active \in Nat /\ Count = active + n + c + d
  BY <1>5, CountTyped DEF Count
<1>7. Len(batch') = 0
  BY <1>1
<1>8. games \in SUBSET Episodes
  <2>1. \A r \in Batch : r.episode \in Episodes
    BY BatchElements DEF Results
  <2>2. games = {r.episode : r \in Batch}
    BY SentIs
  <2> QED
    BY <2>1, <2>2
<1>9. \/ completed' = completed \union games
      \/ completed' = completed /\ firstError'
  BY SentIs DEF MergeBatch, Leave
<1> HIDE DEF games
<1>10. CASE completed' = completed \union games
  <2>1. Placed \subseteq Placed'
    BY <1>1, <1>4, <1>10 DEF Placed
  <2>2. PICK m \in Nat : m = Cardinality(completed') /\ m <= c + n
    <3>1. /\ Cardinality(completed \union games) \in Nat
          /\ Cardinality(completed \union games) <= Cardinality(completed) + Cardinality(games)
      BY <1>3, UnionBound, CountTyped
    <3> QED
      BY <1>3, <1>5, <1>10, <3>1
  <2>3. Count' = active + 0 + m + d
    BY <1>1, <1>5, <1>7, <2>2 DEF Count
  <2>4. Count' + Cardinality({}) <= Count
    BY <1>6, <2>2, <2>3, FS_EmptySet
  <2> QED
    BY <1>1, <2>1, <2>4 DEF Moves
<1>11. CASE completed' = completed /\ firstError'
  <2>1. Placed \subseteq Placed' \union games
    BY <1>1, <1>4, <1>11 DEF Placed
  <2>2. Count' = active + 0 + c + d
    BY <1>1, <1>5, <1>7, <1>11 DEF Count
  <2>3. Count' + Cardinality(games) <= Count
    BY <1>3, <1>5, <1>6, <2>2, SMTT(30)
  <2> QED
    BY <1>1, <1>8, <1>11, <2>1, <2>3 DEF Moves
<1> QED
  BY <1>9, <1>10, <1>11

(* A worker takes a task, ends a game or is lost with it: the game is in    *)
(* another place after the step, and the count stays as it is.              *)
LEMMA WorkerMoves ==
  ASSUME TypeOK, LockIdle, WellFormed, NEW w \in Workers,
         TakeTask(w) \/ Play(w) \/ Panic(w)
  PROVE  Moves({})
<1> SUFFICES Placed \subseteq Placed'
  <2>1. UNCHANGED <<active, nextEpisode, completed, failed, batch>>
    BY DEF TakeTask, Play, FinishGame, Panic, loop
  <2>2. Count' = Count /\ Cardinality({}) = 0 /\ Count \in Nat
    BY <2>1, CountTyped, FS_EmptySet DEF Count
  <2> QED
    BY <2>1, <2>2 DEF Moves
<1>1. worker \in [Workers -> {"idle", "running", "stopped", "panicked"}]
      /\ task \in [Workers -> Tasks \union {NoTask}]
  BY DEF TypeOK
<1>2. Running = {task[v].episode : v \in {u \in Workers : worker[u] = "running"}}
  BY DEF Running
<1>3. CASE TakeTask(w)
  <2>1. UNCHANGED <<results, batch, lost, completed, failed>> /\ Sent' = Sent
    BY <1>3 DEF TakeTask, loop, Sent, Batch
  <2>2. /\ tasks \in Seq(Tasks) /\ tasks # <<>> /\ tasks' = Tail(tasks)
        /\ worker' = [worker EXCEPT ![w] = "running"] /\ task' = [task EXCEPT ![w] = Head(tasks)]
        /\ worker[w] = "idle"
    BY <1>3, QueueAssumption DEF TakeTask, LockIdle, TypeOK
  <2>3. Queued = {Head(tasks).episode} \union Queued'
    BY <2>2, TailGames, SentIs
  <2>4. Head(tasks).episode \in Running'
    <3>1. worker'[w] = "running" /\ task'[w] = Head(tasks)
      BY <1>1, <2>2
    <3> QED
      BY <3>1 DEF Running
  <2>5. Running \subseteq Running'
    <3> SUFFICES ASSUME NEW v \in Workers, worker[v] = "running" PROVE task[v].episode \in Running'
      BY DEF Running
    <3>1. worker'[v] = "running" /\ task'[v] = task[v]
      BY <1>1, <2>2
    <3> QED
      BY <3>1 DEF Running
  <2> QED
    BY <2>1, <2>3, <2>4, <2>5 DEF Placed
<1>4. ASSUME worker[w] = "running", task' = task, worker' = [worker EXCEPT ![w] = "idle"]
             \/ worker' = [worker EXCEPT ![w] = "panicked"]
      PROVE  Running \subseteq Running' \union {task[w].episode}
  <2> SUFFICES ASSUME NEW v \in Workers, worker[v] = "running", v # w PROVE task[v].episode \in Running'
    BY DEF Running
  <2>1. worker'[v] = "running" /\ task'[v] = task[v]
    BY <1>1, <1>4
  <2> QED
    BY <2>1 DEF Running
<1>5. ASSUME NEW ok \in BOOLEAN, FinishGame(w, ok) PROVE Placed \subseteq Placed'
  <2> DEFINE result == [episode |-> task[w].episode, ok |-> ok, start |-> task[w].policies,
                        policies |-> task[w].policies \union {task[w].episode}]
  <2>1. UNCHANGED <<tasks, batch, lost, completed, failed>> /\ Queued' = Queued
    BY <1>5 DEF FinishGame, loop, Queued
  <2>2. task[w] \in Tasks
    BY <1>1, <1>5, QueueAssumption
       DEF FinishGame, WellFormed, GoodTask, RunningWorkers, TypeOK, NoTask, Tasks, Episodes
  <2>3. result \in Results /\ results \in Seq(Results)
    BY <2>2 DEF Results, Tasks, TypeOK
  <2>4. results' = Append(results, result) /\ result.episode = task[w].episode
    BY <1>5 DEF FinishGame
  <2> HIDE DEF result
  <2>5. EpisodesOf(results') = EpisodesOf(results) \union {task[w].episode}
    BY <2>3, <2>4, AppendGames
  <2>6. Sent' = Sent \union {task[w].episode}
    BY <2>1, <2>5, SentIs
  <2>7. Running \subseteq Running' \union {task[w].episode}
    BY <1>4, <1>5 DEF FinishGame
  <2> QED
    BY <2>1, <2>6, <2>7 DEF Placed
<1>6. CASE Panic(w)
  <2>1. /\ UNCHANGED <<tasks, results, batch, completed, failed>> /\ Queued' = Queued /\ Sent' = Sent
        /\ lost' = lost \union {task[w].episode}
    BY <1>6 DEF Panic, loop, Queued, Sent, Batch
  <2>2. Running \subseteq Running' \union {task[w].episode}
    BY <1>4, <1>6 DEF Panic
  <2> QED
    BY <2>1, <2>2 DEF Placed
<1> QED
  BY <1>3, <1>5, <1>6 DEF Play

LEMMA GamesMove ==
  ASSUME TypeOK, LockIdle, WellFormed, Next, ~Dispatch
  PROVE  \E X \in SUBSET Episodes : Moves(X)
<1>1. {} \in SUBSET Episodes
  OBVIOUS
<1>2. CASE DispatchFails \/ ResultsClosed \/ AllCounted \/ Join
  <2>1. PlacesUnchanged /\ UNCHANGED <<worker, task>>
    BY <1>2 DEF DispatchFails, ResultsClosed, AllCounted, Join, PlacesUnchanged, loop, threads
  <2> QED
    BY <1>1, <2>1, SameRunning, QuietMoves
<1>3. ASSUME NEW w \in Workers, TakeLock(w) PROVE \E X \in SUBSET Episodes : Moves(X)
  <2>1. PlacesUnchanged /\ UNCHANGED <<worker, task>>
    BY <1>3 DEF TakeLock, PlacesUnchanged, loop
  <2> QED
    BY <1>1, <2>1, SameRunning, QuietMoves
<1>4. ASSUME NEW w \in Workers, Stop(w) PROVE \E X \in SUBSET Episodes : Moves(X)
  <2>1. PlacesUnchanged /\ task' = task
    BY <1>4 DEF Stop, PlacesUnchanged, loop
  <2>2. {v \in Workers : worker'[v] = "running"} = {v \in Workers : worker[v] = "running"}
    BY <1>4, QueueAssumption DEF Stop, LockIdle, TypeOK
  <2>3. Running' = Running
    BY <2>1, <2>2 DEF Running
  <2> QED
    BY <1>1, <2>1, <2>3, QuietMoves
<1>5. ASSUME NEW w \in Workers, TakeTask(w) \/ Play(w) \/ Panic(w) PROVE Moves({})
  BY <1>5, WorkerMoves
<1> QED
  BY <1>1, <1>2, <1>3, <1>4, <1>5, ReceiveMoves, ReceiveOfBatchMoves, MergeMoves DEF Next, Main, Worker

(* Every place holds games dispatched already, so the next is not among them. *)
LEMMA PlacedBelow ==
  ASSUME TypeOK, WellFormed, MergesKept, NoneLost
  PROVE  Placed \subseteq 0..nextEpisode - 1
<1>1. nextEpisode \in Nat
  BY DEF TypeOK
<1>2. /\ lost \subseteq 0..nextEpisode - 1 /\ completed \subseteq 0..nextEpisode - 1
      /\ failed \subseteq 0..nextEpisode - 1
  BY DEF NoneLost, WellFormed, MergesKept
<1>3. \A e \in Episodes : e < nextEpisode => e \in 0..nextEpisode - 1
  BY <1>1, QueueAssumption DEF Episodes
<1>4. Queued \subseteq 0..nextEpisode - 1
  <2> SUFFICES ASSUME NEW i \in DOMAIN tasks PROVE tasks[i].episode \in 0..nextEpisode - 1
    BY DEF Queued
  <2>1. tasks[i] \in Tasks /\ GoodTask(tasks[i])
    BY DEF WellFormed, TypeOK
  <2> QED
    BY <1>3, <2>1 DEF GoodTask, Tasks
<1>5. Running \subseteq 0..nextEpisode - 1
  <2> SUFFICES ASSUME NEW w \in RunningWorkers PROVE task[w].episode \in 0..nextEpisode - 1
    BY DEF Running, RunningWorkers
  <2>1. task[w] \in Tasks \union {NoTask} /\ GoodTask(task[w])
    BY DEF WellFormed, TypeOK, RunningWorkers
  <2>2. task[w].episode \in Nat
    BY <2>1, QueueAssumption DEF Tasks, NoTask, Episodes
  <2>3. task[w].episode < nextEpisode
    BY <2>1 DEF GoodTask
  <2> QED
    BY <1>1, <2>2, <2>3
<1>6. Sent \subseteq 0..nextEpisode - 1
  <2>1. \A r \in Results : GoodResult(r) => r.episode \in 0..nextEpisode - 1
    BY <1>3 DEF GoodResult, Results
  <2>2. \A i \in DOMAIN results : results[i] \in Results /\ GoodResult(results[i])
    BY DEF WellFormed, TypeOK
  <2>3. \A r \in Batch : r \in Results /\ GoodResult(r)
    BY BatchElements DEF WellFormed
  <2> QED
    BY <2>1, <2>2, <2>3 DEF Sent
<1> QED
  BY <1>2, <1>4, <1>5, <1>6 DEF Placed

LEMMA DispatchMoves ==
  ASSUME TypeOK, WellFormed, MergesKept, NoneLost, Dispatch
  PROVE  /\ nextEpisode \notin Placed /\ Placed' = Placed \union {nextEpisode}
         /\ Count' = Count + 1 /\ nextEpisode' = nextEpisode + 1 /\ firstError' = firstError
         /\ UNCHANGED <<completed, lost>> /\ Panicked' = Panicked
<1> DEFINE new == [episode |-> nextEpisode, policies |-> policies]
<1>1. /\ UNCHANGED <<results, batch, lost, completed, failed>> /\ UNCHANGED <<worker, task, firstError>>
      /\ active' = active + 1 /\ nextEpisode' = nextEpisode + 1
      /\ tasks' = Append(tasks, new) /\ new.episode = nextEpisode
  BY DEF Dispatch
<1>2. new \in Tasks /\ tasks \in Seq(Tasks)
  BY QueueAssumption DEF TypeOK, Dispatch, MayDispatch, Tasks, Episodes
<1> HIDE DEF new
<1>3. EpisodesOf(tasks') = EpisodesOf(tasks) \union {nextEpisode}
  BY <1>1, <1>2, AppendGames
<1>4. Placed' = Placed \union {nextEpisode}
  BY <1>1, <1>3, SentIs, SameRunning DEF Placed
<1>5. Count' = Count + 1
  BY <1>1, CountTyped, SMTT(30) DEF Count
<1>6. nextEpisode \notin Placed
  BY PlacedBelow DEF TypeOK
<1> QED
  BY <1>1, <1>4, <1>5, <1>6 DEF Panicked

LEMMA Sums ==
  ASSUME NEW p \in Nat, NEW a \in Nat, NEW b \in Nat, NEW c \in Nat, NEW d \in Nat,
         NEW e \in Nat, NEW f \in Nat, NEW g \in Nat, NEW i \in Nat, NEW j \in Nat, NEW k \in Nat,
         p <= a + b + c + d + e + f + g, a <= i, c <= j, d <= k
  PROVE  p <= i + b + j + k + e + f + g
OBVIOUS

(* The number of games that all the places together can hold. *)
LEMMA PlacedBound ==
  ASSUME TypeOK
  PROVE  /\ IsFiniteSet(Placed) /\ Cardinality(Placed) \in Nat
         /\ IsFiniteSet(Running) /\ Cardinality(Running) \in Nat
         /\ Cardinality(Running) <= Cardinality(RunningWorkers)
         /\ Cardinality(Placed) <= Len(tasks) + Cardinality(Running) + Len(results) + Len(batch)
              + Cardinality(lost) + Cardinality(completed) + Cardinality(failed)
<1>1. tasks \in Seq(Tasks) /\ results \in Seq(Results) /\ batch \in Seq(Results)
  BY DEF TypeOK
<1>2. /\ IsFiniteSet(EpisodesOf(tasks)) /\ IsFiniteSet(EpisodesOf(results))
      /\ IsFiniteSet(EpisodesOf(batch))
      /\ Cardinality(EpisodesOf(tasks)) \in Nat /\ Cardinality(EpisodesOf(tasks)) <= Len(tasks)
      /\ Cardinality(EpisodesOf(results)) \in Nat /\ Cardinality(EpisodesOf(results)) <= Len(results)
      /\ Cardinality(EpisodesOf(batch)) \in Nat /\ Cardinality(EpisodesOf(batch)) <= Len(batch)
  BY <1>1, SequenceGames
<1>3. Running = {task[w].episode : w \in RunningWorkers}
  BY DEF Running, RunningWorkers
<1>4. IsFiniteSet(Running) /\ Cardinality(Running) <= Cardinality(RunningWorkers)
  BY <1>3, WorkersFinite, ImageFacts
<1>5. Cardinality(Running) \in Nat
  BY <1>4, FS_CardinalityType
<1>6. Placed = EpisodesOf(tasks) \union Running \union (EpisodesOf(results) \union EpisodesOf(batch))
               \union lost \union completed \union failed
  BY SentIs DEF Placed
<1>7. /\ IsFiniteSet(Placed)
      /\ Cardinality(Placed) <= Cardinality(EpisodesOf(tasks)) + Cardinality(Running)
           + Cardinality(EpisodesOf(results)) + Cardinality(EpisodesOf(batch))
           + Cardinality(lost) + Cardinality(completed) + Cardinality(failed)
  BY <1>2, <1>4, <1>6, CountTyped, SevenBound
<1>8. Cardinality(Placed) \in Nat
  BY <1>7, FS_CardinalityType
<1>9. Len(tasks) \in Nat /\ Len(results) \in Nat /\ Len(batch) \in Nat
  BY <1>1
<1>10. Cardinality(Placed) <= Len(tasks) + Cardinality(Running) + Len(results) + Len(batch)
              + Cardinality(lost) + Cardinality(completed) + Cardinality(failed)
  BY <1>2, <1>5, <1>7, <1>8, <1>9, CountTyped, Sums
<1> QED
  BY <1>4, <1>5, <1>7, <1>8, <1>10

(* The same of the next state. *)
LEMMA PlacedTyped == TypeOK => IsFiniteSet(Placed) /\ Cardinality(Placed) \in Nat /\ Count \in Nat
BY PlacedBound, CountTyped

LEMMA PlacedTypedNext ==
  ASSUME TypeOK'
  PROVE  IsFiniteSet(Placed') /\ Cardinality(Placed') \in Nat /\ Count' \in Nat
<1>1. TypeOK' => (IsFiniteSet(Placed) /\ Cardinality(Placed) \in Nat /\ Count \in Nat)'
  BY PlacedTyped, PTL
<1> QED
  BY <1>1

LEMMA OnceOnlyStep ==
  ASSUME TypeOK, TypeOK', LockIdle, WellFormed, MergesKept, NoneLost, OnceOnly, Next
  PROVE  OnceOnly'
<1>1. IsFiniteSet(Placed') /\ Cardinality(Placed') \in Nat
  BY PlacedTypedNext
<1>2. IsFiniteSet(Placed) /\ Cardinality(Placed) \in Nat
  BY PlacedBound
<1>3. OnceOnly <=> Cardinality(Placed) >= Count
  BY DEF OnceOnly, Count
<1>4. OnceOnly' <=> Cardinality(Placed') >= Count'
  BY DEF OnceOnly, Count
<1>5. Count \in Nat
  BY CountTyped
<1>6. CASE Dispatch
  <2>1. Cardinality(Placed') = Cardinality(Placed) + 1
    BY <1>2, <1>6, DispatchMoves, FS_AddElement
  <2> QED
    BY <1>2, <1>3, <1>4, <1>5, <1>6, <2>1, DispatchMoves
<1>7. CASE ~Dispatch
  <2>1. PICK X \in SUBSET Episodes : Moves(X)
    BY <1>7, GamesMove
  <2>2. IsFiniteSet(X) /\ Cardinality(X) \in Nat
    BY EpisodesFinite
  <2>3. Cardinality(Placed) <= Cardinality(Placed') + Cardinality(X)
    BY <1>1, <2>1, <2>2, CoverBound DEF Moves
  <2>4. Count' + Cardinality(X) <= Count
    BY <2>1 DEF Moves
  <2>5. Count' \in Nat
    BY PlacedTypedNext
  <2> QED
    BY <1>1, <1>2, <1>3, <1>4, <1>5, <2>2, <2>3, <2>4, <2>5
<1> QED
  BY <1>6, <1>7

(* A game stays in some place until an error is recorded, and the record of *)
(* an error is never taken back.                                            *)
LEMMA NoneLostStep ==
  ASSUME TypeOK, LockIdle, WellFormed, MergesKept, NoneLost, Ends, Next
  PROVE  NoneLost'
<1>1. nextEpisode \in Nat /\ (nextEpisode' = nextEpisode \/ nextEpisode' = nextEpisode + 1)
  <2>1. nextEpisode \in Nat
    BY DEF TypeOK
  <2>2. ~Dispatch => nextEpisode' = nextEpisode
    BY GamesMove DEF Moves
  <2> QED
    BY <2>1, <2>2 DEF Dispatch
<1>2. 0..nextEpisode - 1 \subseteq 0..nextEpisode' - 1
  BY <1>1
<1>3. lost' = {task'[w].episode : w \in Panicked'} /\ lost' \subseteq 0..nextEpisode' - 1
  <2>1. CASE UNCHANGED <<lost, task>> /\ Panicked' = Panicked
    BY <1>2, <2>1 DEF NoneLost
  <2>2. CASE Main
    <3>1. UNCHANGED <<lost, task, worker>>
      BY <2>2 DEF Main, Dispatch, DispatchFails, Receive, ReceiveOfBatch, MergeBatch, ResultsClosed,
                  AllCounted, Join, threads
    <3> QED
      BY <2>1, <3>1 DEF Panicked
  <2>3. ASSUME NEW w \in Workers, TakeLock(w) \/ Stop(w) \/ Play(w)
        PROVE  UNCHANGED <<lost, task>> /\ Panicked' = Panicked
    BY <2>3, QueueAssumption DEF TakeLock, Stop, Play, FinishGame, Panicked, LockIdle, TypeOK
  <2>4. ASSUME NEW w \in Workers, TakeTask(w)
        PROVE  lost' = {task'[v].episode : v \in Panicked'} /\ lost' \subseteq 0..nextEpisode' - 1
    <3>1. lost' = lost /\ w \notin Panicked
      BY <2>4, QueueAssumption DEF TakeTask, Panicked, LockIdle
    <3>2. Panicked' = Panicked
      BY <2>4, <3>1 DEF TakeTask, Panicked, TypeOK
    <3>3. \A v \in Panicked : task'[v] = task[v]
      BY <2>4, <3>1 DEF TakeTask, Panicked, TypeOK
    <3> QED
      BY <1>2, <3>1, <3>2, <3>3 DEF NoneLost
  <2>5. ASSUME NEW w \in Workers, Panic(w)
        PROVE  lost' = {task'[v].episode : v \in Panicked'} /\ lost' \subseteq 0..nextEpisode' - 1
    <3>1. lost' = lost \union {task[w].episode} /\ task' = task /\ Panicked' = Panicked \union {w}
      BY <2>5 DEF Panic, Panicked, TypeOK
    <3>2. task[w].episode \in Running
      BY <2>5 DEF Panic, Running
    <3>3. task[w].episode \in 0..nextEpisode - 1
      BY <3>2, PlacedBelow DEF Placed
    <3> QED
      BY <1>2, <3>1, <3>3 DEF NoneLost
  <2> QED
    BY <2>1, <2>2, <2>3, <2>4, <2>5 DEF Next, Worker
<1>4. ASSUME ~firstError' PROVE 0..nextEpisode' - 1 \subseteq Placed'
  <2>1. ~firstError
    <3>1. CASE Main
      BY <1>4, <3>1
      DEF Main, Dispatch, DispatchFails, Receive, ReceiveFailed, ReceiveOk, CompletedGameFails,
                        ReceiveOfBatch, MergeBatch, ResultsClosed, AllCounted, Join, Leave, Ends
    <3>2. ASSUME NEW w \in Workers, Worker(w) PROVE ~firstError
      BY <1>4, <3>2 DEF Worker, TakeLock, TakeTask, Stop, Play, FinishGame, Panic
    <3> QED
      BY <3>1, <3>2 DEF Next
  <2>2. 0..nextEpisode - 1 \subseteq Placed
    BY <2>1 DEF NoneLost
  <2>3. CASE Dispatch
    <3>1. Placed' = Placed \union {nextEpisode} /\ nextEpisode' = nextEpisode + 1
      BY <2>3, DispatchMoves
    <3>2. 0..nextEpisode' - 1 \subseteq (0..nextEpisode - 1) \union {nextEpisode}
      BY <1>1, <3>1
    <3> QED
      BY <2>2, <3>1, <3>2
  <2>4. CASE ~Dispatch
    <3>1. PICK X \in SUBSET Episodes : Moves(X)
      BY <2>4, GamesMove
    <3> QED
      BY <1>4, <2>2, <3>1 DEF Moves
  <2> QED
    BY <2>3, <2>4
<1> QED
  BY <1>3, <1>4 DEF NoneLost

LEMMA EndsStep ==
  ASSUME TypeOK, LockIdle, Ends, Next
  PROVE  Ends'
<1>1. Cardinality(completed) \in Nat /\ Cardinality(failed) \in Nat
  BY CountTyped
<1>2. CASE Dispatch
  BY <1>2 DEF Dispatch, MayDispatch, MoreGames, Ends, Alive, Panicked
<1>3. CASE DispatchFails \/ ResultsClosed
  BY <1>3 DEF DispatchFails, ResultsClosed, MayDispatch, Leave, Ends, Alive, Panicked, threads, loop
<1>4. ASSUME main = "loop", UNCHANGED <<worker, tasks>>,
             UNCHANGED <<main, taskTx, firstError>> \/ Leave(TRUE)
      PROVE  Ends'
  <2>1. Panicked' = Panicked /\ taskTx /\ ~firstError /\ \A w \in Workers : worker[w] # "stopped"
    BY <1>4 DEF Ends, Panicked
  <2>2. \A w \in Workers : worker'[w] # "stopped"
    BY <1>4, <2>1
  <2>3. CASE UNCHANGED <<main, taskTx, firstError>>
    BY <1>4, <2>1, <2>2, <2>3 DEF Ends
  <2>4. CASE Leave(TRUE)
    BY <2>2, <2>4 DEF Ends, Leave
  <2> QED
    BY <1>4, <2>3, <2>4
<1>5. CASE Receive
  BY <1>4, <1>5 DEF Receive, ReceiveFailed, ReceiveOk, CompletedGameFails, threads
<1>6. CASE ReceiveOfBatch \/ MergeBatch
  BY <1>4, <1>6 DEF ReceiveOfBatch, MergeBatch, threads
<1>7. CASE AllCounted
  <2>1. /\ main = "loop" /\ main' = "join" /\ taskTx' = FALSE /\ firstError' = FALSE
        /\ ~MoreGames /\ UNCHANGED <<worker, tasks, completed, failed>>
    BY <1>7 DEF AllCounted, Leave, threads, loop
  <2>2. taskTx /\ ~firstError /\ \A w \in Workers : worker[w] # "stopped"
    BY <2>1 DEF Ends
  <2>3. Cardinality(completed) + Cardinality(failed) >= Games
    BY <1>1, <2>1, <2>2, QueueAssumption DEF MoreGames
  <2>4. \A w \in Workers : worker'[w] # "stopped"
    BY <2>1, <2>2
  <2>5. Cardinality(completed') + Cardinality(failed') >= Games
    BY <2>1, <2>3
  <2> QED
    BY <2>1, <2>4, <2>5 DEF Ends
<1>8. CASE Join
  BY <1>8 DEF Join, Ends, Alive, Panicked, threads, loop
<1>9. ASSUME NEW w \in Workers, Worker(w) PROVE Ends'
  <2>1. UNCHANGED <<main, firstError, taskTx, completed, failed>>
    BY <1>9 DEF Worker, TakeLock, TakeTask, Stop, Play, FinishGame, Panic, loop
  <2>2. worker[w] \in {"idle", "running"}
    BY <1>9, QueueAssumption DEF Worker, TakeLock, TakeTask, Stop, Play, FinishGame, Panic, LockIdle
  <2>3. main \notin {"ok", "err"}
    BY <2>2 DEF Alive, Ends
  <2>4. \A v \in Workers : worker'[v] = "stopped" => tasks' = <<>> /\ ~taskTx'
    <3>1. CASE TakeLock(w)
      BY <3>1 DEF TakeLock, Ends
    <3>2. CASE TakeTask(w)
      BY <3>2 DEF TakeTask, Ends, TypeOK
    <3>3. CASE Stop(w)
      BY <3>3 DEF Stop, Ends, TypeOK
    <3>4. CASE Play(w)
      BY <3>4 DEF Play, FinishGame, Ends, TypeOK
    <3>5. CASE Panic(w)
      BY <3>5 DEF Panic, Ends, TypeOK
    <3> QED
      BY <1>9, <3>1, <3>2, <3>3, <3>4, <3>5 DEF Worker
  <2> QED
    BY <2>1, <2>3, <2>4 DEF Ends
<1> QED
  BY <1>2, <1>3, <1>4, <1>5, <1>6, <1>7, <1>8, <1>9 DEF Next, Main

GInv == IInv /\ OnceOnly /\ NoneLost /\ Ends

LEMMA GamesInit == Init => OnceOnly /\ NoneLost /\ Ends
<1> SUFFICES ASSUME Init PROVE OnceOnly /\ NoneLost /\ Ends
  OBVIOUS
<1>1. Panicked = {} /\ \A w \in Workers : worker[w] = "idle"
  BY DEF Init, Panicked
<1>2. TypeOK
  BY InitInv DEF IInv
<1>3. active = 0 /\ Len(batch) = 0 /\ Cardinality(completed) = 0 /\ Cardinality(failed) = 0
  BY FS_EmptySet DEF Init
<1>4. OnceOnly
  BY <1>2, <1>3, PlacedBound DEF OnceOnly
<1>5. NoneLost
  BY <1>1 DEF NoneLost, Init
<1>6. Ends
  BY <1>1 DEF Ends, Init
<1> QED
  BY <1>4, <1>5, <1>6

LEMMA GamesInvariance == Spec => []GInv
<1>1. ASSUME GInv, IInv', [Next]_vars PROVE GInv'
  <2>1. CASE Next
    BY <1>1, <2>1, OnceOnlyStep, NoneLostStep, EndsStep DEF GInv, IInv
  <2>2. CASE UNCHANGED vars
    <3> USE <2>2 DEF vars, loop, threads
    <3>1. Placed' = Placed
      BY SameRunning DEF Placed, Queued, Sent, Batch
    <3>2. OnceOnly'
      BY <1>1, <3>1 DEF GInv, OnceOnly
    <3>3. NoneLost'
      BY <1>1, <3>1 DEF GInv, NoneLost, Panicked
    <3>4. Ends'
      BY <1>1 DEF GInv, Ends, Panicked, Alive
    <3> QED
      BY <1>1, <3>2, <3>3, <3>4 DEF GInv
  <2> QED
    BY <1>1, <2>1, <2>2
<1>2. Init /\ IInv => GInv
  BY GamesInit DEF GInv
<1> QED
  BY <1>1, <1>2, Invariance, PTL DEF Spec

(* The places are too few for any of them to be shared, so the count of     *)
(* each part is exact.                                                      *)
LEMMA ExactCount ==
  ASSUME GInv
  PROVE  /\ active = Len(tasks) + Cardinality(Running) + Len(results) + Cardinality(lost)
         /\ Cardinality(Placed) <= Count
<1>1. TypeOK /\ Counted /\ OnceOnly /\ NoneLost
  BY DEF GInv, IInv
<1>2. lost = {task[w].episode : w \in Panicked}
  BY <1>1 DEF NoneLost
<1>3. Cardinality(lost) <= Cardinality(Panicked)
  BY <1>2, WorkersFinite, ImageFacts
<1>4. Len(tasks) \in Nat /\ Len(results) \in Nat
  BY <1>1 DEF TypeOK
<1>5. active = Len(tasks) + Cardinality(RunningWorkers) + Len(results) + Cardinality(Panicked)
  BY <1>1 DEF Counted
<1>6. active + Len(batch) + Cardinality(completed) + Cardinality(failed) <= Cardinality(Placed)
  <2>1. active + Len(batch) + Cardinality(completed) + Cardinality(failed) \in Nat
    BY <1>1, CountTyped
  <2> QED
    BY <1>1, <2>1, PlacedBound DEF OnceOnly
<1> HIDE DEF GInv
<1>7. /\ Cardinality(Placed) \in Nat /\ Cardinality(Running) \in Nat
      /\ Cardinality(Placed) <= Len(tasks) + Cardinality(Running) + Len(results) + Len(batch)
           + Cardinality(lost) + Cardinality(completed) + Cardinality(failed)
      /\ Cardinality(Running) <= Cardinality(RunningWorkers)
  BY <1>1, PlacedBound
<1>8. /\ active \in Nat /\ Len(batch) \in Nat /\ Cardinality(completed) \in Nat
      /\ Cardinality(failed) \in Nat /\ Cardinality(lost) \in Nat
      /\ Cardinality(RunningWorkers) \in Nat /\ Cardinality(Panicked) \in Nat
  BY <1>1, CountTyped, WorkersFinite
<1>9. active <= Len(tasks) + Cardinality(Running) + Len(results) + Cardinality(lost)
  BY ONLY <1>4, <1>6, <1>7, <1>8, SMTT(30)
<1>10. Len(tasks) + Cardinality(Running) + Len(results) + Cardinality(lost) <= active
  BY ONLY <1>3, <1>4, <1>5, <1>7, <1>8, SMT
<1>11. active = Len(tasks) + Cardinality(Running) + Len(results) + Cardinality(lost)
  <2> DEFINE total == Len(tasks) + Cardinality(Running) + Len(results) + Cardinality(lost)
  <2>1. total \in Nat
    BY ONLY <1>4, <1>7, <1>8, SMT
  <2>2. active <= total /\ total <= active
    BY <1>9, <1>10
  <2> HIDE DEF total
  <2>3. active = total
    BY ONLY <1>8, <2>1, <2>2, SMT
  <2> QED
    BY <2>3 DEF total
<1>12. Cardinality(Placed) <= active + Len(batch) + Cardinality(completed) + Cardinality(failed)
  BY ONLY <1>4, <1>7, <1>8, <1>11, SMTT(30)
<1> QED
  BY <1>11, <1>12 DEF Count

LEMMA AccountsFollow ==
  ASSUME GInv
  PROVE  GamesAccounted
<1>1. TypeOK /\ Counted /\ WellFormed /\ MergesKept /\ OnceOnly /\ NoneLost /\ Ends
  BY DEF GInv, IInv
<1>2. ASSUME ~firstError PROVE Placed = 0..nextEpisode - 1 /\ nextEpisode = Count
  <2>1. nextEpisode \in Nat /\ Count \in Nat
    BY <1>1, CountTyped DEF TypeOK
  <2>2. Placed = 0..nextEpisode - 1
    BY <1>1, <1>2, PlacedBelow DEF NoneLost
  <2>3. 0 \in Int /\ nextEpisode - 1 \in Int
    BY <2>1
  <2>4. Cardinality(0..nextEpisode - 1) = IF 0 > nextEpisode - 1 THEN 0 ELSE nextEpisode - 1 - 0 + 1
    BY <2>3, FS_Interval
  <2>5. Cardinality(Placed) = nextEpisode
    BY <2>1, <2>2, <2>4
  <2>6. Cardinality(Placed) >= Count
    BY <1>1 DEF OnceOnly, Count
  <2> QED
    BY <2>1, <2>2, <2>5, <2>6, ExactCount
<1>3. ASSUME main = "ok" PROVE completed \union failed = Episodes /\ lost = {}
  <2>1. ~firstError /\ Panicked = {} /\ Cardinality(completed) + Cardinality(failed) >= Games
    BY <1>1, <1>3 DEF Ends
  <2>2. nextEpisode \in Nat /\ nextEpisode <= Games
    BY <1>1, QueueAssumption DEF TypeOK
  <2>3. nextEpisode = active + Len(batch) + Cardinality(completed) + Cardinality(failed)
    BY <1>2, <2>1 DEF Count
  <2>4. active = 0 /\ Len(batch) = 0 /\ nextEpisode = Games
    BY <1>1, <2>1, <2>2, <2>3, CountTyped, QueueAssumption
  <2>5. tasks = <<>> /\ RunningWorkers = {} /\ results = <<>> /\ batch = <<>>
    BY <1>1, <2>4, NoneInFlight DEF TypeOK
  <2>6. lost = {}
    BY <1>1, <2>1 DEF NoneLost
  <2>7. Queued = {} /\ Running = {} /\ Sent = {}
    BY <2>5 DEF Queued, Running, Sent, Batch, RunningWorkers
  <2>8. Placed = completed \union failed
    BY <2>6, <2>7 DEF Placed
  <2> QED
    BY <1>2, <2>1, <2>4, <2>6, <2>8 DEF Episodes
<1>4. ASSUME main \in {"ok", "err"} PROVE Alive = {} /\ tasks = <<>>
  <2>1. Alive = {}
    BY <1>1, <1>4 DEF Ends
  <2>2. CASE \E w \in Workers : worker[w] = "stopped"
    BY <1>1, <2>1, <2>2 DEF Ends
  <2>3. CASE \A w \in Workers : worker[w] # "stopped"
    <3>1. Panicked = Workers
      BY <2>1, <2>3 DEF Alive, Panicked
    <3>2. Cardinality(Panicked) = Parallel
      BY <3>1 DEF Parallel
    <3>3. Len(tasks) \in Nat /\ Len(results) \in Nat /\ active <= Parallel
      BY <1>1, WorkersFinite DEF TypeOK
    <3>4. Len(tasks) = 0
      BY <1>1, <3>2, <3>3, WorkersFinite, CountTyped DEF Counted
    <3> QED
      BY <1>1, <2>1, <3>4 DEF TypeOK
  <2> QED
    BY <2>2, <2>3
<1> QED
  BY <1>2, <1>3, <1>4, ExactCount DEF GamesAccounted, Placed, Count

-----------------------------------------------------------------------------
(* Theorems *)

(* Every variable stays in its range; in particular no more games are in    *)
(* flight than there are workers, so the bounded channel never blocks main. *)
THEOREM QueueTypeCorrect == Spec => []TypeOK
<1>1. IInv => TypeOK
  BY DEF IInv
<1> QED
  BY <1>1, Invariance, PTL

(* `active` is the number of tasks, running games, results and panicked     *)
(* workers: the merge that waits for zero misses no game.                   *)
THEOREM ActiveIsInFlight == Spec => []Counted
<1>1. IInv => Counted
  BY DEF IInv
<1> QED
  BY <1>1, Invariance, PTL

(* No merge undoes another: every completed game stays in the policies, and *)
(* no failed one ever enters them.                                          *)
THEOREM CompletedStayMerged == Spec => []MergesKept
<1>1. IInv => MergesKept
  BY DEF IInv
<1> QED
  BY <1>1, Invariance, PTL

(* For any pool and any number of games: without an error every game that   *)
(* was dispatched is in exactly one place, a report counts every game, and  *)
(* no thread or queued task is left when the call returns.                  *)
THEOREM NoGameDisappears == Spec => []GamesAccounted
<1>1. GInv => GamesAccounted
  BY AccountsFollow
<1> QED
  BY <1>1, GamesInvariance, PTL

(* For any pool and any number of games: only the panics of workers, and    *)
(* not of all of them, can leave main and the workers waiting for each      *)
(* other, and then main waits for nothing but their games.                  *)
THEOREM HangsOnlyAfterPanic == Spec => []OnlyPanicsHang
<1>1. ASSUME GInv, MainWaits, \A w \in Workers : WorkerWaits(w)
      PROVE  /\ program = "queue" /\ main = "loop"
             /\ active = Cardinality(Panicked) /\ Panicked \notin {{}, Workers}
  <2>1. TypeOK /\ Counted /\ LockIdle /\ OnePlace /\ SameStart /\ Ends
    BY <1>1 DEF GInv, IInv
  <2>2. PICK w \in Workers : w \in Alive
    BY <1>1 DEF MainWaits, Alive
  <2>3. lock \in Workers /\ worker[lock] = "idle"
    <3>1. WorkerWaits(w) /\ lock \in Workers \union {None} /\ None \notin Workers
      BY <1>1, <2>1, QueueAssumption DEF TypeOK
    <3>2. lock \in Workers
      BY <2>2, <3>1 DEF WorkerWaits
    <3> QED
      BY <2>1, <3>1, <3>2 DEF LockIdle
  <2>4. tasks = <<>> /\ taskTx
    BY <1>1, <2>3 DEF WorkerWaits, Alive
  <2>5. main = "loop" /\ MoreGames /\ ~MayDispatch /\ results = <<>> /\ ~(batch # <<>> /\ active = 0)
    BY <1>1, <2>1, <2>4 DEF Ends, MainWaits
  <2>6. RunningWorkers = {}
    <3>1. \A v \in Workers : worker[v] # "running"
      BY <1>1, <2>3 DEF WorkerWaits, Alive
    <3> QED
      BY <3>1 DEF RunningWorkers
  <2>7. /\ Len(tasks) = 0 /\ Len(results) = 0 /\ Cardinality(RunningWorkers) = 0
        /\ Cardinality(Panicked) \in Nat
    BY <2>4, <2>5, <2>6, WorkersFinite, FS_EmptySet
  <2>8. active = Cardinality(Panicked)
    BY <2>1, <2>7 DEF Counted
  <2>9. active # 0
    <3> SUFFICES ASSUME active = 0 PROVE FALSE
      OBVIOUS
    <3>1. batch = <<>> /\ ~firstError
      BY <2>5 DEF MoreGames
    <3>2. Panicked = {}
      BY <2>8, WorkersFinite, FS_EmptySet
    <3>3. nextEpisode = Cardinality(completed) + Cardinality(failed)
      <4>1. nextEpisode = active + Len(batch) + Cardinality(completed) + Cardinality(failed)
        BY <1>1, <3>1, AccountsFollow DEF GamesAccounted
      <4>2. Cardinality(completed) \in Nat /\ Cardinality(failed) \in Nat
        BY <2>1, EpisodesFinite DEF TypeOK
      <4>3. Len(batch) = 0
        BY <3>1
      <4> QED
        BY <3>1, <4>1, <4>2, <4>3
    <3>4. active < Parallel
      <4>1. Parallel \in Nat /\ Parallel # 0
        BY QueueAssumption, FS_EmptySet, FS_CardinalityType DEF Parallel
      <4> QED
        BY <4>1
    <3> QED
      BY <2>5, <3>1, <3>3, <3>4 DEF MayDispatch, MoreGames
  <2>10. Panicked # {} /\ Panicked # Workers
    <3>1. Panicked # {}
      BY <2>8, <2>9, FS_EmptySet
    <3>2. w \notin Panicked
      BY <2>2 DEF Panicked, Alive
    <3> QED
      BY <3>1, <3>2
  <2>11. program = "queue"
    BY <2>1, <2>10 DEF TypeOK, SameStart
  <2> QED
    BY <2>5, <2>8, <2>10, <2>11
<1>2. GInv => OnlyPanicsHang
  BY <1>1 DEF OnlyPanicsHang
<1> QED
  BY <1>2, GamesInvariance, PTL
=============================================================================
