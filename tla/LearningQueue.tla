---------------------------- MODULE LearningQueue ----------------------------
(***************************************************************************)
(* Two programs play games on a pool of workers and merge what they learn. *)
(* The queue (run_soccer_learning_queue_with_events of soccer_learning.rs) *)
(* keeps all workers busy and merges games in the order they finish.  The  *)
(* learning run (main_soccer_learning_run.rs) starts a batch, waits for    *)
(* all of it and merges it at once; its workers catch a panic of a game,   *)
(* and its first failed game ends it.                                      *)
(*                                                                         *)
(* A policy table is the set of the games whose deltas it holds: the       *)
(* weights of a merge and what prune drops are left out, and so is the     *)
(* neural network, of which the last game received wins.  The on_event     *)
(* callback only succeeds or fails here; what the queue binary does in it  *)
(* is in PolicyPromotion.  Of the learning run, the merge of a batch is    *)
(* the default one, of every game, before evolution and rollback.          *)
(***************************************************************************)
EXTENDS Naturals, Sequences, FiniteSets

CONSTANTS Workers, Games

None == "none"

ASSUME QueueAssumption ==
  IsFiniteSet(Workers) /\ Workers # {} /\ None \notin Workers /\ Games \in Nat

Episodes == 0..Games - 1
Parallel == Cardinality(Workers)
NoTask == [episode |-> Games, policies |-> {}]  \* before the first task
Tasks == [episode : Episodes, policies : SUBSET Episodes]
Results == [episode : Episodes, ok : BOOLEAN, policies : SUBSET Episodes, start : SUBSET Episodes]

VARIABLES
  program,    \* queue or run
  main,       \* loop, join, then the result of the call: ok or err
  active, nextEpisode, firstError,
  completed, failed,  \* the games counted as completed_games, failed_games
  policies,   \* the merged policies
  batch,      \* completed_games of the learning run: results not merged yet
  tasks,      \* the sync_channel of tasks
  taskTx,     \* TRUE until main drops its only sender
  lock,       \* the worker that holds the mutex of the task receiver
  worker,     \* of each worker: idle, running, stopped, panicked
  task,       \* the task a worker last took
  results,    \* the result channel
  lost        \* history: games whose worker panicked

threads == <<tasks, lock, worker, task, lost>>
loop == <<active, nextEpisode, completed, failed, policies>>
vars == <<program, main, loop, firstError, batch, threads, taskTx, results>>

Init ==
  /\ program \in {"queue", "run"} /\ batch = <<>>
  /\ main = "loop" /\ firstError = FALSE
  /\ active = 0 /\ nextEpisode = 0
  /\ completed = {} /\ failed = {} /\ policies = {}
  /\ tasks = <<>> /\ taskTx = TRUE /\ lock = None
  /\ worker = [w \in Workers |-> "idle"]
  /\ task = [w \in Workers |-> NoTask]
  /\ results = <<>> /\ lost = {}

Alive == {w \in Workers : worker[w] \notin {"stopped", "panicked"}}

-----------------------------------------------------------------------------
(* The main thread *)

MoreGames == Cardinality(completed) + Cardinality(failed) < Games /\ ~firstError

\* The run starts the whole batch before it waits for the first result.
MayDispatch ==
  main = "loop" /\ MoreGames /\ active < Parallel /\ nextEpisode < Games /\ batch = <<>>

(* Mutant: the sender lives on while the workers are joined. *)
LeaveKeepsSender(error) ==
  /\ main' = "join" /\ taskTx' = taskTx
  /\ firstError' = error

\* Leaving the loop drops the task sender.
Leave(error) ==
  /\ main' = "join" /\ taskTx' = FALSE
  /\ firstError' = error

(* A game starts from the policies merged so far. *)
Dispatch ==
  /\ MayDispatch /\ Alive # {}
  /\ tasks' = Append(tasks, [episode |-> nextEpisode, policies |-> policies])
  /\ active' = active + 1 /\ nextEpisode' = nextEpisode + 1
  /\ UNCHANGED <<program, batch, main, completed, failed, policies, firstError, taskTx, lock, worker, task, results, lost>>

(* StartingBatch, a validation or a refresh fails, or no worker is left.    *)
DispatchFails ==
  /\ MayDispatch
  /\ Leave(TRUE)
  /\ UNCHANGED <<program, batch, loop, threads, results>>

(* Mutant: the policies of the game replace the merged ones. *)
LastGameWins(result) == result.policies

\* merge_soccer_policy_deltas: what the game added to its own start.
Merge(result) == policies \union (result.policies \ result.start)

(* Mutant: a failed game stays active. *)
ReceiveFailedOnly(result) ==
  /\ ~result.ok
  /\ failed' = failed \union {result.episode}
  /\ UNCHANGED <<main, taskTx, firstError, active, completed, policies>>

ReceiveFailed(result) ==
  /\ ~result.ok
  /\ active' = active - 1
  /\ failed' = failed \union {result.episode}
  /\ UNCHANGED <<main, taskTx, firstError, completed, policies>>

ReceiveOk(result) ==
  /\ result.ok
  /\ active' = active - 1
  /\ policies' = Merge(result)
  /\ completed' = completed \union {result.episode}
  /\ UNCHANGED <<main, taskTx, firstError, failed>>

\* The CompletedGame callback fails after the merge, before the game counts.
CompletedGameFails(result) ==
  /\ result.ok
  /\ active' = active - 1
  /\ policies' = Merge(result)
  /\ Leave(TRUE)
  /\ UNCHANGED <<completed, failed>>

Receive ==
  /\ program = "queue" /\ main = "loop" /\ MoreGames /\ ~MayDispatch
  /\ results # <<>>
  /\ \/ ReceiveFailed(Head(results))
     \/ ReceiveOk(Head(results))
     \/ CompletedGameFails(Head(results))
  /\ results' = Tail(results)
  /\ UNCHANGED <<program, batch, nextEpisode, threads>>

(* The run: the first game that failed or panicked ends it. *)
ReceiveOfBatch ==
  /\ program = "run" /\ main = "loop" /\ MoreGames /\ ~MayDispatch
  /\ results # <<>>
  /\ active' = active - 1 /\ results' = Tail(results)
  /\ \/ /\ Head(results).ok
        /\ batch' = Append(batch, Head(results)) /\ UNCHANGED <<main, taskTx, firstError>>
     \/ ~Head(results).ok /\ Leave(TRUE) /\ UNCHANGED batch
  /\ UNCHANGED <<program, nextEpisode, completed, failed, policies, threads>>

Batch == {batch[i] : i \in DOMAIN batch}

(* The whole batch is here: a single game replaces the policies, several    *)
(* are merged; writing what became of them may fail.                        *)
MergeBatch ==
  /\ program = "run" /\ main = "loop" /\ batch # <<>> /\ active = 0
  /\ policies' = IF Len(batch) = 1 THEN batch[1].policies
                  ELSE policies \union UNION {r.policies \ r.start : r \in Batch}
  /\ \/ completed' = completed \union {r.episode : r \in Batch} /\ UNCHANGED <<main, taskTx, firstError>>
     \/ Leave(TRUE) /\ UNCHANGED completed
  /\ batch' = <<>>
  /\ UNCHANGED <<program, active, nextEpisode, failed, threads, results>>

(* recv fails once every worker has dropped its sender. *)
ResultsClosed ==
  /\ active > 0
  /\ main = "loop" /\ MoreGames /\ ~MayDispatch
  /\ results = <<>> /\ Alive = {}
  /\ Leave(TRUE)
  /\ UNCHANGED <<program, batch, loop, threads, results>>

AllCounted ==
  /\ main = "loop" /\ ~MoreGames
  /\ Leave(FALSE)
  /\ UNCHANGED <<program, batch, loop, threads, results>>

Join ==
  /\ main = "join" /\ Alive = {}
  /\ firstError' = (firstError \/ \E w \in Workers : worker[w] = "panicked")
  /\ main' = IF firstError' THEN "err" ELSE "ok"
  /\ UNCHANGED <<program, batch, loop, threads, taskTx, results>>

Main ==
  \/ Dispatch \/ DispatchFails \/ Receive \/ ReceiveOfBatch \/ MergeBatch
  \/ ResultsClosed \/ AllCounted \/ Join

-----------------------------------------------------------------------------
(* A worker waits for its task with the mutex locked. *)

TakeLock(w) ==
  /\ worker[w] = "idle" /\ lock = None
  /\ lock' = w
  /\ UNCHANGED <<program, batch, main, loop, firstError, tasks, worker, task, lost, taskTx, results>>

TakeTask(w) ==
  /\ lock = w /\ tasks # <<>>
  /\ lock' = None
  /\ tasks' = Tail(tasks)
  /\ task' = [task EXCEPT ![w] = Head(tasks)]
  /\ worker' = [worker EXCEPT ![w] = "running"]
  /\ UNCHANGED <<program, batch, main, loop, firstError, lost, taskTx, results>>

(* The queue is empty and its sender gone. *)
Stop(w) ==
  /\ lock = w /\ tasks = <<>> /\ ~taskTx
  /\ lock' = None
  /\ worker' = [worker EXCEPT ![w] = "stopped"]
  /\ UNCHANGED <<program, batch, main, loop, firstError, tasks, task, lost, taskTx, results>>

FinishGame(w, ok) ==
  /\ worker[w] = "running"
  /\ worker' = [worker EXCEPT ![w] = "idle"]
  /\ results' = Append(results,
       [episode |-> task[w].episode, ok |-> ok, start |-> task[w].policies,
        policies |-> task[w].policies \union {task[w].episode}])
  /\ UNCHANGED <<program, batch, main, loop, firstError, tasks, lock, task, lost, taskTx>>

(* Nothing of the queue catches a panic of the game: it takes the thread    *)
(* with it.  In the run it is a failed game.                                *)
Panic(w) ==
  /\ program = "queue" /\ worker[w] = "running"
  /\ worker' = [worker EXCEPT ![w] = "panicked"]
  /\ lost' = lost \union {task[w].episode}
  /\ UNCHANGED <<program, batch, main, loop, firstError, tasks, lock, task, taskTx, results>>

Play(w) == \E ok \in BOOLEAN : FinishGame(w, ok)

Worker(w) == TakeLock(w) \/ TakeTask(w) \/ Stop(w) \/ Play(w) \/ Panic(w)

Next == Main \/ \E w \in Workers : Worker(w)

\* Threads run while they can; a game has a fixed number of ticks.
Fairness == WF_vars(Main) /\ \A w \in Workers : WF_vars(Worker(w))

Spec == Init /\ [][Next]_vars /\ Fairness

-----------------------------------------------------------------------------
(* Properties *)

(* Every variable stays in its range, and never more games are in flight    *)
(* than there are workers, so the bounded task channel never blocks main.   *)
TypeOK ==
  /\ program \in {"queue", "run"} /\ batch \in Seq(Results)
  /\ main \in {"loop", "join", "ok", "err"} /\ firstError \in BOOLEAN
  /\ active \in 0..Parallel /\ nextEpisode \in 0..Games
  /\ completed \subseteq Episodes /\ failed \subseteq Episodes
  /\ policies \subseteq Episodes /\ lost \subseteq Episodes
  /\ tasks \in Seq(Tasks) /\ results \in Seq(Results)
  /\ taskTx \in BOOLEAN /\ lock \in Workers \union {None}
  /\ worker \in [Workers -> {"idle", "running", "stopped", "panicked"}]
  /\ task \in [Workers -> Tasks \union {NoTask}]

Queued == {tasks[i].episode : i \in DOMAIN tasks}
Running == {task[w].episode : w \in {v \in Workers : worker[v] = "running"}}
Sent == {results[i].episode : i \in DOMAIN results} \union {r.episode : r \in Batch}

(* The active count is what is really in flight, a lost game included, and  *)
(* without an error every game dispatched is in exactly one place: no game  *)
(* is played, merged or counted twice, and none disappears.  A run that     *)
(* returns a report has counted them all, and leaves no thread behind.      *)
GamesAccounted ==
  /\ active = Len(tasks) + Cardinality(Running) + Len(results) + Cardinality(lost)
  /\ ~firstError =>
       /\ nextEpisode = active + Len(batch) + Cardinality(completed) + Cardinality(failed)
       /\ Queued \union Running \union Sent \union lost \union completed \union failed
            = 0..nextEpisode - 1
  /\ main = "ok" => completed \union failed = Episodes /\ lost = {}
  /\ main \in {"ok", "err"} => Alive = {} /\ tasks = <<>>

(* A game that ran beside others does not undo what they learned: every     *)
(* completed game stays in the merged policies.                             *)
MergesKept == completed \subseteq policies /\ failed \intersect policies = {}

Ended == main \in {"ok", "err"}
Panicked == {w \in Workers : worker[w] = "panicked"}

(* The call returns when no worker panics, and when all of them do.         *)
RunEnds == <>[](Panicked \in {{}, Workers}) => <>Ended

(* soccer_learning.rs:5268: a worker's panic is the error of the run.       *)
PanicReported == Panicked # {} ~> main = "err"
=============================================================================
