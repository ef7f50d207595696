---------------------------- MODULE NeuralWorker ----------------------------
(***************************************************************************)
(* The threaded backend of SoccerNeuralLearner (src/src/des/general/       *)
(* soccer.rs): the simulation thread owns the learner and its counters, a  *)
(* worker thread owns the trainable network.  They talk over two bounded   *)
(* channels: commands (Train, Snapshot), only ever try_sent, and results   *)
(* (Trained, Snapshot), on which the worker blocks when they are full.     *)
(*                                                                         *)
(* A batch is a unit; a network is the number of batches it has learnt.    *)
(* Samples, losses and weights are left out, except that the loss of a     *)
(* batch may be non-finite, and that training may panic.                   *)
(***************************************************************************)
EXTENDS Integers, Sequences, SequencesExt

CONSTANTS
  MaxPending,  \* sanitized_max_pending_batches, also the channels' capacity
  MaxPerTick,  \* sanitized_max_batches_per_tick
  Cadence,     \* sanitized_snapshot_every_batches, 0 for never
  MaxOffered   \* bound on the batches of a behaviour (not in the code)

ASSUME NeuralAssumption ==
  /\ MaxPending \in Nat \ {0} /\ MaxPerTick \in Nat \ {0}
  /\ Cadence \in Nat /\ MaxOffered \in Nat

VARIABLES
  pc,        \* where the learner is
  then,      \* where it goes when drain_results finds nothing more
  want,      \* the batches it is about to submit
  pending, steps, dropped,  \* SoccerNeuralLearningStatsState
  snapshot,  \* last_network_snapshot and prediction_network
  offered,   \* history: batches that reached the submission
  receiving, \* the learner still holds the receiver of the results
  cancel,    \* the cancel flag
  sending,   \* the command sender is alive
  cmds, results,  \* the channels
  worker,    \* where the worker is
  job,       \* the Train command it works on
  net        \* its network

learner == <<pc, then, want, pending, steps, dropped, snapshot, offered>>
handle == <<receiving, cancel, sending>>
thread == <<worker, job, net>>
vars == <<pc, then, want, pending, steps, dropped, snapshot, offered,
          receiving, cancel, sending, cmds, results, worker, job, net>>

\* Command and WorkerResult of the two channels.
Commands ==
  [kind : {"Train"}, n : 0..MaxPerTick, snap : BOOLEAN] \union [kind : {"Snapshot"}]
Answers ==
  [kind : {"Trained"}, ok : 0..MaxPerTick, bad : 0..MaxPerTick]
    \union [kind : {"Snapshot"}, version : Nat]

NoJob == [left |-> 0, ok |-> 0, bad |-> 0, snap |-> FALSE]

Init ==
  /\ pc = "idle" /\ then = "idle" /\ want = 0
  /\ pending = 0 /\ steps = 0 /\ dropped = 0 /\ snapshot = 0 /\ offered = 0
  /\ receiving = TRUE /\ cancel = FALSE /\ sending = TRUE
  /\ cmds = <<>> /\ results = <<>>
  /\ worker = "recv" /\ job = NoJob /\ net = 0

-----------------------------------------------------------------------------
(* The learner, on the simulation thread *)

Train(n, snap) == [kind |-> "Train", n |-> n, snap |-> snap]
Trained(ok, bad) == [kind |-> "Trained", ok |-> ok, bad |-> bad]
AskSnapshot == [kind |-> "Snapshot"]
SnapshotOf(version) == [kind |-> "Snapshot", version |-> version]

DrainThen(next) == pc' = "drain" /\ then' = next

(* record_worker_result; failed batches count as dropped.                   *)
Record(res) ==
  IF res.kind = "Snapshot"
  THEN snapshot' = res.version /\ UNCHANGED <<pending, steps, dropped>>
  ELSE /\ pending' = pending - (res.ok + res.bad)
       /\ steps' = steps + res.ok
       /\ dropped' = dropped + res.bad
       /\ UNCHANGED snapshot

Receive ==
  /\ results # <<>> /\ Record(Head(results))
  /\ results' = Tail(results)
  /\ UNCHANGED <<want, offered, handle, cmds, thread>>

(* Mutant: the newest result first. *)
DrainNewest ==
  /\ pc = "drain" /\ results # <<>>
  /\ Record(Last(results)) /\ results' = Front(results)
  /\ UNCHANGED <<pc, then, want, offered, handle, cmds, thread>>

DrainOne == pc = "drain" /\ Receive /\ UNCHANGED <<pc, then>>

DrainDone ==
  /\ pc = "drain" /\ results = <<>>
  /\ pc' = then
  /\ UNCHANGED <<then, want, pending, steps, dropped, snapshot, offered,
                 handle, cmds, results, thread>>

(* submit_samples drains first; with no valid sample it stops there.        *)
SubmitSamples(n) ==
  /\ pc = "idle" /\ ~cancel /\ offered + n <= MaxOffered
  /\ DrainThen(IF n = 0 THEN "idle" ELSE "submit")
  /\ want' = n
  /\ UNCHANGED <<pending, steps, dropped, snapshot, offered, handle,
                 cmds, results, thread>>

\* should_snapshot_after_threaded_neural_train
SnapshotDue(n) ==
  /\ Cadence > 0
  /\ \/ steps = 0 /\ pending = 0
     \/ (steps + pending + n) \div Cadence > (steps + pending) \div Cadence

Accepts == Len(cmds) < MaxPending /\ worker # "exited"

(* Mutant: the batches are pending before they are in the channel. *)
SubmitCountsFirst ==
  /\ pc = "submit"
  /\ offered' = offered + want
  /\ IF pending + want > MaxPending
     THEN dropped' = dropped + want /\ pc' = "idle" /\ UNCHANGED <<then, pending, cmds>>
     ELSE /\ DrainThen("idle") /\ pending' = pending + want
          /\ IF Accepts
             THEN cmds' = Append(cmds, Train(want, SnapshotDue(want))) /\ UNCHANGED dropped
             ELSE dropped' = dropped + want /\ UNCHANGED cmds
  /\ UNCHANGED <<want, steps, snapshot, handle, results, thread>>

(* The rest of submit_samples.  Over the limit it returns without draining; *)
(* a full or disconnected channel drops the batches.                        *)
Submit ==
  /\ pc = "submit"
  /\ offered' = offered + want
  /\ IF pending + want > MaxPending
     THEN dropped' = dropped + want /\ pc' = "idle" /\ UNCHANGED <<then, pending, cmds>>
     ELSE /\ DrainThen("idle")
          /\ IF Accepts
             THEN /\ cmds' = Append(cmds, Train(want, SnapshotDue(want)))
                  /\ pending' = pending + want /\ UNCHANGED dropped
             ELSE dropped' = dropped + want /\ UNCHANGED <<pending, cmds>>
  /\ UNCHANGED <<want, steps, snapshot, handle, results, thread>>

Waiting == <<want, pending, steps, dropped, snapshot, offered,
             handle, cmds, results, thread>>

(* drain_results_until_idle(max_wait): wait for the pending batches, then   *)
(* refresh_network_snapshot with the time that is left.                     *)
DrainUntilIdle ==
  /\ pc = "idle" /\ ~cancel
  /\ DrainThen("untilIdle")
  /\ UNCHANGED Waiting

AwaitPending == pc = "untilIdle" /\ pending > 0 /\ Receive /\ UNCHANGED <<pc, then>>

NothingPending ==
  /\ pc = "untilIdle" /\ pending = 0
  /\ DrainThen("request")
  /\ UNCHANGED Waiting

RequestSnapshot ==
  /\ pc = "request"
  /\ IF Accepts
     THEN cmds' = Append(cmds, AskSnapshot) /\ pc' = "await"
     ELSE pc' = "idle" /\ UNCHANGED cmds
  /\ UNCHANGED <<then, want, pending, steps, dropped, snapshot, offered,
                 handle, results, thread>>

(* A Snapshot ends the wait, unless a 2 ms slice timed out and the drain    *)
(* of that slice has taken it.                                              *)
AwaitSnapshot ==
  /\ pc = "await" /\ Receive
  /\ \/ Head(results).kind = "Snapshot" /\ DrainThen("idle")
     \/ UNCHANGED <<pc, then>>

(* Mutant: the clock is started again in every turn of the wait. *)
DeadlineRestarts ==
  /\ pc \in {"untilIdle", "await"}
  /\ DrainThen(IF pc = "untilIdle" THEN "untilIdle" ELSE "idle")
  /\ UNCHANGED Waiting

(* max_wait has elapsed. *)
Deadline ==
  /\ pc \in {"untilIdle", "await"}
  /\ DrainThen("idle")
  /\ UNCHANGED Waiting

(* The worker has died and its last result is taken; the request of a       *)
(* snapshot then fails as well.                                             *)
Disconnected ==
  /\ pc \in {"untilIdle", "await"} /\ worker = "exited" /\ results = <<>>
  /\ DrainThen("idle")
  /\ UNCHANGED Waiting

(* Mutant: the worker is told to stop but its channel is kept open. *)
SignalKeepsSender ==
  /\ pc = "idle" /\ ~cancel
  /\ cancel' = TRUE
  /\ UNCHANGED <<learner, receiving, sending, cmds, results, thread>>

(* Drop of the learner: signal_shutdown, then the receiver goes.            *)
SignalShutdown ==
  /\ pc = "idle" /\ ~cancel
  /\ cancel' = TRUE /\ sending' = FALSE
  /\ UNCHANGED <<learner, receiving, cmds, results, thread>>

DropReceiver ==
  /\ cancel /\ receiving
  /\ receiving' = FALSE /\ results' = <<>>
  /\ UNCHANGED <<learner, cancel, sending, cmds, thread>>

-----------------------------------------------------------------------------
(* The worker thread *)

(* recv takes a command that was queued before the sender went as well. *)
TakeCommand ==
  /\ worker = "recv" /\ cmds # <<>>
  /\ cmds' = Tail(cmds)
  /\ IF cancel THEN worker' = "exited" /\ UNCHANGED job
     ELSE IF Head(cmds).kind = "Snapshot" THEN worker' = "sendSnapshot" /\ UNCHANGED job
     ELSE /\ worker' = "train"
          /\ job' = [left |-> Head(cmds).n, ok |-> 0, bad |-> 0, snap |-> Head(cmds).snap]
  /\ UNCHANGED <<learner, handle, results, net>>

CommandsClosed ==
  /\ worker = "recv" /\ cmds = <<>> /\ ~sending
  /\ worker' = "exited"
  /\ UNCHANGED <<learner, handle, cmds, results, job, net>>

TrainBatch ==
  /\ worker = "train" /\ job.left > 0 /\ ~cancel
  /\ \/ /\ job' = [job EXCEPT !.left = @ - 1, !.ok = @ + 1]
        /\ net' = net + 1
     \/ /\ job' = [job EXCEPT !.left = @ - 1, !.bad = @ + 1]  \* the loss is not finite
        /\ UNCHANGED net
  /\ UNCHANGED <<learner, handle, cmds, results, worker>>

Panic ==
  /\ worker = "train" /\ job.left > 0
  /\ worker' = "exited"
  /\ UNCHANGED <<learner, handle, cmds, results, job, net>>

TrainedAll ==
  /\ worker = "train" /\ (job.left = 0 \/ cancel)
  /\ worker' = IF cancel THEN "snapshotCheck" ELSE "sendTrained"
  /\ UNCHANGED <<learner, handle, cmds, results, job, net>>

\* A send blocks while the channel is full and fails when nobody receives.
Send(res) ==
  IF receiving
  THEN Len(results) < MaxPending /\ results' = Append(results, res)
  ELSE UNCHANGED results

SendTrained ==
  /\ worker = "sendTrained"
  /\ Send(Trained(job.ok, job.bad))
  /\ worker' = "snapshotCheck"
  /\ UNCHANGED <<learner, handle, cmds, job, net>>

SnapshotCheck ==
  /\ worker = "snapshotCheck"
  /\ worker' = IF job.snap /\ ~cancel THEN "sendSnapshot" ELSE "recv"
  /\ job' = NoJob
  /\ UNCHANGED <<learner, handle, cmds, results, net>>

SendSnapshot ==
  /\ worker = "sendSnapshot"
  /\ Send(SnapshotOf(net))
  /\ worker' = "recv"
  /\ UNCHANGED <<learner, handle, cmds, job, net>>

-----------------------------------------------------------------------------

LearnerStep ==
  \/ DrainOne \/ DrainDone \/ Submit \/ AwaitPending \/ NothingPending
  \/ RequestSnapshot \/ AwaitSnapshot \/ Deadline \/ Disconnected

Call ==
  \/ \E n \in 0..MaxPerTick : SubmitSamples(n)
  \/ DrainUntilIdle \/ SignalShutdown

WorkerStep ==
  \/ TakeCommand \/ CommandsClosed \/ TrainBatch \/ TrainedAll \/ SendTrained
  \/ SnapshotCheck \/ SendSnapshot

Next == LearnerStep \/ Call \/ DropReceiver \/ WorkerStep \/ Panic

(* Both threads run on, and a timed wait ends.  No call need come. *)
Spec ==
  /\ Init /\ [][Next]_vars
  /\ WF_vars(LearnerStep) /\ WF_vars(Deadline)
  /\ WF_vars(DropReceiver) /\ WF_vars(WorkerStep)

-----------------------------------------------------------------------------
(* Properties *)

(* Every variable stays in its range; the channels and the batches under    *)
(* way respect max_pending_batches.                                         *)
TypeOK ==
  /\ pc \in {"idle", "drain", "submit", "untilIdle", "request", "await"}
  /\ then \in {"idle", "submit", "untilIdle", "request"}
  /\ want \in 0..MaxPerTick
  /\ pending \in 0..MaxPending
  /\ steps \in Nat /\ dropped \in Nat /\ snapshot \in Nat /\ offered \in Nat
  /\ receiving \in BOOLEAN /\ cancel \in BOOLEAN /\ sending \in BOOLEAN
  /\ cmds \in Seq(Commands) /\ Len(cmds) <= MaxPending
  /\ results \in Seq(Answers) /\ Len(results) <= MaxPending
  /\ worker \in {"recv", "train", "sendTrained", "snapshotCheck", "sendSnapshot", "exited"}
  /\ job \in [left : 0..MaxPerTick, ok : 0..MaxPerTick, bad : 0..MaxPerTick, snap : BOOLEAN]
  /\ net \in Nat

(* The batches of a command, a job or a result. *)
Batches(msg) ==
  IF msg.kind = "Train" THEN msg.n
  ELSE IF msg.kind = "Trained" THEN msg.ok + msg.bad ELSE 0
PartialSums(numbers) ==
  LET upto[n \in 0..Len(numbers)] == IF n = 0 THEN 0 ELSE upto[n - 1] + numbers[n]
  IN  upto
UnderWay(msgs) == PartialSums([i \in 1..Len(msgs) |-> Batches(msgs[i])])[Len(msgs)]

(* The learner's pending_batches is what the other thread still owes it:    *)
(* the batches of queued commands, of the job and of results not yet taken. *)
PendingIsOwed ==
  worker # "exited" /\ ~cancel =>
    pending = UnderWay(cmds) + UnderWay(results)
              + (IF worker \in {"train", "sendTrained"}
                 THEN job.left + job.ok + job.bad ELSE 0)

(* No batch is lost from the books or counted twice, whatever the channel,  *)
(* the limit and the worker do: learnt, dropped or still pending.           *)
BatchesAccounted == offered = steps + dropped + pending

(* The learner's counters, kept on one side of the two channels, agree with *)
(* what has gone in and with what the other side still owes.                *)
BooksAgree == PendingIsOwed /\ BatchesAccounted

(* The network that decisions are scored with is never older than the       *)
(* training steps reported with it: a snapshot is taken out of the channel  *)
(* when exactly the batches it has learnt have been reported.               *)
SnapshotMatchesSteps ==
  /\ snapshot <= steps
  /\ results # <<>> /\ Head(results).kind = "Snapshot" => Head(results).version = steps

(* Every call of the simulation thread returns, also when the worker is     *)
(* blocked on a full result channel or has died.                            *)
CallsReturn == pc # "idle" ~> pc = "idle"

(* Dropping the learner ends the worker, also if it is blocked on recv or   *)
(* on a full result channel.                                                *)
WorkerExits == cancel ~> worker = "exited"

(* Neither thread waits for the other for ever, on a full channel or on an  *)
(* answer that cannot come.                                                 *)
NothingHangs == CallsReturn /\ WorkerExits
=============================================================================
