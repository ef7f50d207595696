----------------------------- MODULE PgRunWriter -----------------------------
(***************************************************************************)
(* AsyncPostgresCompletedRunWriter of main_soccer_learning_queue.rs: the   *)
(* queue runner buffers what its games produced and hands it, batch by     *)
(* batch over a bounded channel, to a thread with a Postgres connection of *)
(* its own.                                                                *)
(*                                                                         *)
(* A game is its place in the order of completion; it leaves one run row   *)
(* and, when the promotion gate lets it, one policy version.  The batches  *)
(* handed over are kept as a history: those after taken are in the channel *)
(* and those from settled to taken make up the batch being flushed.  All   *)
(* batches of one process have the same experiment, runner and retention,  *)
(* so a batch always absorbs the next and none is ever deferred.           *)
(***************************************************************************)
EXTENDS Naturals, Sequences, FiniteSets

CONSTANTS
  Games,      \* games of the run
  QueueCap,   \* batches the channel holds
  Coalesce    \* batches the writer puts into one flush

ASSUME WriterAssumption ==
  Games \in Nat \ {0} /\ QueueCap \in Nat \ {0} /\ Coalesce \in Nat \ {0}

Game == 1..Games

VARIABLES
  config,     \* refresh, flush: BOOLEAN; batch: completed games in a batch
  main,       \* where the main thread is: see MainAt
  started, ended, completed,  \* games started, ended, ended with a result
  returned,   \* the learning queue has returned its report
  made,       \* history: the games that made a policy version
  versionBuffer, runBuffer,  \* pg_policy_version_buffer, pg_completed_buffer
  handed,     \* history: the batches handed to the writer
  received,   \* history: the batches whose results main received
  pending, pendingVersions,  \* pending_batches, pending_policy_version_batches
  firstError, \* of finish
  writer,     \* where the writer thread is: see WriterAt
  batch,      \* what is left of the batch it flushes
  taken, settled,   \* batches taken off the channel, batches answered
  sender,     \* TRUE until main drops its only sender
  results,    \* the result channel: up to which batch, and how it went
  versions, runs    \* the rows committed, in order

play == <<config, started, ended, completed, returned, made>>
buffers == <<versionBuffer, runBuffer>>
books == <<received, pending, pendingVersions, results>>
thread == <<writer, batch, taken, settled>>
store == <<versions, runs>>
vars == <<play, main, buffers, handed, books, firstError, thread, sender, store>>

Configs == [refresh : BOOLEAN, flush : BOOLEAN, batch : Game]
MainAt == {"idle", "refresh", "wait", "load", "flush", "enqueue", "send",
           "finish", "collect", "join", "ok", "err", "exited"}
WriterAt == {"connect", "unavailable", "recv", "gather", "versions", "runs",
             "prune", "done", "panicked"}

NoBatch == [versions |-> <<>>, runs |-> <<>>]

Init ==
  /\ config \in Configs
  /\ main = "idle" /\ started = 0 /\ ended = 0 /\ completed = 0
  /\ returned = FALSE /\ made = {}
  /\ versionBuffer = <<>> /\ runBuffer = <<>> /\ handed = <<>>
  /\ received = 0 /\ pending = 0 /\ pendingVersions = 0 /\ firstError = FALSE
  /\ writer = "connect" /\ batch = NoBatch /\ taken = 0 /\ settled = 0
  /\ sender = TRUE /\ results = <<>>
  /\ versions = <<>> /\ runs = <<>>

WriterEnded == writer \in {"done", "panicked"}
BuffersEmpty == versionBuffer = <<>> /\ runBuffer = <<>>
VersionBatches(S) == Cardinality({i \in S : handed[i].versions # <<>>})

-----------------------------------------------------------------------------
(* The books of the main thread *)

(* Mutant: only a result without an error is taken off the books. *)
RecordOkOnly(n) ==
  IF n = 0 THEN UNCHANGED books ELSE
  LET upto == results[n].upto IN
  /\ results' = SubSeq(results, n + 1, Len(results))
  /\ received' = upto
  /\ pending' = pending - IF results[n].ok THEN upto - received ELSE 0
  /\ pendingVersions' = pendingVersions
       - IF results[n].ok THEN VersionBatches(received + 1..upto) ELSE 0

\* record_write_result of the first n results.
Record(n) ==
  IF n = 0 THEN UNCHANGED books ELSE
  LET upto == results[n].upto IN
  /\ results' = SubSeq(results, n + 1, Len(results))
  /\ received' = upto
  /\ pending' = pending - (upto - received)
  /\ pendingVersions' = pendingVersions - VersionBatches(received + 1..upto)

AllOk(n) == \A i \in 1..n : results[i].ok

(* drain_finished: every result that is there, up to the first error. *)
DrainOk ==
  /\ AllOk(Len(results)) /\ Record(Len(results))
  /\ ~(WriterEnded /\ pending' > 0)

DrainFails ==
  \/ \E n \in DOMAIN results : AllOk(n - 1) /\ ~results[n].ok /\ Record(n)
  \/ AllOk(Len(results)) /\ Record(Len(results)) /\ WriterEnded /\ pending' > 0

\* An error leaves the run, and what main owned, the sender too, is dropped.
Fail == main' = "err" /\ sender' = FALSE

-----------------------------------------------------------------------------
(* Events of the learning queue, in the main thread *)

(* StartingBatch: with refresh the head of the store is loaded first. *)
StartGame ==
  /\ main = "idle" /\ started < Games
  /\ \/ ~config.refresh /\ started' = started + 1 /\ UNCHANGED <<main, sender, books>>
     \/ config.refresh /\ DrainOk /\ main' = "refresh" /\ UNCHANGED <<started, sender>>
     \/ config.refresh /\ DrainFails /\ Fail /\ UNCHANGED started
  /\ UNCHANGED <<config, ended, completed, returned, made, buffers, handed, firstError, thread, store>>

FlushDue == config.refresh /\ config.flush /\ versionBuffer # <<>>

\* flush_postgres_policy_versions_for_new_sims on the connection of main:
\* version by version, the buffer kept when an insert fails.
FlushVersions(next) ==
  \/ /\ versions' = versions \o versionBuffer /\ versionBuffer' = <<>>
     /\ main' = next /\ UNCHANGED sender
  \/ /\ \E n \in 0..Len(versionBuffer) - 1 :
          versions' = versions \o SubSeq(versionBuffer, 1, n)
     /\ Fail /\ UNCHANGED versionBuffer

Flush(from, next) ==
  /\ main = from
  /\ \/ ~FlushDue /\ main' = next /\ UNCHANGED <<versions, versionBuffer, sender>>
     \/ FlushDue /\ FlushVersions(next)
  /\ UNCHANGED <<play, runBuffer, handed, books, firstError, thread, runs>>

AfterRefresh == IF pendingVersions > 0 THEN "wait" ELSE "load"

RefreshFlush == Flush("refresh", AfterRefresh)

(* Mutant: any one result ends the wait. *)
WaitForOne ==
  /\ main = "wait"
  /\ \/ results # <<>> /\ results[1].ok /\ Record(1) /\ main' = "load" /\ UNCHANGED sender
     \/ results # <<>> /\ ~results[1].ok /\ Record(1) /\ Fail
     \/ results = <<>> /\ WriterEnded /\ Fail /\ UNCHANGED books
  /\ UNCHANGED <<play, buffers, handed, firstError, thread, store>>

(* drain_policy_versions_finished waits for every batch with a version. *)
AwaitVersions ==
  /\ main = "wait"
  /\ \/ /\ results # <<>> /\ results[1].ok /\ Record(1)
        /\ main' = IF pendingVersions' = 0 THEN "load" ELSE "wait"
        /\ UNCHANGED sender
     \/ results # <<>> /\ ~results[1].ok /\ Record(1) /\ Fail
     \/ results = <<>> /\ WriterEnded /\ Fail /\ UNCHANGED books
  /\ UNCHANGED <<play, buffers, handed, firstError, thread, store>>

\* load_latest_active_policy_metadata
LoadHead ==
  /\ main = "load"
  /\ \/ main' = "idle" /\ started' = started + 1 /\ UNCHANGED sender
     \/ Fail /\ UNCHANGED started
  /\ UNCHANGED <<config, ended, completed, returned, made, buffers, handed, books,
                 firstError, thread, store>>

(* CompletedGame: its run, and its version when one is written. *)
CompleteGame ==
  /\ main = "idle" /\ ended < started
  /\ ended' = ended + 1 /\ completed' = completed + 1
  /\ runBuffer' = Append(runBuffer, completed')
  /\ \/ versionBuffer' = Append(versionBuffer, completed') /\ made' = made \union {completed'}
     \/ UNCHANGED <<versionBuffer, made>>
  /\ main' = IF Len(runBuffer') >= config.batch THEN "flush" ELSE "idle"
  /\ UNCHANGED <<config, started, returned, handed, books, firstError, thread, sender, store>>

FailedGame ==
  /\ main = "idle" /\ ended < started
  /\ ended' = ended + 1
  /\ UNCHANGED <<config, started, completed, returned, made, main, buffers, handed, books,
                 firstError, thread, sender, store>>

\* The learning queue returns an error of its own.
RunFails ==
  /\ main = "idle"
  /\ Fail
  /\ UNCHANGED <<play, buffers, handed, books, firstError, thread, store>>

(* The queue has returned its report: what is buffered goes out. *)
RunReturns ==
  /\ main = "idle" /\ ended = Games
  /\ main' = "flush" /\ returned' = TRUE
  /\ UNCHANGED <<config, started, ended, completed, made, buffers, handed, books,
                 firstError, thread, sender, store>>

BatchFlush == Flush("flush", "enqueue")

AfterEnqueue == IF returned THEN "finish" ELSE "idle"

(* enqueue first looks at what came back. *)
Enqueue ==
  /\ main = "enqueue"
  /\ \/ /\ DrainOk
        /\ main' = IF BuffersEmpty THEN AfterEnqueue ELSE "send"
        /\ UNCHANGED sender
     \/ DrainFails /\ Fail
  /\ UNCHANGED <<play, buffers, handed, firstError, thread, store>>

(* The send waits for room in the channel. *)
Send ==
  /\ main = "send" /\ ~WriterEnded /\ Len(handed) - taken < QueueCap
  /\ handed' = Append(handed, [versions |-> versionBuffer, runs |-> runBuffer])
  /\ versionBuffer' = <<>> /\ runBuffer' = <<>>
  /\ pending' = pending + 1
  /\ pendingVersions' = pendingVersions + IF versionBuffer = <<>> THEN 0 ELSE 1
  /\ main' = AfterEnqueue
  /\ UNCHANGED <<play, received, results, firstError, thread, sender, store>>

SendFails ==
  /\ main = "send" /\ WriterEnded
  /\ Fail /\ versionBuffer' = <<>> /\ runBuffer' = <<>>
  /\ UNCHANGED <<play, handed, books, firstError, thread, store>>

(* Mutant: the sender lives until the writer has been joined. *)
FinishKeepsSender ==
  /\ main = "finish"
  /\ \/ DrainOk /\ main' = "collect" /\ UNCHANGED sender
     \/ DrainFails /\ Fail
  /\ UNCHANGED <<play, buffers, handed, firstError, thread, store>>

(* finish returns at once, the writer detached, when a result is an error. *)
Finish ==
  /\ main = "finish"
  /\ \/ DrainOk /\ main' = "collect" /\ sender' = FALSE
     \/ DrainFails /\ Fail
  /\ UNCHANGED <<play, buffers, handed, firstError, thread, store>>

(* Mutant: the error of a late batch is dropped. *)
CollectForgets ==
  /\ main = "collect" /\ pending > 0
  /\ \/ results # <<>> /\ Record(1) /\ UNCHANGED <<firstError, main>>
     \/ /\ results = <<>> /\ WriterEnded
        /\ firstError' = TRUE /\ main' = "join" /\ UNCHANGED books
  /\ UNCHANGED <<play, buffers, handed, thread, sender, store>>

Collect ==
  /\ main = "collect" /\ pending > 0
  /\ \/ /\ results # <<>> /\ Record(1)
        /\ firstError' = (firstError \/ ~results[1].ok) /\ UNCHANGED main
     \/ /\ results = <<>> /\ WriterEnded
        /\ firstError' = TRUE /\ main' = "join" /\ UNCHANGED books
  /\ UNCHANGED <<play, buffers, handed, thread, sender, store>>

Collected ==
  /\ main = "collect" /\ pending = 0
  /\ main' = "join"
  /\ UNCHANGED <<play, buffers, handed, books, firstError, thread, sender, store>>

(* Mutant: only a panic of the writer counts. *)
JoinIgnoresErrors ==
  /\ main = "join" /\ WriterEnded
  /\ main' = IF writer = "panicked" THEN "err" ELSE "ok"
  /\ UNCHANGED <<play, buffers, handed, books, firstError, thread, sender, store>>

Join ==
  /\ main = "join" /\ WriterEnded
  /\ main' = IF firstError \/ writer = "panicked" THEN "err" ELSE "ok"
  /\ UNCHANGED <<play, buffers, handed, books, firstError, thread, sender, store>>

\* process::exit(1), which ends the writer wherever it is.
Exit ==
  /\ main = "err"
  /\ main' = "exited"
  /\ UNCHANGED <<play, buffers, handed, books, firstError, thread, sender, store>>

Main ==
  \/ StartGame \/ RefreshFlush \/ AwaitVersions \/ LoadHead
  \/ CompleteGame \/ FailedGame \/ BatchFlush \/ Enqueue \/ Send \/ SendFails
  \/ RunReturns \/ RunFails \/ Finish \/ Collect \/ Collected \/ Join \/ Exit

-----------------------------------------------------------------------------
(* The writer thread *)

Running == main # "exited"
Next1 == handed[taken + 1]
main_ == <<play, main, buffers, handed, received, pending, pendingVersions, firstError, sender>>

Connect ==
  /\ Running /\ writer = "connect"
  /\ writer' \in {"recv", "unavailable"}
  /\ UNCHANGED <<main_, results, batch, taken, settled, store>>

Answer(upto, ok) ==
  /\ results' = Append(results, [upto |-> upto, ok |-> ok])
  /\ settled' = upto

(* Without a store every batch is answered with an error. *)
Refuse ==
  /\ Running /\ writer = "unavailable" /\ taken < Len(handed)
  /\ taken' = taken + 1
  /\ Answer(taken', FALSE)
  /\ UNCHANGED <<main_, writer, batch, store>>

TakeBatch ==
  /\ Running /\ writer = "recv" /\ taken < Len(handed)
  /\ taken' = taken + 1 /\ batch' = Next1
  /\ writer' = "gather"
  /\ UNCHANGED <<main_, results, settled, store>>

\* The channel is empty and its sender gone.
WriterDone ==
  /\ Running /\ writer \in {"recv", "unavailable"}
  /\ taken = Len(handed) /\ ~sender
  /\ writer' = "done"
  /\ UNCHANGED <<main_, results, batch, taken, settled, store>>

(* Mutant: the runs of the batch absorbed go in front. *)
AbsorbInFront ==
  /\ Running /\ writer = "gather"
  /\ taken - settled < Coalesce /\ taken < Len(handed)
  /\ taken' = taken + 1
  /\ batch' = [versions |-> batch.versions \o Next1.versions,
               runs |-> Next1.runs \o batch.runs]
  /\ UNCHANGED <<main_, results, writer, settled, store>>

Absorb ==
  /\ Running /\ writer = "gather"
  /\ taken - settled < Coalesce /\ taken < Len(handed)
  /\ taken' = taken + 1
  /\ batch' = [versions |-> batch.versions \o Next1.versions,
               runs |-> batch.runs \o Next1.runs]
  /\ UNCHANGED <<main_, results, writer, settled, store>>

\* The batch is full, or the wait for another one is over.
StartFlush ==
  /\ Running /\ writer = "gather"
  /\ taken - settled >= Coalesce \/ taken = Len(handed)
  /\ writer' = "versions"
  /\ UNCHANGED <<main_, results, batch, taken, settled, store>>

FlushFails ==
  /\ Answer(taken, FALSE)
  /\ writer' = "recv" /\ batch' = NoBatch
  /\ UNCHANGED <<main_, taken>>

(* Mutant: a version that cannot be inserted is left out. *)
InsertVersionSkips ==
  /\ Running /\ writer = "versions" /\ batch.versions # <<>>
  /\ versions' \in {versions, Append(versions, Head(batch.versions))}
  /\ batch' = [batch EXCEPT !.versions = Tail(@)]
  /\ UNCHANGED <<main_, results, writer, taken, settled>>
  /\ UNCHANGED runs

(* Every version is inserted by a statement of its own. *)
InsertVersion ==
  /\ Running /\ writer = "versions" /\ batch.versions # <<>>
  /\ \/ /\ versions' = Append(versions, Head(batch.versions))
        /\ batch' = [batch EXCEPT !.versions = Tail(@)]
        /\ UNCHANGED <<main_, results, writer, taken, settled>>
     \/ FlushFails /\ UNCHANGED versions
  /\ UNCHANGED runs

(* The runs of the batch go into one transaction. *)
InsertRuns ==
  /\ Running /\ writer = "versions" /\ batch.versions = <<>>
  /\ \/ /\ runs' = runs \o batch.runs
        /\ writer' = "prune" /\ batch' = NoBatch
        /\ UNCHANGED <<main_, results, taken, settled>>
     \/ FlushFails /\ UNCHANGED runs
  /\ UNCHANGED versions

(* Pruning old runs may fail with the new ones durable. *)
Prune ==
  /\ Running /\ writer = "prune"
  /\ \/ FlushFails
     \/ Answer(taken, TRUE) /\ writer' = "recv" /\ UNCHANGED <<main_, batch, taken>>
  /\ UNCHANGED store

Panic ==
  /\ Running /\ writer \in {"connect", "versions", "prune"}
  /\ writer' = "panicked"
  /\ UNCHANGED <<main_, results, batch, taken, settled, store>>

Writer ==
  \/ Connect \/ Refuse \/ TakeBatch \/ WriterDone \/ Absorb \/ StartFlush
  \/ InsertVersion \/ InsertRuns \/ Prune \/ Panic

Next == Main \/ Writer

\* Both threads run while they can; a game has a fixed number of ticks.
Fairness == WF_vars(Main) /\ WF_vars(Writer)

Spec == Init /\ [][Next]_vars /\ Fairness

-----------------------------------------------------------------------------
(* Properties *)

SetOf(s) == {s[i] : i \in DOMAIN s}
Increasing(s) == \A i, j \in DOMAIN s : i < j => s[i] < s[j]

Batches == [versions : Seq(Game), runs : Seq(Game)]

(* Every variable stays in its range; the channel never holds more batches  *)
(* than its bound and a flush never more than it may coalesce.              *)
TypeOK ==
  /\ config \in Configs /\ main \in MainAt /\ writer \in WriterAt
  /\ started \in 0..Games /\ ended \in 0..started /\ completed \in 0..ended
  /\ returned \in BOOLEAN /\ made \subseteq 1..completed
  /\ versionBuffer \in Seq(Game) /\ runBuffer \in Seq(Game)
  /\ handed \in Seq(Batches) /\ batch \in Batches
  /\ received \in Nat /\ pending \in Nat /\ pendingVersions \in Nat
  /\ firstError \in BOOLEAN /\ sender \in BOOLEAN
  /\ taken \in Nat /\ settled \in Nat
  /\ settled <= taken /\ taken - settled <= Coalesce
  /\ taken <= Len(handed) /\ Len(handed) - taken <= QueueCap
  /\ results \in Seq([upto : Nat, ok : BOOLEAN])
  /\ versions \in Seq(Game) /\ runs \in Seq(Game)

(* The two counters of the writer, decremented by what each result says it  *)
(* covers, are the batches handed over whose result main has not received,  *)
(* and those of them with a version: an error is taken off the books too,   *)
(* so that a later wait does not wait for it for ever.                      *)
BooksBalance ==
  /\ pending = Len(handed) - received
  /\ pendingVersions = VersionBatches(received + 1..Len(handed))

(* When finish returns success every run of a completed game and every      *)
(* version that was made is in the store: a batch that failed early, was    *)
(* coalesced with others or lost in a panic has made the run an error.      *)
SuccessMeansDurable ==
  main = "ok" => SetOf(runs) = 1..completed /\ SetOf(versions) = made

(* A game that starts from the head of the store finds there every version  *)
(* handed to the writer, and with the flush before new games every version  *)
(* the process has made.                                                    *)
HeadIsCurrent ==
  main = "load" =>
    /\ \A i \in DOMAIN handed : SetOf(handed[i].versions) \subseteq SetOf(versions)
    /\ config.flush => made \subseteq SetOf(versions)

(* Versions reach the store from two connections, runs from one: each kind  *)
(* in the order of the games and none twice, and the run of a game never    *)
(* before the version the game made, whichever connection writes it.        *)
WrittenInOrder ==
  /\ Increasing(versions) /\ Increasing(runs)
  /\ \A g \in SetOf(runs) : g \in made => g \in SetOf(versions)

Over == main \in {"ok", "err", "exited"}

(* A game that is to start from the store does not wait for ever, and once  *)
(* the queue has returned its report the process ends: neither the send     *)
(* into a full channel nor the wait for outstanding results hangs, with a   *)
(* store that fails, is missing, or a writer that panics.                   *)
CallsReturn == (main = "wait" ~> main # "wait") /\ (returned ~> Over)

DurableBatches == {i \in DOMAIN handed : SetOf(handed[i].runs) \subseteq SetOf(runs)}
Outcome == CASE main = "ok" -> "ok"
             [] main \in {"err", "exited"} -> "err"
             [] OTHER -> "open"

Persistence == INSTANCE RunPersistence WITH
  accepted <- Len(handed), durable <- DurableBatches, outcome <- Outcome

(* The writer keeps the contract of RunPersistence: batches become durable  *)
(* from the oldest on and before they are answered, and the run succeeds    *)
(* only with all of them durable.                                           *)
ImplementsPersistence == Persistence!Spec
=============================================================================
