# Verification of the soccer simulation engine

TLA+ models of the parts of this engine whose correctness depends on the order in
which things happen: who holds the ball when a tick takes its agents in an
arbitrary order, what a reader of a shared-memory ring sees while it is written,
what a learner, its worker, queues of games, promoting processes, a database writer,
tournament runs, controller threads and the live server do to each other's state. TLC
checks each model on small instances; TLAPS proves the central results for every value of
the constants. Paths are relative to the repository; `world.rs`, `player.rs`, `inspect.rs`
and `lifecycle.rs` are under `src/des/general/soccer/`, `soccer.rs` and `tournament.rs` under
`src/des/general/`, `soccer_learning*.rs` under `src/des/`, the binaries under `src/bin/`.

## 1. The system

| Component | State it keeps | Operations | Interacts with |
|---|---|---|---|
| Match lifecycle contract (`lifecycle.rs`, `fm_match_adapter.rs`) | phase, tick, score, possession, restart side | `apply` of start, tick, possession, goal, finish | external consumers of match states; nothing in the engine calls it |
| Match engine (`world.rs`, `soccer.rs`, `player.rs`) | ball, holder, pending pass and shot, offside candidates, restart label, double-touch guard, goal kick, celebration, clock, 22 players | `run_time_step`: schedule, player intents, ball step, watchdogs, boundaries | records into the inspector ring; feeds the neural learner; stepped by live sessions and learning runs |
| Inspector ring (`inspect.rs`) | memory-mapped header and slots with sequence numbers | `record`, `latest`, `history`, `read_slot`, `create` | one writer process, any readers, no lock |
| Neural learner (`SoccerNeuralLearner`, `soccer.rs`) | batch counters, last snapshot; worker: network, optimizer | `submit_samples`, `drain_results`, `drain_results_until_idle`, snapshot, drop | simulation thread and worker over two bounded channels |
| Learning queue (`soccer_learning.rs`) | merged policies, counters, latest network | dispatch, receive and merge, join | main thread and workers over a bounded and an unbounded channel |
| Worker pool of the learning run (`main_soccer_learning_run.rs`) | the same and the batch played from one policy, with `catch_unwind` | submit a batch, receive it, merge it, shut down | main thread and workers |
| Policy promotion (`soccer_learning_pg.rs`, `main_soccer_learning_queue.rs`, `main_soccer_tournament_run.rs`) | rows of policy versions; per runner: base version, generation, buffer | refresh, start and complete a game, flush, insert, promote | processes over Postgres, with an advisory lock per experiment |
| Postgres writer (`main_soccer_learning_queue.rs`) | two buffers, counters of what is pending; batches in the channel and in the flush | refresh, wait, enqueue, drain, finish; coalesce and flush | runner's main thread, writer thread, database |
| Tournament runs (`main_soccer_tournament_run.rs`, `soccer_learning_pg.rs`) | header, match rows and brains of a tournament, advisory lock, breeding pool | lock, reconcile, start, record a wave, salvage, promote, finish, release | runs of several schedulers, over Postgres with reconnects and retries |
| Tournament bracket (`tournament.rs`) | groups, tables, brains, bracket, podium | waves of matches on threads, ranking, seeding, knockout | the tournament run drives it |
| Human inputs (`soccer.rs`, `world.rs`) | routes of slots, mailboxes, shared queue with watermarks and expiry, notifier version, latch | accept, dispatch, push, notify, wait, drain, assign, reset | HTTP threads, a controller thread a slot, the tick under the session mutex |
| Live server (`soccer.rs`) | registry of games, a session mutex each, stream queue | accept, resolve, build, evict, answer, close | HTTP workers, policy refreshers (`docs/thread-model.md`) |
| Physics, perception, decisions, rewards | positions, beliefs, scores | pure and numeric | inside the tick |
| Ratings, gates, genome, rotation, reward contract, exploration trace | numbers | sequential | learning binaries |
| Tools, viewers, side crates, deployment | none of interest | I/O | |

What makes them hard:

- *Match engine.* A tick takes the players and the ball in a shuffled order, so a player
  may act on a goal, a restart or an offside of the same tick. A dozen places
  take the ball or its last touch: tackles, saves, parries, blocks, headers, watchdogs,
  forced releases, retaken goal kicks. Each must leave guard, pass, shot and last
  touch consistent. Goals, celebrations, halves and periods interrupt each other.
  Correct when: nothing is in flight while the ball is held, the guard on a second touch
  bars the taker of a restart and nobody else, the last touch is true, every goal is kicked off once by the right side.
- *Inspector ring.* No lock, a writer that may die in mid-frame or restart.
  Correct when: frames are whole, fresh, and every request ends.
- *Neural learner.* Two bounded channels, one used with `try_send` and one blocking;
  timeouts; detach on drop; panics. Correct when: the books agree with what is owed,
  snapshots agree with steps, nobody waits for ever.
- *Learning queue and run.* Results in any order, failing callbacks, panicking workers.
  Correct when: each game is counted once, merges do not undo each other, the call returns.
- *Policy promotion.* Several processes, stale reads, crashes between statements.
  Correct when: at most one active version, never none again, parents before children,
  a promotion replaces what it learned from, only a worse version is refused.
- *Postgres writer.* Two connections write the same tables; batches are coalesced, fail,
  or die with the thread. Correct when: a version waited for is durable, a
  run that ends well lost nothing, order is kept, every wait ends.
- *Tournament runs.* Schedulers overlap runs; sessions, statements and processes fail
  anywhere, and a retried call may have taken effect. Correct when: what is recorded is a prefix of what was
  played, `completed` means the champion is banked once, only orphans are reclaimed, the lock is freed.
- *Tournament bracket.* Waves on threads, with results in any order, in formats of different shapes. Correct
  when: every pair meets, no learning is lost, the better advance, the podium is earned.
- *Human inputs.* A frame passes three threads and two locks while its slot is reassigned or reset.
  Correct when: no wake-up is lost, inputs do not go back in time, a command is executed once.
- *Live server.* Builds race, eviction reads a clock from before them, handlers panic.
  Correct when: an open tab keeps its match, every connection is served, sessions without a request end.

`PROJECT.json` lists every component with its status and every hazard at its line,
with the properties that cover it.

## 2. Modules

| Module | Models | Extends / instantiates |
|---|---|---|
| `Lifecycle` | the lifecycle contract; abstract specification of a match | |
| `MatchControl` | control, restarts, goals and clock of `SoccerMatch` | |
| `MatchLifecycle` | refinement mapping: `MatchControl` implements `Lifecycle` | `MatchControl`, `INSTANCE Lifecycle` |
| `MCMatchControl` | squads for TLC | `MatchLifecycle` |
| `InspectRing` | writer and readers of the ring | |
| `NeuralWorker` | learner, worker and channels | |
| `LearningQueue` | main thread and workers of the learning queue and of the learning run | |
| `VersionHistory` | what a reader of the version table may rely on; abstract specification | |
| `PolicyPromotion` | runners, tournaments and the version table | `INSTANCE VersionHistory` |
| `RunPersistence` | what a runner may rely on when it hands batches over; abstract specification | |
| `PgRunWriter` | main thread and writer thread of the queue runner | `INSTANCE RunPersistence` |
| `TournamentRuns` | tournament runs against the database | |
| `TournamentBracket`, `MCTournamentBracket` | the parallel tournament; formats for TLC | |
| `HumanInputs`, `MCHumanInputs` | a frame's way from request to player; symmetry for TLC | |
| `LiveServer` | accept loop, HTTP workers, registry, life of a session | |
| `*Proofs` | theorems, proofs and inductive invariants: `MatchProofs` for `MatchControl`, `MatchLifecycle` and `Lifecycle`, `LiveProofs` for `HumanInputs` and `LiveServer`, `TournamentProofs` for `TournamentRuns` and `TournamentBracket`, the others for the module they are named after | the modules proved about |

An operator commented "Mutant" is a plausible bug of the definition after it. No
specification uses one; it is put in the place of that definition to make sure
that the property it is paired with in `PROJECT.json` fails.

### MatchControl

One behaviour of the model is one match. `BeginTick` to `EndTick` is one `run_time_step`;
`todo` is what the schedule has not taken yet; a player that does nothing to the ball is
simply left in `todo`. The variables are the fields of `SoccerMatch` and of its
ball that control depends on, named in the module; `toucher`, `lastScorer`, `kickoffs` and
`marked` are history. Positions are reduced to two booleans: whether the ball is still on
the restart's spot and whether it is inside the goal-kick box. A decision,
a duel or a distance is a choice among the outcomes the code can reach from that
state: `PassBall`, `ClearBall`, `Shoot`, `KnockPast`, `HeavyTouch`, `DriftOffSpot`,
`WinTackle`, `LoseTackle`, `Foul` are what `apply_player_intent` can do to the ball, and the
disjuncts of `BallStep` what the ball's step and `apply_ball_outcome` can.
A held restart does not stop a challenge: the code pushes an opponent out of the ten yards only after that
opponent's own intent, so one whose turn comes later in the tick of the award may still win the ball, and
`WinTackle`, `LoseTackle` and `Foul` do not look at the restart. The watchdogs
for stuck balls and possession livelock run after the ball as in `run_ball_time_step`.
`Kickoff`, `AwardRestart`, `CallOffside` and `PlaceBall` are whole handlers.

Not in the model: red cards, substitutions, injuries (the code has no effect of them on
control), human-controlled intents (they choose among the same intents), fields
only learning reads, and set-play trials, which start a match from a prepared state.

### Lifecycle and MatchLifecycle

`Lifecycle` has one action per `MatchAction`. `MatchLifecycle` projects a match: phase
from celebration and clock, possession from the holder, restart side from the last
scorer. `formal/PROCEDURE.md` asks for composition arguments between the lifecycle and
the models of play: `ImplementsLifecycle` is that argument. The two clocks cannot be
identified (a celebration consumes ticks, the lifecycle's clock stands still then), so
the lifecycle clock is hidden and full time is the event `Finish`.

### InspectRing

`record` is `BeginWrite`, one `WriteWord` per word in any order, `EndWrite`, `Announce`;
a reader is `Request`, then `LoadSeq`, `CopyWord`, `CheckSeq` per slot with at most
`MaxTries` attempts. Memory is sequentially consistent: the release store and
the fences on both sides order the copies between the two accesses of
the sequence number, which is all the argument uses. The writer may stop anywhere (no
fairness on it). A frame is its publish index. Sequence numbers do not wrap (64 bit).
`create` truncating the file of a restarted server is left out: see section 5.

### NeuralWorker

`pc` and `then` are where the simulation thread is in its three entry points; `drain_results`
is a loop of its own because the worker runs in between. `worker` is where the worker is
in its loop. The network is the number of batches it has learned, a batch is a unit, a
loss is finite or not. `Deadline` may fire at any moment of a timed wait. Left out: the
overflow of the mean of finite losses, replay and prioritisation.

### LearningQueue

Two programs, chosen by `program` in the initial state. The *queue* is the loop of
`run_soccer_learning_queue_with_events` with a step per dispatch and per
result (`Dispatch`, `Receive`, `ResultsClosed`, `Join`). The *run* is the batch loop of `main_soccer_learning_run.rs`:
it fills the pool, waits for the whole batch (`ReceiveOfBatch`) and merges it at once
(`MergeBatch`); its workers catch a panic, and its first failed game ends it. The workers are
those of both: they hold the mutex of the task receiver while they wait. A policy table is
the set of games merged into it, and a result carries both the table the game started
from and the one it ended with, so that `Merge` is the delta merge of the code. The
network is left out: the last game received wins, by design. The callback only succeeds or fails
here. Of the run's merges only the default one is modelled.

### PolicyPromotion and VersionHistory

A version is a number in order of creation. Per runner: `base` and `local`
(`pg_base_policy_version_id`, `pg_generation`), `games` in flight with the base and generation
they started from, `buffer`, and `queue`, what was handed to the flush. `FlushFirst` chooses
between the two settings of the code: the buffer is flushed synchronously before a new
game, or handed to the writer thread and waited for. The insert is split where other
processes can come between: the head is read (`ReadHead`), then the transaction takes
the advisory lock (`Lock`), archives what its update sees (`ArchiveOld`) and commits
(`Commit`). Until the commit the update is in `doomed` only, as READ COMMITTED hides it.
A tournament goes through the same insert without the head check. `Restart` is a crash
or a failed statement at any point: the transaction rolls back and what was in memory is lost.
`FloorAboveGate` lets the store's sample floor archive a version the gate let through.

Left out: versions the gate rejects (inserted under another status, touching no other
row), a refresh that only brings new weights of the same version, fitness that is not
a number, and the setting that resumes from an artifact without refreshing. A failed
insert stops its process at once here; what the writer thread does with a failing batch and with
those behind it is `PgRunWriter`. At the head of equal
generations the code orders by `updated_at` and the model chooses one; with at most one
active version, which is proved, the choice never arises.

`VersionHistory` is what a reader of the table may rely on, with no process, transaction or memory in it: a version
becomes a row in one step, after its parent's row and never again; a promotion replaces the head in that
step, and no other step touches a row; a version is a row or lost, for good. The mapping takes as rows the active and archived
versions with their parents, as heads the active ones, and as gone the lost ones. The three statements of an insert
become one step, that of its commit. `ActiveNeverLost` is a consequence: a head is only ever replaced.

### PgRunWriter and RunPersistence

A game is its place in the order of completion; it leaves one run row and perhaps a version. `main` walks
through the code of the runner: the refresh before a game with its two
flush paths (`RefreshFlush`, `AwaitVersions`, `LoadHead`), `CompleteGame`, the flush of a full buffer
(`BatchFlush`), the blocking `Send`, and `Finish`, `Collect`, `Join`. The
writer thread connects, takes a batch and absorbs up to `Coalesce` more that are already there, writes
versions one by one and then the runs, prunes, and answers once for the group; any statement
may fail and the thread may panic. `config` is chosen in the initial state, so one run covers every setting of refresh,
flush and batch size. The batches handed over are a history; `taken` and `settled` are positions in it.
`RunPersistence` says only: batches are answered in order, durable as whole groups, and the run ends well only
if all are durable. `ImplementsPersistence` maps `durable` to the batches whose rows are all in the store.
A batch of another experiment would be deferred; within a process that cannot happen, and it is left out.

### TournamentRuns

`at` walks a run through `main_soccer_tournament_run.rs`: `Acquire`, `Reconcile`, `LoadPool`,
`StartHeader`, `Play`, `Record` and `Checkpoint` per wave, then `Promote`, `FinishHeader`, `Release`, or after a stop
`Salvage` and the like. `Attempt` is the retry loop of the store: a call takes effect or not, and is
answered, cut by a lost connection and repeated, or given up. The lock belongs to the session: losing the
connection frees it, and the run goes on without it. `Kill` may come anywhere. The model is that of the default `promote=true`:
with promotion off nothing is inserted, a completed tournament has no champion in the store, and `ChampionIsBanked` says nothing.

### TournamentBracket

`run_parallel`: a wave starts with copies of the brains it needs (`StartWave`), its matches end one by one in chunks of
`max_parallelism` (`EndMatch`, `Running`), and it is committed as a whole, match by match (`Commit`), or fails (`WaveFails`).
The score of a match, a shootout and a failing thread are choices. Pots, the circle method (`Place`, `Pair`, `Fixture`),
tables with head-to-head, `SeedBracket`, byes, third place and `CrownChampion` are the code's
algorithms, checked against declarative properties over all results. What the code builds by pushing to a vector is given
place by place (the fixture at a place of a wave, the team at a place of the bracket), so that it can be reasoned about.
A brain is the number of matches it has learned from. The specification is `BracketSpec`, its type invariant `BracketTypeOK`.

### HumanInputs

One action per critical section. `Accept` is the router that checks whom a slot controls, `Dispatch` the mailbox,
`TakeFrame`, `Push`, `Notify` the controller thread of a slot, `StepBegin` to `StepEnd` the tick: it reads
the notifier's version, looks, sleeps, coalesces, takes players in any order and drains. `Assign`, `Reset` and
their `ClearPending*` steps run under the session mutex, but the clearing of queue and mailbox are two critical sections.
Time is the choice to let a frame expire or a wait end.

### LiveServer

A session is named by the connection it was built for. `TakeStream`, `ReadRequest`, `Resolve`, `Build`,
`Insert`, `Enter`, `Finish`, `Write` and `Close` are the stages of a request; `Resolve` and `Insert` are the two
critical sections of the registry, with a clock reading from before the first. `holds` is who has an Arc
of a session: when the last goes its threads end. A handler may panic at the stages where the code runs a match.

## 3. Runs

| Run | Checks | Result |
|---|---|---|
| `match` | `HeldBallIsRightful`, `LastTouchTeamTrue`, `GoalKickoffLedger`, `GuardedTakerNeverRegains`, `MatchEnds`, `ImplementsLifecycle` | hold |
| `inspect_ring` | `TornFree`, `NoStaleFrame` | hold |
| `neural_worker` | `BooksAgree`, `SnapshotMatchesSteps`, `NothingHangs` | hold |
| `learning_queue` | `GamesAccounted`, `MergesKept`, `RunEnds` | hold, for both programs |
| `policy_promotion` | `AtMostOneActive`, `ParentsFirst`, `ImplementsHistory`, `VersionsWritten` | hold |
| `pg_writer` | `BooksBalance`, `SuccessMeansDurable`, `HeadIsCurrent`, `WrittenInOrder`, `CallsReturn`, `ImplementsPersistence` | hold |
| `tournament_runs` | `MatchesArePrefix`, `ChampionIsBanked`, `OnlyOrphansReclaimed`, `LockIsFreed` | hold |
| `elite_pool_lost` | `BreedingGoesOn` | violated: a run that died before its first wave hides the elites of an earlier one |
| `tournament_bracket` | `EveryPairMeets`, `BrainsCarryForward`, `BestAdvance`, `PodiumIsEarned` | hold |
| `human_inputs` | `NoLostWakeup`, `InputsInOrder`, `CommandAtMostOnce`, `LatchFollowsAssignment` | hold |
| `stale_input` | `StaleInputNotInherited` | violated: a frame in a controller thread's hand survives the reassignment of its slot |
| `live_server` | `TabKeepsItsMatch`, `CapExceededOnlyByOpenTabs`, `EveryStreamServed`, `SessionsReleased` | hold |

`HeldBallIsRightful` joins the settling of pass, shot and offside, the restart guard (`RestartGuardIsItsHolder`: while a restart is held, a guard that is armed is
the holder's, also when an opponent has taken the restart from its taker) and the goal kick;
the lifecycle contract is checked through `ImplementsLifecycle`. The two violated runs quote in `PROJECT.json` what the repository says otherwise.
Each module also has a type invariant, which is proved (section 4) and which TLC checked on the run of its module.

### Other divergences

Met while reading or checking; where a property is named it stands in its module
and fails on the constants of the module's run, but no run keeps it.

- After an offside an opponent whose turn comes later in the same tick may take the ball from the taker of the free kick
  (`world.rs` 25927, 31166, against 31649: "opponents are held at the line until the taker plays the ball"; `TakerKeepsRestart`).
- Saves, parries and blocks leave the double-touch guard armed (`world.rs` 37098-37300, against 1914: "cleared once any other player
  touches it"; `OtherTouchClearsGuard`).
- A goal in the last tick of a period or half gets the boundary's kickoff during its celebration, and a second one after it
  (`world.rs` 26589, against 39199: "the ball stays in the net"; `BallStaysInNet`).
- A history the writer has lapped may give a newer frame first (`inspect.rs` 728, against 717: "chronological"; `HistoryChronological`).
- With one worker of several panicked the queue waits for ever (`soccer_learning.rs` 5207, against the join and its error at 5265;
  `PanicReported`). The learning run catches the panic.
- The head is read before the advisory lock, so a runner's version may replace a head it has not learned from
  (`main_soccer_learning_queue.rs` 1083, against the test at `soccer_learning.rs` 7402; `PromotionReplacesParent`).
- The group comparator is not the "TOTAL order" of `tournament.rs` 629: head-to-head may be cyclic (`RankingIsTotal`).
- A held restart may be dribbled off its spot by a continuation intent (`world.rs` 25927, against `tests.rs` 68295; `HeldRestartStaysOnSpot`).
- A half or period boundary that falls in a celebration is skipped (`world.rs` 25760, against `tests.rs` 9044; `BoundariesMarked`).
- After a regression all later versions of a runner have a stale parent and are archived unbeaten (`main_soccer_learning_queue.rs` 2876, against `docs/policy-version-bloat-and-promotion-stall.md` 64; `ArchivedOnlyIfBeaten`, with `FloorAboveGate` false).
- The learning run returns early on some errors without finishing its Postgres writer.
- "Any running row is provably a zombie" (`soccer_learning_pg.rs`, about 1604) is false once a session was lost; `OnlyOrphansReclaimed` says what remains true.
- A tournament stopped at its deadline exits 0 though the promotion of the salvaged brain failed; a failed record of the last wave is never retried and the header still becomes `completed`.
- With four advancers a group the extra ones are marked as advanced and do not play (`tournament.rs` 915; `AdvancersPlay`).
- `matches_total` counts a third-place match that a knockout of two teams never plays (`tournament.rs` 981-983).
- A game that was polled a moment ago looks idle to a resolve with an older clock reading (`OpenMatchNeverReclaimed`); a local policy refresher keeps an evicted session alive; a failed `accept` ends the server.
- A slow client holds its HTTP worker, as writes have no timeout.

### Bounds

- *Matches:* a keeper and one outfielder against a keeper and two: a restart has a taker,
  receivers and opponents; a pass can find either of two offside candidates; both
  sides can concede. 7 ticks with two celebration ticks, boundaries of periods after ticks 2
  and 4 and of the halves after 3 and 6, so a celebration can contain, precede or follow a
  boundary of either kind. `MaxGoals` is 2: a second goal can follow the kickoff of
  the first. It is also the score cap of the lifecycle.
- *Ring:* 3 slots and 7 frames lap the ring twice; 2 words make a torn frame possible;
  2 attempts make both a retry and giving up possible. One reader is enough: readers share
  nothing but what they read.
- *Neural:* 3 pending batches, 2 per tick, snapshots every 2, 5 offered: both channels fill,
  the limit drops batches, and a snapshot falls inside and between commands.
- *Queue:* 3 workers, 4 games: games overlap, one waits queued or starts the second batch, some
  workers can panic with others alive, all can.
- *Promotion:* two runners and a tournament, 3 versions, one crash anywhere, asynchronous
  writer: three promoters can be between read and lock.
- *Writer:* 3 games, a channel of one batch, groups of two: the channel is full while the writer is in
  a group, a group fails with another batch behind it; all settings.
- *Tournament runs:* 2 runs, 2 waves, 2 attempts, 2 faults: a fault may hit each of two runs, or a call and its repetition.
  The violated run `elite_pool_lost` has 3 runs with one wave and no fault but kills.
- *Bracket:* six formats (one group of 4 with 2 or 4 advancers; two of 3 with 2 and a third place; two of 2 with 1, double; one of 3
  with 2, double; three of 2 with 1, which `validate` refuses), 3 scores (so that tables tie on every criterion), chunks of 2.
- *Inputs:* 2 slots, 2 players, 2 sequence numbers, 2 frames, 2 assignments or resets: a frame can be in any hand while its
  slot changes player twice. Slots and players are symmetric.
- *Server:* two named games and the default, 2 workers, a registry of 2, a queue of 1, 3 connections, 4 clock values, idle after 2: two builds
  race for one id or for the last place, and an eviction meets a request on its way.

`MaxGoals`, `MaxFrames`, `MaxOffered`, `MaxVersions`, `MaxRestarts`, `MaxFaults`, `MaxSeq`, `MaxAdmin`, `MaxNow`
and `Connections` bound what the code does not bound. Deadlock checking is off where the system may stop
or a bound stops it; in `PolicyPromotion` it is on.

### Fairness

- `MatchControl`: weak fairness of `Next`; every driver steps a match until `is_done`.
- `InspectRing`: readers run on; the writer has no fairness at all.
- `NeuralWorker`: both threads run on, a timed wait ends, a dropped learner drops its
  receiver. No call is forced to happen.
- `LearningQueue`: each thread runs while it can; a game ends since it has a fixed number of ticks.
- `PolicyPromotion`: the flush and its inserts go on, a decided reload is done, and the buffer is flushed,
  which the code does before a game, with a full batch, and at the end of the run. Games
  need not start or end.
- `PgRunWriter`: the main thread and the writer thread run while they can; statements end, with success or failure.
- `TournamentRuns`: each started run goes on, as every call has a bounded number of attempts with timeouts; no run has to be started or killed.
- `LiveServer`: the accept loop's send and each worker go on; a request on a connection ends because reads have a timeout. Connections need not come.
- `HumanInputs` and `TournamentBracket` have none: only safety is claimed of them. A tick's wait ends by its deadline in the code.

## 4. Proofs

| Module | Theorems | Argument |
|---|---|---|
| `MatchProofs` | `TypeCorrect` | `TypeOK` is inductive, one lemma per group of actions |
| | `HeldBallRightful`, and its parts `HeldBallIsSettled`, `RestartGuardIsHolders`, `GoalKickHeldByTaker` | with *a pass and a shot are never both pending*, which a save needs as it ends only the shot, and with what a pending goal kick says about label, shot and guard |
| | `LastTouchIsTrue` | with *the holder is the last toucher* |
| | `GoalsAreKickedOff` | with *a celebration owes a kickoff* and *in a celebration the ball does not act* |
| | `KickoffFollowsGoal`, `NoDoubleTouch` | action properties from the same invariants |
| | `MatchImplementsLifecycle` | initial state to initial state, every step to a step or a stutter, using the invariants above and *the opening is held by the home side* |
| | `ValidateHolds`, `FinishedAbsorbs`, `ConcederRestarts` | of `Lifecycle` itself, with *a stoppage has a scorer and its conceder restarts* |
| `InspectRingProofs` | `RingTypeCorrect`, `ReadsAreTornFree`, `ReadsAreFresh` | an even sequence number means a whole slot; numbers only grow; the writer makes one odd before it touches a word; a reader that saw the same even number twice copied from an unchanged slot |
| `NeuralWorkerProofs` | `NeuralTypeCorrect`, `BooksAlwaysAgree`, `SnapshotsMatch` | the books are sums over what the two channels hold, so the proof starts with sums over a queue. `pending` covers what is in the channels and the job at any time (`OwesAtLeast`) and is exactly that until a panic or a shutdown (`PendingIsOwed`); the type needs this, or `saturating_sub` could hide a mistake. The training steps of a snapshot are those reported before it plus the answers ahead of it (`NetTrue`, `SnapshotsTrue`) |
| | `WaitIsNotMutual` | while the learner waits, no answer is queued, so by the books what is pending is in the command channel or in the job: the worker has work, and room for its answer |
| `LearningQueueProofs` | `QueueTypeCorrect`, `ActiveIsInFlight`, `CompletedStayMerged` | `IInv`: the active count is what is queued, played, answered or lost in a panic; a game in flight is in one place and not merged (`OnePlace`, for the queue); in the run nothing is merged while a batch is out (`SameStart`), because an active count of zero means nothing is in flight |
| | `NoGameDisappears` | the dispatched games are counted: every place a game can be in holds distinct episodes, the places are disjoint, and together they are as many as were dispatched |
| | `HangsOnlyAfterPanic` | when every thread waits there is no task, no result and no game, so by the count of `ActiveIsInFlight` what main waits for are games of panicked workers; in the learning run, whose workers catch panics, there is none |
| `PolicyPromotionProofs` | `PromotionTypeCorrect`, `UniqueActive`, `ActiveKept` | `IInv`: one transaction at a time is past the lock; what it dooms is exactly the active row, so its commit replaces it; a version in memory is pending, owned by one process and queued once, so a commit never finds its own version active already |
| | `PromotionImplementsHistory` | refinement of `VersionHistory`: a commit or an insert below the floor is `Archive` or `Promote`, a restart is `Lose`, every other step stutters. by `DoomedIsActive` a commit replaces every head there is, by `Lineage` the parent has its row, and what a restart loses is pending (`PendingInMemory`) |
| | `ParentsBeforeChildren` | `Lineage`: what a promoter builds on, and what its games started from, has its row or waits in that promoter's memory; a parent in the same memory is older; the oldest is written first, so its parent already has a row |
| `PgRunWriterProofs` | `WriterTypeCorrect`, `BooksAlwaysBalance`, `SuccessIsDurable`, `HeadAlwaysCurrent`, `AlwaysWrittenInOrder` | follow a batch through the channel, the writer's hands and the answers: what the thread does says what it holds (`ThreadAt`), each batch handed over is in the channel, in hand, answered or received (`Answered`), an answer of success means its versions and runs are stored (`OkIsStored`), batches stay in the order they were handed in (`HandedInOrder`), and what is stored is an initial part of it (`StoreInOrder`) |
| | `WriterImplementsPersistence` | refinement of `RunPersistence`: handing over is `Accept`, the insert of a group is `Persist`, an answer is `Settle`, the end of `finish` is `Succeed`, the first error is `GiveUp`; every other step stutters. It needs the invariants above, to know that a group is written whole and that success comes after the last answer |
| | `NeverStandstill` | main waits only while a version or batch is pending (`WaitsFor`), which by the books is in the channel, in the writer's hands or answered; a writer without a batch has a main thread with none to wait for |
| `TournamentProofs` | `TournamentTypeCorrect`, `RecordedIsPrefix`, `ChampionBanked`, `OnlyOrphans` | `IInv`: what is recorded is a prefix between `persisted` and `played`; the stage a run is at says whether its champion is inserted; two live runs past the lock cannot both have kept their session |
| | `LockIsWithLiveRun` | each call of the store keeps the lock with its run or loses lock and session together (`CallKeepsLock`), each end of a run frees it (`EndFreesLock`); a run that has not locked yet has no session to lose (`FreshSession`) |
| | `BracketTypeCorrect` | part of `BracketInv`; a score is a pair of numbers and a record adds up numbers |
| | `EveryPairHasMet` | the circle method, for a table of any even size: every two seats meet (`MeetAtAll`) in one round and one pair only (`MeetOnce`); a bye leaves out one pair of a round, so the other matches keep their order (`SlotFacts`); the two legs swap the sides (`MeetUnique`); and the reports begin with the waves of the groups in order (`Schedule`), so that a pair met exactly where a wave has it (`Hosted`) |
| | `BrainsAreCarried` | no team plays twice in a wave (`WaveApart`, and `Distinct` for the knockout), so after each match of a commit the copies made for the matches still to come are what their teams' brains are (`Ahead`, `CommittedFacts`) |
| | `BestTeamsAdvance` | before the first knockout round the bracket is that of the tables and these are rankings (`Seeded`); neighbours of a ranking are in the order of the comparator, and *not having done worse* follows from it and is transitive where the comparator need not be (`NotWeakerChains`); where each advancer stands in the bracket (`BracketCells`) |
| | `PodiumAlwaysEarned` | who is still in has won everything (`Unbeaten`), who is out does not come back (`NoComeback`), the losers of the semi-finals lost in the round before the final (`LosersLost`), the third-place match is theirs and its winner is the third (`ThirdTrue`), the last knockout report is the final of the champion and the runner-up (`LastIsFinal`, `Crowned`) |
| `LiveProofs` | `InputsTypeCorrect`, `LatchAssigned` | a tick has the session's lock from its first step to its last, an assignment until the slots it affects are cleared (`Locked`); a latch has the sequence number of the last frame that drove its slot, which an assignment or a reset sets back to zero |
| | `WakeupNotLost` | what a waiting tick has seen of the notifier is not from the future (`SeenIsPast`): a push after its look moves the version on |
| | `InputsNeverGoBack` | the watermark of a queue never falls below what has driven its slot, and a slot being cleared was driven by nothing (`Watermarks`) |
| | `CommandOnce` | a frame is in one place (`OnePlace`), numbered in the order of acceptance, and once its command is executed it is nowhere (`Spent`) |
| | `ServerTypeCorrect`, `TabsKeepTheirMatch`, `CapHoldsButForOpenTabs` | a session's stamp and the moment it was served are at most `Slowest` apart (`StampIsRecent`); that the stamp is not another game's needs that no two games share a session, hence that each connection is in one place (`OneConnection`); a game that was served and is no longer registered is stale (`GoneIsStale`), so only a stale one can get another match |
| | `ThreadsRunWhileReached` | what a worker holds follows from where it is (`HoldsByStage`), and a match runs exactly while something reaches it (`RunsWhileReached`): an eviction or a lost race hands its session to the worker, and giving it up ends the threads only of what nobody else reaches |

They hold for all constants that satisfy the named assumptions (`SquadsAssumption`, `ClockAssumption`, `NoneAssumption`,
`RingAssumption`, `NeuralAssumption`, `QueueAssumption`, `PromotionAssumption`, `WriterAssumption`, `TournamentAssumption`, `BracketAssumption`,
`InputsAssumption`, `ServerAssumption`, and as a hypothesis `LimitsAssumption` of `Lifecycle`, which `MatchProofs` sees
as an instance with constants of its own): any squads, any lengths of match and divisions of it, any ring, channel,
group or cadence, any number of workers, promoters, games, versions, slots, players and connections, any number of overlapping
tournaments with any number of faults, any format of a tournament. Bounds on counters are constants too, so the bounds of the runs are not in them.
What the assumptions ask beyond types is that the model values differ, that the slots are a finite set (their counts are added up), and that capacities are not zero.

Why the strengthenings are needed: a commit of `PolicyPromotion` looks at the row set an earlier statement saw, and
without `DoomedIsActive` its step is not inductive; a runner takes a version as its base before it is
written, and without `BasesKnown` the next child could have a parent that exists nowhere; a merge of the learning
run may replace the policies by those of one game, which undoes nothing only because of `SameStart`;
an eviction reads a clock from before its lock, so without `InTime` it could take a match from an open tab;
the runner's success is that of the last answers it received, and says nothing of the store without `OkIsStored`.
Every strengthening was checked by TLC on the run of its module before it was proved.

Sums and counts are where induction over data enters. The library's induction theorems take an operator as a parameter,
which none of the provers can instantiate; induction is used instead as a fact about sets (`SetInduction`: a set of numbers
that has 0 and with each number the next one has them all), which the prover can cite for a set given by a comprehension.

The sums of head-to-head results (`Meetings`) are folds, of which the prover knows nothing. The proof of `BestAdvance` does without
them: whatever they are, the comparator asks for them only when points, difference and goals are level.

Deadlock freedom needs `ENABLED`, which the prover does not have. The theorems `HangsOnlyAfterPanic`, `WaitIsNotMutual` and `NeverStandstill` state it with
predicates that say when a thread waits (`MainWaits`, `WorkerWaits`, `MainBlocked`, `WriterBlocked`, `LearnerWaits`, `WorkerBlocked`); TLC confirmed on the
instances of the queue and of the Postgres writer that these hold exactly where the actions of the thread are disabled. The first one is not idle: after a panic of one worker the self-play queue does reach such
a state, since nothing takes the lost game off the active count. `WaitIsNotMutual` is about the wait for pending batches only: the wait for a
snapshot can be in vain until its deadline, because the drain of an earlier slice may have taken the answer. `ActiveKept`, `LockIsWithLiveRun`
and `ThreadsRunWhileReached` state more than the properties of their runs do, or what follows from them, and no run repeats them.

Only model-checked: liveness (`MatchEnds`, `NothingHangs`, `RunEnds`, `VersionsWritten`, `CallsReturn`, `LockIsFreed`,
`EveryStreamServed`, `SessionsReleased`), which the prover does not do under fairness.

## 5. Not modelled

The mapped lines are a small share of a repository of 288 000 lines. Most of the rest is
floating-point geometry, physics, perception, utility scores and learning numerics,
their tests and their tools: sequential code, whose result is a number. The models take
every outcome such code can have as a choice, so they check the control around it, not the numbers.
`PROJECT.json` gives the reason for every component; in particular:

- *Physics, perception, decisions, heuristics, policy selection, rewards, ratings, genome, rotation, set-play trials:* pure and numeric.
- *Match engine:* red cards, substitutions and injuries (without effect on control), fields only learning reads.
- *Truncation of the ring's file* by a restarted server: until the file has its length again an access of a reader faults, then it
  reads zeroes that pass as a frame; the code promises nothing about it that could be stated.
- *Learning run:* merges of selected games, evolution, rollback of a local trial, artefacts: scores and files.
- *Postgres store:* migrations, pruning, soft deletes and reports are SQL over data. Pruning is a step of `PgRunWriter` without effect on the rows it tracks.
- *Live server:* what a request does to its match, and the policy refreshers. Two things were read there and are not
  modelled: the local refresher of an older session can overwrite the warm cache, and the probe for a newer policy by the largest stamp masks one that commits late with an older stamp.
- *Tournament bracket:* the sequential `run`, the breeding of entrants, the engine runner.
- *Side crates, Python models, scripts, viewers:* not linked into the engine.

What would come next: the policy refreshers as holders of a session with their cache, with the two things
named above as runs of their own.
