--------------------------- MODULE PolicyPromotion ---------------------------
(***************************************************************************)
(* Policy versions of one experiment in Postgres, and the processes that   *)
(* promote them: queue runners (main_soccer_learning_queue.rs), which play *)
(* games from a base version and insert what they learned, and tournaments *)
(* (main_soccer_tournament_run.rs), which promote their champion.          *)
(*                                                                         *)
(* A version is a number, given out in order of creation.  The weights are *)
(* left out: a reload of the version a runner already has changes nothing  *)
(* here.  So are versions the promotion gate rejects, which are inserted   *)
(* under another status and touch no other row.                            *)
(***************************************************************************)
EXTENDS Integers, Sequences

CONSTANTS
  Runners, Tournaments,
  Parallel,           \* games a runner plays at once
  MaxVersions,        \* bound: versions ever created
  MaxRestarts,        \* bound: crashes, over all processes
  Fitnesses,          \* fitness of a version
  AllowedRegression,  \* SOCCER_POLICY_ACTIVE_MAX_FITNESS_REGRESSION
  FlushFirst,         \* pg_flush_policy_versions_before_new_sim
  FloorAboveGate      \* the sample floor of the store exceeds the gate's

ASSUME PromotionAssumption ==
  /\ Runners \intersect Tournaments = {}
  /\ Parallel \in Nat \ {0} /\ MaxVersions \in Nat /\ MaxRestarts \in Nat
  /\ Fitnesses \subseteq Int /\ AllowedRegression \in Nat
  /\ FlushFirst \in BOOLEAN /\ FloorAboveGate \in BOOLEAN

Promoters == Runners \union Tournaments
Versions == 1..MaxVersions
None == 0       \* no version
Unread == -1    \* the active head has not been read for this insert
Slots == 1..Parallel
Games == [base : Versions \union {None}, gen : Int, head : Versions \union {None}]
NoGame == [base |-> Unread, gen |-> 0, head |-> None]

VARIABLES
  created,   \* versions created so far
  parent, gen, fit,
  began,     \* history: the head when the game behind a version started
  status,    \* of each version: none, pending (in memory), lost, or its row's
  base,      \* pg_base_policy_version_id
  local,     \* pg_generation
  games,     \* per slot, the base a running game started from
  loading,   \* the refresh was decided and the head is about to be loaded
  buffer,    \* pg_policy_version_buffer
  queue,     \* versions handed to the flush, oldest first
  seen,      \* the active head read before the insert
  tx,        \* the insert transaction of a promotion
  doomed,    \* the rows that transaction archives
  restarts

table == <<created, parent, gen, fit, began>>
runner == <<base, local, games, loading>>
insert == <<seen, tx, doomed>>
vars == <<table, status, runner, buffer, queue, insert, restarts>>

Active == {v \in Versions : status[v] = "active"}

\* The row load_latest_active_policy_metadata selects.
ActiveHead ==
  IF Active = {} THEN None
  ELSE CHOOSE v \in Active : \A w \in Active : gen[w] <= gen[v]

Generation(v) == IF v = None THEN 0 ELSE gen[v]

Init ==
  /\ created = 0
  /\ parent = [v \in Versions |-> None]
  /\ gen = [v \in Versions |-> 0]
  /\ fit = [v \in Versions |-> 0]
  /\ began = [v \in Versions |-> None]
  /\ status = [v \in Versions |-> "none"]
  /\ base = [p \in Promoters |-> None]
  /\ local = [p \in Promoters |-> 0]
  /\ games = [p \in Promoters |-> [s \in Slots |-> NoGame]]
  /\ loading = [p \in Promoters |-> FALSE]
  /\ buffer = [p \in Promoters |-> <<>>]
  /\ queue = [p \in Promoters |-> <<>>]
  /\ seen = [p \in Promoters |-> Unread]
  /\ tx = [p \in Promoters |-> "idle"]
  /\ doomed = [p \in Promoters |-> {}]
  /\ restarts = 0

-----------------------------------------------------------------------------
(* Playing games *)

Game(p) == [base |-> base'[p], gen |-> local'[p], head |-> ActiveHead]

\* soccer_postgres_policy_refresh_decision.
RefreshPolicy(r) ==
  /\ ActiveHead # None
  /\ \/ base[r] = None
     \/ gen[ActiveHead] > local[r]
     \/ gen[ActiveHead] = local[r] /\ ActiveHead # base[r]

\* The refresh plan of a new simulation: flush first, or wait for the writer.
Durable(r) == queue[r] = <<>> /\ (FlushFirst => buffer[r] = <<>>)

\* In a synchronous flush or a load the runner's main thread does nothing else.
MainFree(r) == ~loading[r] /\ (FlushFirst => queue[r] = <<>>)

(* StartingBatch: reads the head's metadata and may decide to reload. *)
StartGame(r, s) ==
  /\ games[r][s] = NoGame /\ MainFree(r) /\ Durable(r)
  /\ IF RefreshPolicy(r)
     THEN loading' = [loading EXCEPT ![r] = TRUE] /\ UNCHANGED <<base, local, games>>
     ELSE /\ UNCHANGED <<base, local, loading>>
          /\ games' = [games EXCEPT ![r][s] = Game(r)]
  /\ UNCHANGED <<table, status, buffer, queue, insert, restarts>>

(* The reload takes whatever version is the head by then. *)
LoadHead(r, s) ==
  /\ loading[r] /\ games[r][s] = NoGame
  /\ loading' = [loading EXCEPT ![r] = FALSE]
  /\ base' = [base EXCEPT ![r] = IF ActiveHead = None THEN @ ELSE ActiveHead]
  /\ local' = [local EXCEPT ![r] = IF ActiveHead = None THEN @ ELSE gen[ActiveHead]]
  /\ games' = [games EXCEPT ![r][s] = Game(r)]
  /\ UNCHANGED <<table, status, buffer, queue, insert, restarts>>

Create(from, g, f, began0) ==
  /\ created < MaxVersions
  /\ created' = created + 1
  /\ parent' = [parent EXCEPT ![created'] = from]
  /\ gen' = [gen EXCEPT ![created'] = g]
  /\ fit' = [fit EXCEPT ![created'] = f]
  /\ began' = [began EXCEPT ![created'] = began0]
  /\ status' = [status EXCEPT ![created'] = "pending"]

Higher(a, b) == IF a >= b THEN a ELSE b

(* CompletedGame of a game that writes no version, or none to promote. *)
CompleteGame(r, s) ==
  /\ games[r][s] # NoGame /\ MainFree(r)
  /\ games' = [games EXCEPT ![r][s] = NoGame]
  /\ UNCHANGED <<table, status, base, local, loading, buffer, queue, insert, restarts>>

(* CompletedGame of a game whose version passes the gate: the runner takes  *)
(* it as its base at once, before it is inserted.                           *)
Learn(r, s, f) ==
  LET game == games[r][s] IN
  /\ game # NoGame /\ MainFree(r)
  /\ Create(game.base, Higher(local[r], game.gen) + 1, f, game.head)
  /\ games' = [games EXCEPT ![r][s] = NoGame]
  /\ buffer' = [buffer EXCEPT ![r] = Append(@, created')]
  /\ base' = [base EXCEPT ![r] = created']
  /\ local' = [local EXCEPT ![r] = gen'[created']]
  /\ UNCHANGED <<loading, queue, insert, restarts>>

(* Mutant: only a full batch is flushed, and the rest of a run never is. *)
FlushFullBatch(r) ==
  /\ Len(buffer[r]) >= 2 /\ ~loading[r]
  /\ queue' = [queue EXCEPT ![r] = @ \o buffer[r]]
  /\ buffer' = [buffer EXCEPT ![r] = <<>>]
  /\ UNCHANGED <<table, status, runner, insert, restarts>>

(* Mutant: a newer batch is written before an older one. *)
FlushNewestFirst(r) ==
  /\ buffer[r] # <<>> /\ ~loading[r]
  /\ queue' = [queue EXCEPT ![r] = IF tx[r] = "idle" /\ seen[r] = Unread
                                   THEN buffer[r] \o @ ELSE @ \o buffer[r]]
  /\ buffer' = [buffer EXCEPT ![r] = <<>>]
  /\ UNCHANGED <<table, status, runner, insert, restarts>>

(* The buffer goes to the flush: before a new game, with a full batch of    *)
(* completed games, or at the end of the run.                               *)
Flush(r) ==
  /\ buffer[r] # <<>> /\ ~loading[r]
  /\ queue' = [queue EXCEPT ![r] = @ \o buffer[r]]
  /\ buffer' = [buffer EXCEPT ![r] = <<>>]
  /\ UNCHANGED <<table, status, runner, insert, restarts>>

(* A tournament seeds its field from the head ... *)
Seed(t) ==
  /\ games[t][1] = NoGame /\ queue[t] = <<>>
  /\ base' = [base EXCEPT ![t] = ActiveHead]
  /\ local' = [local EXCEPT ![t] = IF ActiveHead = None THEN -1 ELSE gen[ActiveHead]]
  /\ games' = [games EXCEPT ![t][1] = Game(t)]
  /\ UNCHANGED <<table, status, loading, buffer, queue, insert, restarts>>

(* ... and promotes its champion, or what a stopped run salvaged.           *)
Champion(t, f) ==
  /\ games[t][1] # NoGame
  /\ Create(base[t], local[t] + 1, f, games[t][1].head)
  /\ games' = [games EXCEPT ![t][1] = NoGame]
  /\ queue' = [queue EXCEPT ![t] = Append(@, created')]
  /\ UNCHANGED <<base, local, loading, buffer, insert, restarts>>

-----------------------------------------------------------------------------
(* Inserting a version *)

(* flush_postgres_completed_runs reads the head in a statement of its own.  *)
ReadHead(r) ==
  /\ queue[r] # <<>> /\ seen[r] = Unread
  /\ seen' = [seen EXCEPT ![r] = ActiveHead]
  /\ UNCHANGED <<table, status, runner, buffer, queue, tx, doomed, restarts>>

\* soccer_policy_version_insert_status_after_active_head.
StaysActive(v, head) ==
  head # None =>
    /\ parent[v] = head
    /\ gen[head] < gen[v]
    /\ fit[v] >= fit[head] - AllowedRegression

Work(p) == Head(queue[p])
Ready(p) == queue[p] # <<>> /\ tx[p] = "idle" /\ (p \in Runners => seen[p] # Unread)
Accepted(p) == p \in Runners => StaysActive(Work(p), seen[p])

Done(p) ==
  /\ queue' = [queue EXCEPT ![p] = Tail(@)]
  /\ seen' = [seen EXCEPT ![p] = Unread]

(* The version is inserted as archived, by the head or by the sample floor. *)
InsertArchived(p) ==
  /\ Ready(p)
  /\ \/ ~Accepted(p)
     \/ FloorAboveGate /\ p \in Runners
  /\ status' = [status EXCEPT ![Work(p)] = "archived"]
  /\ Done(p)
  /\ UNCHANGED <<table, runner, buffer, tx, doomed, restarts>>

(* Mutant: no advisory lock. *)
LockNothing(p) ==
  /\ Ready(p) /\ Accepted(p)
  /\ tx' = [tx EXCEPT ![p] = "locked"]
  /\ UNCHANGED <<table, status, runner, buffer, queue, seen, doomed, restarts>>

(* pg_advisory_xact_lock of the experiment, held to the end of the          *)
(* transaction.                                                             *)
Lock(p) ==
  /\ Ready(p) /\ Accepted(p)
  /\ \A q \in Promoters : tx[q] = "idle"
  /\ tx' = [tx EXCEPT ![p] = "locked"]
  /\ UNCHANGED <<table, status, runner, buffer, queue, seen, doomed, restarts>>

(* Mutant: the update commits on its own. *)
ArchiveOldAtOnce(p) ==
  /\ tx[p] = "locked"
  /\ tx' = [tx EXCEPT ![p] = "archived"]
  /\ status' = [v \in Versions |-> IF v \in Active THEN "archived" ELSE status[v]]
  /\ UNCHANGED <<table, runner, buffer, queue, seen, doomed, restarts>>

(* The update that archives the active rows the statement sees. *)
ArchiveOld(p) ==
  /\ tx[p] = "locked"
  /\ tx' = [tx EXCEPT ![p] = "archived"]
  /\ doomed' = [doomed EXCEPT ![p] = Active]
  /\ UNCHANGED <<table, status, runner, buffer, queue, seen, restarts>>

(* The insert and the commit. *)
Commit(p) ==
  /\ tx[p] = "archived"
  /\ status' = [v \in Versions |->
       IF v = Work(p) THEN "active" ELSE IF v \in doomed[p] THEN "archived" ELSE status[v]]
  /\ tx' = [tx EXCEPT ![p] = "idle"]
  /\ doomed' = [doomed EXCEPT ![p] = {}]
  /\ Done(p)
  /\ UNCHANGED <<table, runner, buffer, restarts>>

Insert(p) == InsertArchived(p) \/ Lock(p) \/ ArchiveOld(p) \/ Commit(p)

InMemory(p) ==
  {buffer[p][i] : i \in DOMAIN buffer[p]} \union {queue[p][i] : i \in DOMAIN queue[p]}

(* A process stops, or a failed statement stops it: its transaction is      *)
(* rolled back and what it had not inserted is lost.  A runner starts again *)
(* from the head.                                                           *)
Restart(p) ==
  /\ restarts < MaxRestarts
  /\ restarts' = restarts + 1
  /\ status' = [v \in Versions |-> IF v \in InMemory(p) THEN "lost" ELSE status[v]]
  /\ base' = [base EXCEPT ![p] = ActiveHead]
  /\ local' = [local EXCEPT ![p] = Generation(ActiveHead)]
  /\ games' = [games EXCEPT ![p] = [s \in Slots |-> NoGame]]
  /\ loading' = [loading EXCEPT ![p] = FALSE]
  /\ buffer' = [buffer EXCEPT ![p] = <<>>]
  /\ queue' = [queue EXCEPT ![p] = <<>>]
  /\ seen' = [seen EXCEPT ![p] = Unread]
  /\ tx' = [tx EXCEPT ![p] = "idle"]
  /\ doomed' = [doomed EXCEPT ![p] = {}]
  /\ UNCHANGED table

RunnerStep(r) ==
  \/ \E s \in Slots : StartGame(r, s) \/ LoadHead(r, s) \/ CompleteGame(r, s)
  \/ \E s \in Slots, f \in Fitnesses : Learn(r, s, f)
  \/ Flush(r) \/ ReadHead(r)

TournamentStep(t) == Seed(t) \/ \E f \in Fitnesses : Champion(t, f)

Next ==
  \/ \E r \in Runners : RunnerStep(r)
  \/ \E t \in Tournaments : TournamentStep(t)
  \/ \E p \in Promoters : Insert(p) \/ Restart(p)

\* A run that is not stopped flushes its buffer in the end, and the flush
\* goes on while there is something to insert.
Fairness ==
  \A p \in Promoters :
    /\ WF_vars(Insert(p))
    /\ WF_vars(p \in Runners /\ ReadHead(p))
    /\ WF_vars(p \in Runners /\ Flush(p))
    /\ WF_vars(p \in Runners /\ \E s \in Slots : LoadHead(p, s))

Spec == Init /\ [][Next]_vars /\ Fairness

-----------------------------------------------------------------------------
(* Properties *)

(* Every variable stays in its range. *)
TypeOK ==
  /\ created \in 0..MaxVersions
  /\ parent \in [Versions -> Versions \union {None}]
  /\ gen \in [Versions -> Nat] /\ fit \in [Versions -> Int]
  /\ began \in [Versions -> Versions \union {None}]
  /\ status \in [Versions -> {"none", "pending", "lost", "active", "archived"}]
  /\ base \in [Promoters -> Versions \union {None}]
  /\ local \in [Promoters -> Nat \union {-1}] /\ \A r \in Runners : local[r] \in Nat
  /\ games \in [Promoters -> [Slots -> {NoGame} \union Games]]
  /\ loading \in [Promoters -> BOOLEAN]
  /\ buffer \in [Promoters -> Seq(Versions)] /\ queue \in [Promoters -> Seq(Versions)]
  /\ seen \in [Promoters -> Versions \union {None, Unread}]
  /\ tx \in [Promoters -> {"idle", "locked", "archived"}]
  /\ doomed \in [Promoters -> SUBSET Versions]
  /\ restarts \in 0..MaxRestarts

(* An experiment never has two active rows, however many processes promote  *)
(* at once and wherever they stop.                                          *)
AtMostOneActive == \A v, w \in Active : v = w

(* Once a policy is active there is always one to load: no reader and no    *)
(* crash falls between the archiving and the insert.                        *)
ActiveNeverLost == [][Active # {} => Active' # {}]_vars

(* A version's row comes after its parent's, so the self-reference of the   *)
(* table holds at every insert, also when runners buffer versions.          *)
ParentsFirst ==
  \A v \in Versions :
    status[v] \in {"active", "archived"} /\ parent[v] # None
      => status[parent[v]] \in {"active", "archived"}

(* A version that passed the gate is inserted in the end, unless its        *)
(* process is stopped first.                                                *)
VersionsWritten == \A v \in Versions : status[v] = "pending" ~> status[v] # "pending"

(* soccer_learning.rs:7402: the version of a runner becomes active only     *)
(* while the head it replaces is its parent, the version it learned from.   *)
PromotionReplacesParent ==
  [][\A r \in Runners : \A v \in InMemory(r) :
       v \in Active' \ Active /\ Active # {} => parent[v] = ActiveHead]_vars

(* Only regression costs a version its promotion where the two floors agree:*)
(* it is archived when it is less fit than the head, or when the head has   *)
(* changed since its game started.                                          *)
ArchivedOnlyIfBeaten ==
  [][\A v \in Versions :
         /\ status[v] = "pending" /\ status'[v] = "archived"
         /\ ActiveHead # None /\ ~FloorAboveGate
       => \/ began[v] # ActiveHead
          \/ fit[v] < fit[ActiveHead] - AllowedRegression]_vars

Row(v) == status[v] \in {"active", "archived"}
Rows == {[version |-> v, parent |-> parent[v]] : v \in {w \in Versions : Row(w)}}
Lost == {v \in Versions : status[v] = "lost"}

History == INSTANCE VersionHistory WITH
  Version <- Versions, NoParent <- None, rows <- Rows, heads <- Active, gone <- Lost

(* However many processes promote at once and wherever they stop, what a    *)
(* reader of the table sees is a VersionHistory: a promotion replaces the   *)
(* head in one step, each version is written once, after its parent, or     *)
(* lost, and neither a row nor a loss is ever undone.                       *)
ImplementsHistory == History!Spec
=============================================================================
