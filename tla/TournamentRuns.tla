---------------------------- MODULE TournamentRuns ----------------------------
(***************************************************************************)
(* Tournament runs of one experiment against one database: the cluster-    *)
(* wide advisory lock, the reclaiming of headers left `running`, the       *)
(* breeding pool, the header, the matches and brains persisted wave by     *)
(* wave with retries, the promotion of the champion or of a salvaged brain *)
(* and the final status.  Runs are started by several schedulers, so any   *)
(* number of them overlap; each is killed, loses its connection or meets a *)
(* database error at any point.                                            *)
(*                                                                         *)
(* A run makes at most one header, which bears its name.  A wave is one    *)
(* match: a call records the waves not yet known to be recorded.  The      *)
(* lock is that of the session of a run; every call reconnects first.      *)
(***************************************************************************)
EXTENDS Naturals, Sequences, SequencesExt, FiniteSets

CONSTANTS
  Runs, None,
  Waves,        \* waves of the bracket
  MaxAttempts,  \* soccer_learning_pg_connect_max_attempts
  MaxFaults     \* bound: lost sessions and failed calls in all

ASSUME TournamentAssumption ==
  /\ None \notin Runs \union {"running", "partial", "failed", "completed", "ok", "skipped", "error", "killed"}
  /\ Waves \in Nat \ {0}
  /\ MaxAttempts \in Nat \ {0} /\ MaxFaults \in Nat

VARIABLES
  at,        \* where each run is
  tries,     \* attempts of the call it is in
  played,    \* waves played
  persisted, \* persisted_matches
  knows,     \* tournament_db_id is Some
  salvage,   \* best_salvage is Some
  pool,      \* the tournament whose elites it breeds from
  exit,      \* how it ended
  lost,      \* history: its session was lost since it took the lock
  lock,      \* the run whose session holds the advisory lock
  order,     \* headers in the order of created_at
  status, matches, brains,  \* of each header: status, rows, wave of the brains
  versions,  \* policy versions inserted by each run
  faults     \* lost sessions and failed calls so far

run == <<at, tries, played, persisted, knows, salvage, pool, exit, lost>>
headers == <<order, status, matches, brains>>
vars == <<run, lock, headers, versions, faults>>

Zero == [r \in Runs |-> 0]

Init ==
  /\ at = [r \in Runs |-> "new"] /\ tries = Zero /\ played = Zero /\ persisted = Zero
  /\ knows = [r \in Runs |-> FALSE] /\ salvage = [r \in Runs |-> FALSE]
  /\ pool = [r \in Runs |-> None] /\ exit = [r \in Runs |-> None]
  /\ lost = [r \in Runs |-> FALSE]
  /\ lock = None
  /\ order = <<>> /\ status = [r \in Runs |-> None]
  /\ matches = [r \in Runs |-> {}] /\ brains = Zero
  /\ versions = Zero /\ faults = 0

Ended(r) == at[r] = "over"

-----------------------------------------------------------------------------
(* Calls of the store.  The effect is in the database or not, and the call *)
(* returns Ok or Err; an error that is not the database's own loses the    *)
(* session, and with it the lock.                                          *)

KeepSession == UNCHANGED <<lock, lost, faults>>

LoseSession(r) ==
  /\ lock' = IF lock = r THEN None ELSE lock
  /\ lost' = [lost EXCEPT ![r] = TRUE]

\* The session goes without a call: it is noticed by the next one.
Disconnect(r) ==
  /\ at[r] \notin {"new", "lock", "over"} /\ ~lost[r] /\ faults < MaxFaults
  /\ LoseSession(r) /\ faults' = faults + 1
  /\ UNCHANGED <<at, tries, played, persisted, knows, salvage, pool, exit, headers, versions>>

\* One attempt: ok, refused by the database, or cut before or after commit.
Attempt(r, ok, cut, effect, none) ==
  \/ ok /\ ~cut /\ effect /\ KeepSession
  \/ ~ok /\ faults < MaxFaults /\ faults' = faults + 1
     /\ \/ ~cut /\ none /\ UNCHANGED <<lock, lost>>
        \/ cut /\ (none \/ effect) /\ LoseSession(r)

Go(r, place) == at' = [at EXCEPT ![r] = place] /\ tries' = [tries EXCEPT ![r] = 0]

\* A process that ends closes its session.
End(r, how) == Go(r, "over") /\ exit' = [exit EXCEPT ![r] = how]

(* with_transient_retry: only a lost session is worth another attempt. *)
Again(r, cut) == cut /\ tries[r] + 1 < MaxAttempts

-----------------------------------------------------------------------------
(* Before the first wave *)

Start(r) ==
  /\ at[r] = "new"
  /\ Go(r, "lock")
  /\ UNCHANGED <<played, persisted, knows, salvage, pool, exit, lost, lock, headers, versions, faults>>

(* Mutant: the run goes on although the lock is busy. *)
AcquireBusy(r) ==
  /\ at[r] = "lock"
  /\ lock' = r /\ Go(r, "reconcile")
  /\ UNCHANGED <<played, persisted, knows, salvage, pool, exit, lost, headers, versions, faults>>

\* try_acquire_tournament_run_lock; a busy lock ends the run well.
Acquire(r) ==
  /\ at[r] = "lock"
  /\ \/ lock = None /\ lock' = r /\ Go(r, "reconcile") /\ UNCHANGED exit
     \/ lock # None /\ End(r, "skipped") /\ UNCHANGED lock
  /\ UNCHANGED <<played, persisted, knows, salvage, pool, lost, headers, versions, faults>>

\* An error of the lock, or of ensure_experiment with the lock held.
SetupFails(r) ==
  /\ at[r] \in {"lock", "reconcile"} /\ faults < MaxFaults
  /\ End(r, "error") /\ faults' = faults + 1
  /\ lock' = IF lock = r THEN None ELSE lock
  /\ UNCHANGED <<played, persisted, knows, salvage, pool, lost, headers, versions>>

\* reconcile_orphaned_running_tournaments; an error is only logged.
Reconcile(r) ==
  /\ at[r] = "reconcile"
  /\ \E ok, cut \in BOOLEAN :
       Attempt(r, ok, cut,
               status' = [h \in Runs |-> IF status[h] = "running" THEN "partial" ELSE status[h]],
               UNCHANGED status)
  /\ Go(r, "pool")
  /\ UNCHANGED <<played, persisted, knows, salvage, pool, exit, order, matches, brains, versions>>

Finished == SelectSeq(order, LAMBDA h : status[h] \in {"completed", "partial"})

\* load_latest_tournament_elite_neural_pool: the newest finished tournament.
Elites ==
  IF Finished = <<>> \/ brains[Last(Finished)] = 0 THEN None ELSE Last(Finished)

LoadPool(r) ==
  /\ at[r] = "pool"
  /\ \E ok, cut \in BOOLEAN :
       Attempt(r, ok, cut, pool' = [pool EXCEPT ![r] = Elites], UNCHANGED pool)
  /\ Go(r, "header")
  /\ UNCHANGED <<played, persisted, knows, salvage, exit, headers, versions>>

\* start_tournament is not retried: without an id nothing more is persisted.
StartHeader(r) ==
  /\ at[r] = "header"
  /\ \E ok, cut \in BOOLEAN :
       /\ Attempt(r, ok, cut,
                  order' = Append(order, r) /\ status' = [status EXCEPT ![r] = "running"],
                  UNCHANGED <<order, status>>)
       /\ knows' = [knows EXCEPT ![r] = ok]
  /\ Go(r, "play")
  /\ UNCHANGED <<played, persisted, salvage, pool, exit, matches, brains, versions>>

-----------------------------------------------------------------------------
(* run_parallel and its callback *)

\* A wave is committed; with it there is a brain to salvage.
Play(r) ==
  /\ at[r] = "play" /\ played[r] < Waves
  /\ played' = [played EXCEPT ![r] = @ + 1]
  /\ salvage' = [salvage EXCEPT ![r] = TRUE]
  /\ Go(r, IF knows[r] THEN "record" ELSE "play")
  /\ UNCHANGED <<persisted, knows, pool, exit, lost, lock, headers, versions, faults>>

(* Mutant: the waves count as recorded whatever the store said. *)
RecordForgets(r) ==
  /\ at[r] = "record"
  /\ \E ok, cut \in BOOLEAN :
       /\ Attempt(r, ok, cut,
                  matches' = [matches EXCEPT ![r] = @ \union (persisted[r] + 1..played[r])],
                  UNCHANGED matches)
       /\ Go(r, "brains")
       /\ persisted' = [persisted EXCEPT ![r] = played[r]]
  /\ UNCHANGED <<played, knows, salvage, pool, exit, order, status, brains, versions>>

\* record_tournament_matches: rows that are there already stay as they are.
Record(r) ==
  /\ at[r] = "record"
  /\ \E ok, cut \in BOOLEAN :
       /\ Attempt(r, ok, cut,
                  matches' = [matches EXCEPT ![r] = @ \union (persisted[r] + 1..played[r])],
                  UNCHANGED matches)
       /\ IF ~ok /\ Again(r, cut)
            THEN tries' = [tries EXCEPT ![r] = @ + 1] /\ UNCHANGED at
            ELSE Go(r, "brains")
       /\ persisted' = IF ok THEN [persisted EXCEPT ![r] = played[r]] ELSE persisted
  /\ UNCHANGED <<played, knows, salvage, pool, exit, order, status, brains, versions>>

\* checkpoint_tournament_team_brains; an error is only logged.
Checkpoint(r) ==
  /\ at[r] = "brains"
  /\ \E ok, cut \in BOOLEAN :
       /\ Attempt(r, ok, cut, brains' = [brains EXCEPT ![r] = played[r]], UNCHANGED brains)
       /\ IF ~ok /\ Again(r, cut)
            THEN tries' = [tries EXCEPT ![r] = @ + 1] /\ UNCHANGED at
            ELSE Go(r, "play")
  /\ UNCHANGED <<played, persisted, knows, salvage, pool, exit, order, status, matches, versions>>

-----------------------------------------------------------------------------
(* The end of the bracket *)

\* The deadline has passed before a wave, or a match of it fails.
PlayStops(r) ==
  /\ at[r] = "play" /\ played[r] < Waves
  /\ \E how \in {"partial", "failed"} : exit' = [exit EXCEPT ![r] = how]
  /\ Go(r, "stopped")
  /\ UNCHANGED <<played, persisted, knows, salvage, pool, lost, lock, headers, versions, faults>>

(* Mutant: the champion waits for the waves to be recorded. *)
CrownRecorded(r) ==
  /\ at[r] = "play" /\ played[r] = Waves /\ persisted[r] = Waves
  /\ Go(r, "promote")
  /\ UNCHANGED <<played, persisted, knows, salvage, pool, exit, lost, lock, headers, versions, faults>>

Crown(r) ==
  /\ at[r] = "play" /\ played[r] = Waves
  /\ Go(r, "promote")
  /\ UNCHANGED <<played, persisted, knows, salvage, pool, exit, lost, lock, headers, versions, faults>>

SetStatus(r, s) == status' = [status EXCEPT ![r] = s]
InsertVersion(r) == versions' = [versions EXCEPT ![r] = @ + 1]

(* Mutant: the final status does not wait for the champion. *)
PromoteLater(r) ==
  /\ at[r] = "promote"
  /\ \E ok, cut \in BOOLEAN : Attempt(r, ok, cut, InsertVersion(r), UNCHANGED versions)
  /\ Go(r, "finish")
  /\ UNCHANGED <<played, persisted, knows, salvage, pool, exit, headers>>

\* promote_champion: an error ends the run, its header still `running`.
Promote(r) ==
  /\ at[r] = "promote"
  /\ \E ok, cut \in BOOLEAN :
       \/ /\ ok /\ Attempt(r, ok, cut, InsertVersion(r), UNCHANGED versions)
          /\ Go(r, "finish") /\ UNCHANGED exit
       \/ /\ ~ok /\ faults < MaxFaults /\ faults' = faults + 1
          /\ \/ UNCHANGED versions
             \/ cut /\ InsertVersion(r)
          /\ lost' = [lost EXCEPT ![r] = @ \/ cut]
          /\ lock' = IF lock = r THEN None ELSE lock
          /\ End(r, "error")
  /\ UNCHANGED <<played, persisted, knows, salvage, pool, headers>>

FinalStatus(r) == IF at[r] = "finish" THEN "completed" ELSE exit[r]
AfterStatus(r) == IF at[r] = "finish" THEN "release" ELSE "salvage"

\* finish_tournament: by id, whatever the status was; errors are only logged.
FinishHeader(r) ==
  /\ at[r] \in {"finish", "stopped"}
  /\ \/ /\ knows[r]
        /\ \E ok, cut \in BOOLEAN :
             /\ Attempt(r, ok, cut, SetStatus(r, FinalStatus(r)), UNCHANGED status)
             /\ IF ~ok /\ Again(r, cut)
                  THEN tries' = [tries EXCEPT ![r] = @ + 1] /\ UNCHANGED at
                  ELSE Go(r, AfterStatus(r))
     \/ ~knows[r] /\ Go(r, AfterStatus(r)) /\ KeepSession /\ UNCHANGED status
  /\ UNCHANGED <<played, persisted, knows, salvage, pool, exit, order, matches, brains, versions>>

\* promote_salvaged_brain; an error is only logged.
Salvage(r) ==
  /\ at[r] = "salvage"
  /\ \/ /\ salvage[r]
        /\ \E ok, cut \in BOOLEAN : Attempt(r, ok, cut, InsertVersion(r), UNCHANGED versions)
     \/ ~salvage[r] /\ KeepSession /\ UNCHANGED versions
  /\ Go(r, "release")
  /\ UNCHANGED <<played, persisted, knows, salvage, pool, exit, headers>>

\* The unlock touches the lock of this session only; then the process ends.
Release(r) ==
  /\ at[r] = "release"
  /\ lock' = IF lock = r THEN None ELSE lock
  /\ End(r, IF exit[r] = None THEN "ok" ELSE exit[r])
  /\ UNCHANGED <<played, persisted, knows, salvage, pool, lost, headers, versions, faults>>

\* SIGKILL, a lost node: the session ends with the process.
Kill(r) ==
  /\ at[r] \notin {"new", "over"}
  /\ lock' = IF lock = r THEN None ELSE lock
  /\ End(r, "killed")
  /\ UNCHANGED <<played, persisted, knows, salvage, pool, lost, headers, versions, faults>>

Step(r) ==
  \/ Acquire(r) \/ SetupFails(r) \/ Reconcile(r) \/ LoadPool(r) \/ StartHeader(r)
  \/ Play(r) \/ Record(r) \/ Checkpoint(r) \/ PlayStops(r) \/ Crown(r)
  \/ Promote(r) \/ FinishHeader(r) \/ Salvage(r) \/ Release(r)

Next == \E r \in Runs : Start(r) \/ Step(r) \/ Disconnect(r) \/ Kill(r)

Spec == Init /\ [][Next]_vars /\ \A r \in Runs : WF_vars(Step(r))

-----------------------------------------------------------------------------
(* Properties *)

(* Every variable but the breeding pool stays in its range. *)
TypeOK ==
  /\ at \in [Runs -> {"new", "lock", "reconcile", "pool", "header", "play", "record", "brains",
                     "stopped", "salvage", "promote", "finish", "release", "over"}]
  /\ tries \in [Runs -> Nat]
  /\ played \in [Runs -> 0..Waves] /\ persisted \in [Runs -> 0..Waves]
  /\ knows \in [Runs -> BOOLEAN] /\ salvage \in [Runs -> BOOLEAN] /\ lost \in [Runs -> BOOLEAN]
  /\ exit \in [Runs -> {None, "ok", "skipped", "error", "killed", "partial", "failed"}]
  /\ lock \in Runs \union {None}
  /\ status \in [Runs -> {None, "running", "completed", "partial", "failed"}]
  /\ matches \in [Runs -> SUBSET (1..Waves)] /\ brains \in [Runs -> 0..Waves]
  /\ versions \in [Runs -> Nat] /\ faults \in Nat

(* The header of a live run becomes `partial` by another run only when one  *)
(* of the two has lost the session the lock was taken in: everything else   *)
(* that is reclaimed is an orphan.                                          *)
OnlyOrphansReclaimed ==
  [][\A r, h \in Runs :
       at[r] = "reconcile" /\ at'[r] = "pool" /\ status[h] = "running" /\ status'[h] = "partial"
         => Ended(h) \/ lost[h] \/ lost[r]]_vars

(* The match rows of a tournament are the first waves it played without a   *)
(* gap, none that the run counts as recorded is missing, and none comes     *)
(* from the future, over failed, cut and repeated calls.                    *)
MatchesArePrefix ==
  \A r \in Runs : \E k \in persisted[r]..played[r] : matches[r] = 1..k

(* With `promote` on, the default, a tournament is `completed`, and its run *)
(* ends well, only with its champion inserted as a policy version; no run   *)
(* inserts two.                                                             *)
ChampionIsBanked ==
  \A r \in Runs :
    /\ versions[r] <= 1
    /\ status[r] = "completed" \/ exit[r] = "ok" => versions[r] = 1 /\ played[r] = Waves

(* The lock is not held for ever: every call ends, a lost session, a failed *)
(* database and a killed process included.                                  *)
LockIsFreed == lock # None ~> lock = None

(* A run that finds finished tournaments with brains breeds from one.       *)
BreedingGoesOn ==
  [][\A r \in Runs :
       at[r] = "pool" /\ at'[r] = "header" /\ faults' = faults
         /\ (\E h \in Runs : status[h] \in {"completed", "partial"} /\ brains[h] > 0)
       => pool'[r] # None]_vars
=============================================================================
