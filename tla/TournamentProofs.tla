--------------------------- MODULE TournamentProofs ---------------------------
(***************************************************************************)
(* Tournaments, in two parts that share nothing but the program.           *)
(*                                                                         *)
(* Overlapping runs, for every number of runs and waves and every pattern  *)
(* of lost sessions, failed calls and kills: what is recorded is a prefix  *)
(* of what was played, a finished tournament has its champion in the store *)
(* once, and only orphans are reclaimed.  This rests on what a run's place *)
(* in its program says of the database: no version before the place that   *)
(* inserts it (Banked), and, as long as its session is the one that took   *)
(* it, the lock (Exclusive).                                               *)
(*                                                                         *)
(* The bracket of one run, for every format, every result and every number *)
(* of threads: the pairs meet, brains lose no match, the best advance, the *)
(* podium is earned.  This rests on the circle method (every two seats of  *)
(* a table of even size meet in one round), on no team playing twice in a  *)
(* wave (WaveApart), and on what the reports say of the teams still in     *)
(* (BracketInv).                                                           *)
(***************************************************************************)
EXTENDS TournamentRuns, TournamentBracket, FiniteSetTheorems, WellFoundedInduction, TLAPS

-----------------------------------------------------------------------------
(* Overlapping runs *)

\* The places before a version is inserted, and those after the header.
BeforeVersion ==
  {"new", "lock", "reconcile", "pool", "header", "play", "record", "brains",
   "stopped", "salvage", "promote"}
AfterHeader ==
  {"play", "record", "brains", "stopped", "salvage", "promote", "finish", "release", "over"}

BankedBy(r) ==
  /\ at[r] \in BeforeVersion => versions[r] = 0
  /\ at[r] \in {"promote", "finish"} => played[r] = Waves
  /\ at[r] = "finish" => versions[r] = 1
  /\ at[r] \notin {"stopped", "salvage", "release", "over"} => exit[r] = None
  /\ at[r] \in {"stopped", "salvage"} => exit[r] \in {"partial", "failed"}
  /\ at[r] = "release" =>
       exit[r] \in {"partial", "failed"} \/ (exit[r] = None /\ versions[r] = 1 /\ played[r] = Waves)

Banked == ChampionIsBanked /\ \A r \in Runs : BankedBy(r)

Exclusive ==
  \A r \in Runs :
    /\ at[r] \notin {"new", "lock", "over"} /\ ~lost[r] => lock = r
    /\ status[r] = "running" => at[r] \in AfterHeader

IInv == TypeOK /\ MatchesArePrefix /\ Banked /\ Exclusive

(* A run that has taken the lock and not ended. *)
UnderLock(r) == at[r] \notin {"new", "lock", "over"}

(* The lock is with the one run that is under way in the session it took    *)
(* the lock in: it is never left with a run that has ended, was killed or   *)
(* has lost its session, and never free under a run that still has its own. *)
LockWithLiveRun == \A r \in Runs : lock = r <=> UnderLock(r) /\ ~lost[r]

\* A run that is yet to take the lock has no session to lose.
FreshSession == \A r \in Runs : at[r] \in {"new", "lock"} => ~lost[r]

\* What a call of the store may do to the session of its run.
SessionStep(r) ==
  /\ faults' = faults \/ faults' = faults + 1
  /\ UNCHANGED <<lock, lost>> \/ LoseSession(r)

-----------------------------------------------------------------------------

(* A lost session leaves the lock free or with another run. *)
LEMMA SessionTypes ==
  ASSUME TypeOK, NEW r \in Runs, SessionStep(r)
  PROVE  lock' \in Runs \union {None} /\ lost' \in [Runs -> BOOLEAN] /\ faults' \in Nat
<1>1. lock' \in Runs \union {None}
  BY DEF TypeOK, SessionStep, LoseSession
<1>2. lost' \in [Runs -> BOOLEAN]
  <2>1. CASE lost' = lost
    BY <2>1 DEF TypeOK
  <2>2. CASE lost' = [lost EXCEPT ![r] = TRUE]
    BY <2>2 DEF TypeOK
  <2> QED
    BY <2>1, <2>2 DEF SessionStep, LoseSession
<1>3. faults' \in Nat
  BY DEF TypeOK, SessionStep
<1> QED
  BY <1>1, <1>2, <1>3

(* What every store call of the program does to its session. *)
LEMMA CallsKeepOrLose ==
  ASSUME NEW r \in Runs,
         Reconcile(r) \/ LoadPool(r) \/ StartHeader(r) \/ Record(r) \/ Checkpoint(r)
           \/ FinishHeader(r) \/ Salvage(r)
  PROVE  SessionStep(r)
<1>1. CASE Reconcile(r)
  BY <1>1 DEF Reconcile, Attempt, KeepSession, SessionStep
<1>2. CASE LoadPool(r)
  BY <1>2 DEF LoadPool, Attempt, KeepSession, SessionStep
<1>3. CASE StartHeader(r)
  BY <1>3 DEF StartHeader, Attempt, KeepSession, SessionStep
<1>4. CASE Record(r)
  BY <1>4 DEF Record, Attempt, KeepSession, SessionStep
<1>5. CASE Checkpoint(r)
  BY <1>5 DEF Checkpoint, Attempt, KeepSession, SessionStep
<1>6. CASE FinishHeader(r)
  BY <1>6 DEF FinishHeader, Attempt, KeepSession, SessionStep
<1>7. CASE Salvage(r)
  BY <1>7 DEF Salvage, Attempt, KeepSession, SessionStep
<1> QED
  BY <1>1, <1>2, <1>3, <1>4, <1>5, <1>6, <1>7

(* Before any run starts there is nothing in the database. *)
LEMMA InitInv == Init => IInv
BY TournamentAssumption
   DEF Init, Zero, IInv, TypeOK, MatchesArePrefix, Banked, ChampionIsBanked, BankedBy,
       BeforeVersion, AfterHeader, Exclusive

(* A status is only ever one of the final ones because a stopped run knows  *)
(* how it stopped.                                                          *)
LEMMA TypeStep ==
  ASSUME TypeOK, Banked, Next
  PROVE  TypeOK'
<1> USE TournamentAssumption DEF TypeOK, headers
<1>1. ASSUME NEW r \in Runs, Start(r) PROVE TypeOK'
  BY <1>1 DEF Start, Go
<1>2. ASSUME NEW r \in Runs, Acquire(r) PROVE TypeOK'
  BY <1>2 DEF Acquire, Go, End
<1>3. ASSUME NEW r \in Runs, SetupFails(r) PROVE TypeOK'
  BY <1>3 DEF SetupFails, Go, End
<1>4. ASSUME NEW r \in Runs, Reconcile(r) PROVE TypeOK'
  <2>1. lock' \in Runs \union {None} /\ lost' \in [Runs -> BOOLEAN] /\ faults' \in Nat
    BY <1>4, CallsKeepOrLose, SessionTypes
  <2>2. status' \in [Runs -> {None, "running", "completed", "partial", "failed"}]
    BY <1>4 DEF Reconcile, Attempt
  <2> QED
    BY <1>4, <2>1, <2>2 DEF Reconcile, Go
<1>5. ASSUME NEW r \in Runs, LoadPool(r) PROVE TypeOK'
  <2>1. lock' \in Runs \union {None} /\ lost' \in [Runs -> BOOLEAN] /\ faults' \in Nat
    BY <1>5, CallsKeepOrLose, SessionTypes
  <2>2. at' = [at EXCEPT ![r] = "header"] /\ tries' \in [Runs -> Nat]
    BY <1>5 DEF LoadPool, Go, Attempt, KeepSession, LoseSession
  <2> QED
    BY <1>5, <2>1, <2>2 DEF LoadPool
<1>6. ASSUME NEW r \in Runs, StartHeader(r) PROVE TypeOK'
  <2>1. lock' \in Runs \union {None} /\ lost' \in [Runs -> BOOLEAN] /\ faults' \in Nat
    BY <1>6, CallsKeepOrLose, SessionTypes
  <2>2. at' = [at EXCEPT ![r] = "play"] /\ tries' \in [Runs -> Nat]
    BY <1>6 DEF StartHeader, Go, Attempt, KeepSession, LoseSession
  <2>3. /\ status' \in [Runs -> {None, "running", "completed", "partial", "failed"}]
        /\ knows' \in [Runs -> BOOLEAN]
    BY <1>6, ZenonT(30) DEF StartHeader, Go, Attempt, KeepSession, LoseSession
  <2> QED
    BY <1>6, <2>1, <2>2, <2>3 DEF StartHeader
<1>7. ASSUME NEW r \in Runs, Play(r) PROVE TypeOK'
  BY <1>7 DEF Play, Go
<1>8. ASSUME NEW r \in Runs, Record(r) PROVE TypeOK'
  <2>1. lock' \in Runs \union {None} /\ lost' \in [Runs -> BOOLEAN] /\ faults' \in Nat
    BY <1>8, CallsKeepOrLose, SessionTypes
  <2>2. (at' = at \/ at' = [at EXCEPT ![r] = "brains"]) /\ tries' \in [Runs -> Nat]
    BY <1>8 DEF Record, Go, Again, Attempt, KeepSession, LoseSession
  <2>3. persisted' \in [Runs -> 0..Waves]
    BY <1>8 DEF Record, Go, Again, Attempt, KeepSession, LoseSession
  <2>4. matches' \in [Runs -> SUBSET (1..Waves)]
    BY <1>8 DEF Record, Go, Again, Attempt, KeepSession, LoseSession
  <2> QED
    BY <1>8, <2>1, <2>2, <2>3, <2>4 DEF Record
<1>9. ASSUME NEW r \in Runs, Checkpoint(r) PROVE TypeOK'
  <2>1. lock' \in Runs \union {None} /\ lost' \in [Runs -> BOOLEAN] /\ faults' \in Nat
    BY <1>9, CallsKeepOrLose, SessionTypes
  <2>2. (at' = at \/ at' = [at EXCEPT ![r] = "play"]) /\ tries' \in [Runs -> Nat]
    BY <1>9 DEF Checkpoint, Go, Again, Attempt, KeepSession, LoseSession
  <2>3. brains' \in [Runs -> 0..Waves]
    BY <1>9 DEF Checkpoint, Go, Again, Attempt, KeepSession, LoseSession
  <2> QED
    BY <1>9, <2>1, <2>2, <2>3 DEF Checkpoint
<1>10. ASSUME NEW r \in Runs, PlayStops(r) PROVE TypeOK'
  BY <1>10 DEF PlayStops, Go
<1>11. ASSUME NEW r \in Runs, Crown(r) PROVE TypeOK'
  BY <1>11 DEF Crown, Go
<1>12. ASSUME NEW r \in Runs, Promote(r) PROVE TypeOK'
  <2>1. lock' \in Runs \union {None} /\ lost' \in [Runs -> BOOLEAN] /\ faults' \in Nat
    BY <1>12 DEF Promote, Go, InsertVersion, End, Attempt, KeepSession, LoseSession
  <2>2. (at' = [at EXCEPT ![r] = "finish"] \/ at' = [at EXCEPT ![r] = "over"]) /\ tries' \in [Runs -> Nat]
    BY <1>12 DEF Promote, Go, InsertVersion, End, Attempt, KeepSession, LoseSession
  <2>3. versions' \in [Runs -> Nat]
    BY <1>12 DEF Promote, Go, InsertVersion, End, Attempt, KeepSession, LoseSession
  <2>4. exit' = exit \/ exit' = [exit EXCEPT ![r] = "error"]
    BY <1>12 DEF Promote, Go, InsertVersion, End, Attempt, KeepSession, LoseSession
  <2> QED
    BY <1>12, <2>1, <2>2, <2>3, <2>4 DEF Promote
<1>13. ASSUME NEW r \in Runs, FinishHeader(r) PROVE TypeOK'
  <2>1. FinalStatus(r) \in {"completed", "partial", "failed"}
    BY <1>13 DEF FinishHeader, FinalStatus, Banked, BankedBy
  <2>2. lock' \in Runs \union {None} /\ lost' \in [Runs -> BOOLEAN] /\ faults' \in Nat
    BY <1>13, CallsKeepOrLose, SessionTypes
  <2>3. (\E place \in {"release", "salvage"} : at' = [at EXCEPT ![r] = place]) \/ at' = at
    BY <1>13 DEF FinishHeader, Go, AfterStatus
  <2>4. tries' \in [Runs -> Nat]
    BY <1>13 DEF FinishHeader, Go
  <2>5. status' = status \/ status' = [status EXCEPT ![r] = FinalStatus(r)]
    BY <1>13 DEF FinishHeader, Attempt, SetStatus
  <2> QED
    BY <1>13, <2>1, <2>2, <2>3, <2>4, <2>5 DEF FinishHeader
<1>14. ASSUME NEW r \in Runs, Salvage(r) PROVE TypeOK'
  <2>1. lock' \in Runs \union {None} /\ lost' \in [Runs -> BOOLEAN] /\ faults' \in Nat
    BY <1>14, CallsKeepOrLose, SessionTypes
  <2>2. versions' \in [Runs -> Nat]
    BY <1>14 DEF Salvage, Attempt, InsertVersion
  <2> QED
    BY <1>14, <2>1, <2>2 DEF Salvage, Go
<1>15. ASSUME NEW r \in Runs, Release(r) PROVE TypeOK'
  BY <1>15 DEF Release, Go, End
<1>16. ASSUME NEW r \in Runs, Disconnect(r) PROVE TypeOK'
  BY <1>16 DEF Disconnect, LoseSession
<1>17. ASSUME NEW r \in Runs, Kill(r) PROVE TypeOK'
  BY <1>17 DEF Kill, Go, End
<1> QED
  BY <1>1, <1>2, <1>3, <1>4, <1>5, <1>6, <1>7, <1>8, <1>9, <1>10, <1>11, <1>12, <1>13, <1>14, <1>15,
     <1>16, <1>17 DEF Next, Step

(* A call that was cut off after its commit has recorded the waves it was   *)
(* to record, and recording them again changes nothing.                     *)
LEMMA MatchesStep ==
  ASSUME TypeOK, MatchesArePrefix, Next
  PROVE  MatchesArePrefix'
<1> USE TournamentAssumption DEF TypeOK, MatchesArePrefix, headers
<1>1. ASSUME NEW r \in Runs, Start(r) PROVE MatchesArePrefix'
  BY <1>1 DEF Start, Go
<1>2. ASSUME NEW r \in Runs, Acquire(r) PROVE MatchesArePrefix'
  BY <1>2 DEF Acquire, Go, End
<1>3. ASSUME NEW r \in Runs, SetupFails(r) PROVE MatchesArePrefix'
  BY <1>3 DEF SetupFails, Go, End
<1>4. ASSUME NEW r \in Runs, Reconcile(r) PROVE MatchesArePrefix'
  BY <1>4 DEF Reconcile, Go, Attempt, KeepSession, LoseSession
<1>5. ASSUME NEW r \in Runs, LoadPool(r) PROVE MatchesArePrefix'
  BY <1>5 DEF LoadPool, Go, Attempt, KeepSession, LoseSession
<1>6. ASSUME NEW r \in Runs, StartHeader(r) PROVE MatchesArePrefix'
  BY <1>6 DEF StartHeader, Go, Attempt, KeepSession, LoseSession
<1>7. ASSUME NEW r \in Runs, Play(r) PROVE MatchesArePrefix'
  BY <1>7 DEF Play, Go
<1>8. ASSUME NEW r \in Runs, Record(r) PROVE MatchesArePrefix'
  <2>1. PICK k \in persisted[r]..played[r] : matches[r] = 1..k
    OBVIOUS
  <2>2. matches' = matches \/ matches' = [matches EXCEPT ![r] = @ \union (persisted[r] + 1..played[r])]
    BY <1>8 DEF Record, Attempt
  <2>3. \/ persisted' = persisted
        \/ /\ persisted' = [persisted EXCEPT ![r] = played[r]]
           /\ matches' = [matches EXCEPT ![r] = @ \union (persisted[r] + 1..played[r])]
    BY <1>8 DEF Record, Attempt
  <2>4. matches[r] \union (persisted[r] + 1..played[r]) = 1..played[r]
    BY <2>1
  <2>5. played' = played
    BY <1>8 DEF Record
  <2>6. \E j \in persisted'[r]..played'[r] : matches'[r] = 1..j
    <3>1. CASE matches' = matches /\ persisted' = persisted
      BY <2>1, <2>5, <3>1
    <3>2. CASE matches' = [matches EXCEPT ![r] = @ \union (persisted[r] + 1..played[r])]
      <4>1. matches'[r] = 1..played[r] /\ persisted'[r] <= played[r]
        BY <2>1, <2>3, <2>4, <3>2
      <4> QED
        BY <2>3, <2>5, <4>1
    <3> QED
      BY <2>2, <2>3, <3>1, <3>2
  <2>7. \A q \in Runs : q # r => persisted'[q] = persisted[q] /\ matches'[q] = matches[q]
    BY <2>2, <2>3
  <2>8. ASSUME NEW q \in Runs PROVE \E j \in persisted'[q]..played'[q] : matches'[q] = 1..j
    <3>1. CASE q = r
      BY <2>6, <3>1
    <3>2. CASE q # r
      BY <2>5, <2>7, <3>2
    <3> QED
      BY <3>1, <3>2
  <2> QED
    BY <2>8
<1>9. ASSUME NEW r \in Runs, Checkpoint(r) PROVE MatchesArePrefix'
  BY <1>9 DEF Checkpoint, Go, Attempt, KeepSession, LoseSession, Again
<1>10. ASSUME NEW r \in Runs, PlayStops(r) PROVE MatchesArePrefix'
  BY <1>10 DEF PlayStops, Go
<1>11. ASSUME NEW r \in Runs, Crown(r) PROVE MatchesArePrefix'
  BY <1>11 DEF Crown, Go
<1>12. ASSUME NEW r \in Runs, Promote(r) PROVE MatchesArePrefix'
  BY <1>12 DEF Promote, Go, InsertVersion, End
<1>13. ASSUME NEW r \in Runs, FinishHeader(r) PROVE MatchesArePrefix'
  BY <1>13 DEF FinishHeader, Go, Attempt, KeepSession, LoseSession, FinalStatus, AfterStatus, SetStatus,
     Again
<1>14. ASSUME NEW r \in Runs, Salvage(r) PROVE MatchesArePrefix'
  BY <1>14 DEF Salvage, Go, Attempt, KeepSession, LoseSession, InsertVersion
<1>15. ASSUME NEW r \in Runs, Release(r) PROVE MatchesArePrefix'
  BY <1>15 DEF Release, Go, End
<1>16. ASSUME NEW r \in Runs, Disconnect(r) PROVE MatchesArePrefix'
  BY <1>16 DEF Disconnect, LoseSession
<1>17. ASSUME NEW r \in Runs, Kill(r) PROVE MatchesArePrefix'
  BY <1>17 DEF Kill, Go, End
<1> QED
  BY <1>1, <1>2, <1>3, <1>4, <1>5, <1>6, <1>7, <1>8, <1>9, <1>10, <1>11, <1>12, <1>13, <1>14, <1>15,
     <1>16, <1>17 DEF Next, Step

(* Only the promotion leads to the places where a version is inserted. *)
LEMMA BankedStep ==
  ASSUME TypeOK, Banked, Next
  PROVE  Banked'
<1> USE TournamentAssumption DEF TypeOK, Banked, ChampionIsBanked, BankedBy, BeforeVersion, headers
<1>1. ASSUME NEW r \in Runs, Start(r) PROVE Banked'
  BY <1>1 DEF Start, Go
<1>2. ASSUME NEW r \in Runs, Acquire(r) PROVE Banked'
  BY <1>2 DEF Acquire, Go, End
<1>3. ASSUME NEW r \in Runs, SetupFails(r) PROVE Banked'
  BY <1>3 DEF SetupFails, Go, End
<1>4. ASSUME NEW r \in Runs, Reconcile(r) PROVE Banked'
  BY <1>4 DEF Reconcile, Go, Attempt, KeepSession, LoseSession
<1>5. ASSUME NEW r \in Runs, LoadPool(r) PROVE Banked'
  BY <1>5 DEF LoadPool, Go, Attempt, KeepSession, LoseSession
<1>6. ASSUME NEW r \in Runs, StartHeader(r) PROVE Banked'
  BY <1>6, ZenonT(60) DEF StartHeader, Go, Attempt, KeepSession, LoseSession
<1>7. ASSUME NEW r \in Runs, Play(r) PROVE Banked'
  BY <1>7 DEF Play, Go
<1>8. ASSUME NEW r \in Runs, Record(r) PROVE Banked'
  BY <1>8 DEF Record, Go, Attempt, KeepSession, LoseSession, Again
<1>9. ASSUME NEW r \in Runs, Checkpoint(r) PROVE Banked'
  BY <1>9 DEF Checkpoint, Go, Attempt, KeepSession, LoseSession, Again
<1>10. ASSUME NEW r \in Runs, PlayStops(r) PROVE Banked'
  BY <1>10 DEF PlayStops, Go
<1>11. ASSUME NEW r \in Runs, Crown(r) PROVE Banked'
  BY <1>11 DEF Crown, Go
<1>12. ASSUME NEW r \in Runs, Promote(r) PROVE Banked'
  <2>1. \/ /\ lock' = lock /\ lost' = lost
           /\ at' = [at EXCEPT ![r] = "finish"] /\ exit' = exit
           /\ versions' = [versions EXCEPT ![r] = @ + 1]
        \/ /\ lost' = [lost EXCEPT ![r] = lost'[r]] /\ lock' = IF lock = r THEN None ELSE lock
           /\ at' = [at EXCEPT ![r] = "over"] /\ exit' = [exit EXCEPT ![r] = "error"]
           /\ versions' = versions \/ versions' = [versions EXCEPT ![r] = @ + 1]
    BY <1>12 DEF Promote, Go, InsertVersion, End, Attempt, KeepSession
  <2> QED
    BY <1>12, <2>1 DEF Promote
<1>13. ASSUME NEW r \in Runs, FinishHeader(r) PROVE Banked'
  BY <1>13 DEF FinishHeader, Go, Attempt, KeepSession, LoseSession, FinalStatus, AfterStatus, SetStatus,
     Again
<1>14. ASSUME NEW r \in Runs, Salvage(r) PROVE Banked'
  BY <1>14 DEF Salvage, Go, Attempt, KeepSession, LoseSession, InsertVersion
<1>15. ASSUME NEW r \in Runs, Release(r) PROVE Banked'
  BY <1>15 DEF Release, Go, End
<1>16. ASSUME NEW r \in Runs, Disconnect(r) PROVE Banked'
  BY <1>16 DEF Disconnect, LoseSession
<1>17. ASSUME NEW r \in Runs, Kill(r) PROVE Banked'
  BY <1>17 DEF Kill, Go, End
<1> QED
  BY <1>1, <1>2, <1>3, <1>4, <1>5, <1>6, <1>7, <1>8, <1>9, <1>10, <1>11, <1>12, <1>13, <1>14, <1>15,
     <1>16, <1>17 DEF Next, Step

(* The lock leaves a run only with its session or its end. *)
LEMMA ExclusiveStep ==
  ASSUME TypeOK, Exclusive, Next
  PROVE  Exclusive'
<1> USE TournamentAssumption DEF TypeOK, Exclusive, AfterHeader, headers
<1>1. ASSUME NEW r \in Runs, Start(r) PROVE Exclusive'
  BY <1>1 DEF Start, Go
<1>2. ASSUME NEW r \in Runs, Acquire(r) PROVE Exclusive'
  BY <1>2 DEF Acquire, Go, End
<1>3. ASSUME NEW r \in Runs, SetupFails(r) PROVE Exclusive'
  BY <1>3 DEF SetupFails, Go, End
<1>4. ASSUME NEW r \in Runs, Reconcile(r) PROVE Exclusive'
  BY <1>4 DEF Reconcile, Go, Attempt, KeepSession, LoseSession
<1>5. ASSUME NEW r \in Runs, LoadPool(r) PROVE Exclusive'
  BY <1>5 DEF LoadPool, Go, Attempt, KeepSession, LoseSession
<1>6. ASSUME NEW r \in Runs, StartHeader(r) PROVE Exclusive'
  BY <1>6 DEF StartHeader, Go, Attempt, KeepSession, LoseSession
<1>7. ASSUME NEW r \in Runs, Play(r) PROVE Exclusive'
  BY <1>7 DEF Play, Go
<1>8. ASSUME NEW r \in Runs, Record(r) PROVE Exclusive'
  BY <1>8 DEF Record, Go, Attempt, KeepSession, LoseSession, Again
<1>9. ASSUME NEW r \in Runs, Checkpoint(r) PROVE Exclusive'
  BY <1>9 DEF Checkpoint, Go, Attempt, KeepSession, LoseSession, Again
<1>10. ASSUME NEW r \in Runs, PlayStops(r) PROVE Exclusive'
  BY <1>10 DEF PlayStops, Go
<1>11. ASSUME NEW r \in Runs, Crown(r) PROVE Exclusive'
  BY <1>11 DEF Crown, Go
<1>12. ASSUME NEW r \in Runs, Promote(r) PROVE Exclusive'
  <2>1. \/ /\ lock' = lock /\ lost' = lost
           /\ at' = [at EXCEPT ![r] = "finish"] /\ exit' = exit
           /\ versions' = [versions EXCEPT ![r] = @ + 1]
        \/ /\ lost' = [lost EXCEPT ![r] = lost'[r]] /\ lock' = IF lock = r THEN None ELSE lock
           /\ at' = [at EXCEPT ![r] = "over"] /\ exit' = [exit EXCEPT ![r] = "error"]
           /\ versions' = versions \/ versions' = [versions EXCEPT ![r] = @ + 1]
    BY <1>12 DEF Promote, Go, InsertVersion, End, Attempt, KeepSession
  <2> QED
    BY <1>12, <2>1 DEF Promote
<1>13. ASSUME NEW r \in Runs, FinishHeader(r) PROVE Exclusive'
  BY <1>13 DEF FinishHeader, Go, Attempt, KeepSession, LoseSession, FinalStatus, AfterStatus, SetStatus,
     Again
<1>14. ASSUME NEW r \in Runs, Salvage(r) PROVE Exclusive'
  BY <1>14 DEF Salvage, Go, Attempt, KeepSession, LoseSession, InsertVersion
<1>15. ASSUME NEW r \in Runs, Release(r) PROVE Exclusive'
  BY <1>15 DEF Release, Go, End
<1>16. ASSUME NEW r \in Runs, Disconnect(r) PROVE Exclusive'
  BY <1>16 DEF Disconnect, LoseSession
<1>17. ASSUME NEW r \in Runs, Kill(r) PROVE Exclusive'
  BY <1>17 DEF Kill, Go, End
<1> QED
  BY <1>1, <1>2, <1>3, <1>4, <1>5, <1>6, <1>7, <1>8, <1>9, <1>10, <1>11, <1>12, <1>13, <1>14, <1>15,
     <1>16, <1>17 DEF Next, Step

(* The invariant holds in every reachable state. *)
LEMMA Invariance == Spec => []IInv
<1>1. ASSUME IInv, [Next]_vars PROVE IInv'
  <2>1. CASE Next
    BY <1>1, <2>1, TypeStep, MatchesStep, BankedStep, ExclusiveStep DEF IInv
  <2>2. CASE UNCHANGED vars
    <3> USE <1>1, <2>2 DEF IInv, vars, run, headers
    <3>1. TypeOK'
      BY DEF TypeOK
    <3>2. MatchesArePrefix'
      BY DEF MatchesArePrefix
    <3>3. Banked'
      BY DEF Banked, ChampionIsBanked, BankedBy
    <3>4. Exclusive'
      BY DEF Exclusive
    <3> QED
      BY <3>1, <3>2, <3>3, <3>4
  <2> QED
    BY <1>1, <2>1, <2>2
<1> QED
  BY <1>1, InitInv, PTL DEF Spec

-----------------------------------------------------------------------------
(* Theorems *)

(* Every variable but the breeding pool stays in its range, whatever fails. *)
THEOREM TournamentTypeCorrect == Spec => []TypeOK
<1>1. IInv => TypeOK
  BY DEF IInv
<1> QED
  BY <1>1, Invariance, PTL

(* What the store holds of a tournament is a prefix of what was played, and *)
(* at least what the run counts as recorded.                                *)
THEOREM RecordedIsPrefix == Spec => []MatchesArePrefix
<1>1. IInv => MatchesArePrefix
  BY DEF IInv
<1> QED
  BY <1>1, Invariance, PTL

(* With `promote` on, the default, a completed tournament and a run that    *)
(* ends well have their champion in the store, exactly once.                *)
THEOREM ChampionBanked == Spec => []ChampionIsBanked
<1>1. IInv => ChampionIsBanked
  BY DEF IInv, Banked
<1> QED
  BY <1>1, Invariance, PTL

(* Two runs that both hold their first session would both hold the lock:    *)
(* a header that is reclaimed has an owner that ended or lost its session,  *)
(* or the reclaiming run has lost its own.                                  *)
THEOREM OnlyOrphans == Spec => OnlyOrphansReclaimed
<1> DEFINE Reclaims(r, h) ==
      at[r] = "reconcile" /\ at'[r] = "pool" /\ status[h] = "running" /\ status'[h] = "partial"
<1>1. ASSUME IInv, NEW r \in Runs, NEW h \in Runs, Reclaims(r, h)
      PROVE  Ended(h) \/ lost[h] \/ lost[r]
  <2>1. at[h] \in AfterHeader
    BY <1>1 DEF IInv, Exclusive
  <2>2. SUFFICES ASSUME ~Ended(h), ~lost[h], ~lost[r] PROVE FALSE
    OBVIOUS
  <2>3. lock = h
    BY <1>1, <2>1, <2>2 DEF IInv, Exclusive, Ended, AfterHeader
  <2>4. lock = r
    BY <1>1, <2>2 DEF IInv, Exclusive
  <2> QED
    BY <1>1, <2>1, <2>3, <2>4 DEF AfterHeader
<1>2. IInv => [\A r, h \in Runs : Reclaims(r, h) => Ended(h) \/ lost[h] \/ lost[r]]_vars
  BY <1>1
<1> QED
  BY <1>2, Invariance, PTL DEF OnlyOrphansReclaimed

(* A call under the lock leaves the session and the lock as they are or     *)
(* loses both. *)
LEMMA CallKeepsLock ==
  ASSUME TypeOK, LockWithLiveRun, FreshSession, NEW r \in Runs, UnderLock(r),
         UNCHANGED <<lock, lost>> \/ LoseSession(r),
         NEW place, place \notin {"new", "lock", "over"}, at' = [at EXCEPT ![r] = place]
  PROVE  LockWithLiveRun' /\ FreshSession'
<1>1. None \notin Runs /\ lock \in Runs \union {None} /\ lost \in [Runs -> BOOLEAN]
      /\ at'[r] = place /\ \A h \in Runs : h # r => at'[h] = at[h]
  BY TournamentAssumption DEF TypeOK
<1>2. CASE UNCHANGED <<lock, lost>>
  BY <1>1, <1>2 DEF LockWithLiveRun, FreshSession, UnderLock
<1>3. CASE LoseSession(r)
  <2>1. lost'[r] /\ (\A h \in Runs : h # r => lost'[h] = lost[h])
        /\ lock' = IF lock = r THEN None ELSE lock
    BY <1>1, <1>3 DEF LoseSession
  <2>2. ASSUME NEW h \in Runs PROVE lock' = h <=> UnderLock(h)' /\ ~lost'[h]
    <3>1. CASE h = r
      BY <1>1, <2>1, <3>1
    <3>2. CASE h # r
      BY <1>1, <2>1, <3>2 DEF LockWithLiveRun, UnderLock
    <3> QED
      BY <3>1, <3>2
  <2> QED
    BY <1>1, <2>1, <2>2 DEF LockWithLiveRun, FreshSession
<1> QED
  BY <1>2, <1>3

(* A run that ends gives the lock back if it has it. *)
LEMMA EndFreesLock ==
  ASSUME TypeOK, LockWithLiveRun, FreshSession, NEW r \in Runs,
         lock' = IF lock = r THEN None ELSE lock,
         \A h \in Runs : h # r => lost'[h] = lost[h],
         at' = [at EXCEPT ![r] = "over"]
  PROVE  LockWithLiveRun' /\ FreshSession'
<1>1. None \notin Runs /\ lock \in Runs \union {None}
      /\ at'[r] = "over" /\ \A h \in Runs : h # r => at'[h] = at[h]
  BY TournamentAssumption DEF TypeOK
<1>2. ASSUME NEW h \in Runs PROVE lock' = h <=> UnderLock(h)' /\ ~lost'[h]
  BY <1>1 DEF LockWithLiveRun, UnderLock
<1> QED
  BY <1>1, <1>2 DEF LockWithLiveRun, FreshSession

LEMMA LockStep ==
  ASSUME TypeOK, LockWithLiveRun, FreshSession, [Next]_vars
  PROVE  LockWithLiveRun' /\ FreshSession'
<1> USE DEF UnderLock
<1>0. None \notin Runs /\ lock \in Runs \union {None} /\ at \in [Runs -> {at[h] : h \in Runs}]
      /\ lost \in [Runs -> BOOLEAN]
  BY TournamentAssumption DEF TypeOK
<1>1. CASE UNCHANGED <<at, lost, lock>>
  BY <1>1 DEF LockWithLiveRun, FreshSession
<1>2. ASSUME NEW r \in Runs, Start(r) PROVE LockWithLiveRun' /\ FreshSession'
  BY <1>0, <1>2 DEF Start, Go, LockWithLiveRun, FreshSession
<1>3. ASSUME NEW r \in Runs, Acquire(r) PROVE LockWithLiveRun' /\ FreshSession'
  <2>1. CASE lock = None /\ lock' = r /\ Go(r, "reconcile")
    <3>1. at'[r] = "reconcile" /\ ~lost[r] /\ UNCHANGED lost
          /\ \A h \in Runs : h # r => at'[h] = at[h]
      BY <1>0, <1>3, <2>1 DEF Acquire, Go, FreshSession
    <3>2. \A h \in Runs : ~(UnderLock(h) /\ ~lost[h])
      BY <1>0, <2>1 DEF LockWithLiveRun
    <3> QED
      BY <2>1, <3>1, <3>2 DEF LockWithLiveRun, FreshSession
  <2>2. CASE lock # None /\ End(r, "skipped") /\ UNCHANGED lock
    <3>1. at[r] = "lock" /\ at' = [at EXCEPT ![r] = "over"] /\ UNCHANGED <<lock, lost>>
      BY <1>3, <2>2 DEF Acquire, End, Go
    <3>2. lock # r
      BY <3>1 DEF LockWithLiveRun
    <3> QED
      BY <3>1, <3>2, EndFreesLock
  <2> QED
    BY <1>3, <2>1, <2>2 DEF Acquire
<1>4. ASSUME NEW r \in Runs, SetupFails(r) \/ Release(r) \/ Kill(r)
      PROVE  LockWithLiveRun' /\ FreshSession'
  <2>1. lock' = (IF lock = r THEN None ELSE lock) /\ UNCHANGED lost /\ at' = [at EXCEPT ![r] = "over"]
    BY <1>4 DEF SetupFails, Release, Kill, End, Go
  <2> QED
    BY <2>1, EndFreesLock
<1>5. ASSUME NEW r \in Runs, Promote(r) PROVE LockWithLiveRun' /\ FreshSession'
  <2>1. CASE UNCHANGED <<lock, lost>> /\ Go(r, "finish")
    BY <1>5, <2>1, CallKeepsLock DEF Promote, Go
  <2>2. CASE /\ lock' = IF lock = r THEN None ELSE lock
             /\ \E cut \in BOOLEAN : lost' = [lost EXCEPT ![r] = @ \/ cut]
             /\ End(r, "error")
    <3>1. \A h \in Runs : h # r => lost'[h] = lost[h]
      BY <1>0, <2>2
    <3> QED
      BY <2>2, <3>1, EndFreesLock DEF End, Go
  <2> QED
    BY <1>5, <2>1, <2>2 DEF Promote, Attempt, KeepSession
<1>6. ASSUME NEW r \in Runs, Disconnect(r) PROVE LockWithLiveRun' /\ FreshSession'
  <2>1. at' = [at EXCEPT ![r] = at[r]]
    BY <1>0, <1>6 DEF Disconnect
  <2> QED
    BY <1>6, <2>1, CallKeepsLock DEF Disconnect
<1>7. ASSUME NEW r \in Runs,
             Reconcile(r) \/ LoadPool(r) \/ StartHeader(r) \/ Record(r) \/ Checkpoint(r)
               \/ FinishHeader(r) \/ Salvage(r)
      PROVE  LockWithLiveRun' /\ FreshSession'
  <2>1. UNCHANGED <<lock, lost>> \/ LoseSession(r)
    BY <1>7, CallsKeepOrLose DEF SessionStep
  <2>2. UnderLock(r)
    BY <1>7 DEF Reconcile, LoadPool, StartHeader, Record, Checkpoint, FinishHeader, Salvage
  <2>3. \E place : at' = [at EXCEPT ![r] = place] /\ place \notin {"new", "lock", "over"}
    <3>1. CASE UNCHANGED at
      BY <1>0, <2>2, <3>1
    <3>2. CASE \E place \in {"pool", "header", "play", "brains", "salvage", "release"} : Go(r, place)
      BY <3>2 DEF Go
    <3>3. CASE Reconcile(r) \/ LoadPool(r) \/ StartHeader(r)
      BY <3>2, <3>3 DEF Reconcile, LoadPool, StartHeader
    <3>4. CASE Record(r) \/ Checkpoint(r)
      BY <3>1, <3>2, <3>4 DEF Record, Checkpoint
    <3>5. CASE FinishHeader(r)
      BY <3>1, <3>2, <3>5 DEF FinishHeader, AfterStatus
    <3>6. CASE Salvage(r)
      BY <3>2, <3>6 DEF Salvage
    <3> QED
      BY <1>7, <3>3, <3>4, <3>5, <3>6
  <2>4. PICK place : at' = [at EXCEPT ![r] = place] /\ place \notin {"new", "lock", "over"}
    BY <2>3
  <2> QED
    BY <2>1, <2>2, <2>4, CallKeepsLock
<1>8. ASSUME NEW r \in Runs, Play(r) \/ PlayStops(r) \/ Crown(r)
      PROVE  LockWithLiveRun' /\ FreshSession'
  <2>1. /\ at[r] = "play" /\ UNCHANGED <<lock, lost>>
        /\ \E place \in {"record", "play", "stopped", "promote"} : at' = [at EXCEPT ![r] = place]
    BY <1>8 DEF Play, PlayStops, Crown, Go
  <2> QED
    BY <2>1, CallKeepsLock
<1> QED
  BY <1>1, <1>2, <1>3, <1>4, <1>5, <1>6, <1>7, <1>8 DEF Next, Step, vars, run

(* However often sessions are lost and processes killed: the lock is with   *)
(* the run whose first session is still open, if there is one, and with     *)
(* nobody else; two such runs there never are.                              *)
THEOREM LockIsWithLiveRun == Spec => []LockWithLiveRun
<1>1. Init => LockWithLiveRun /\ FreshSession
  BY TournamentAssumption DEF Init, LockWithLiveRun, FreshSession, UnderLock
<1>2. TypeOK /\ LockWithLiveRun /\ FreshSession /\ [Next]_vars => LockWithLiveRun' /\ FreshSession'
  BY LockStep
<1> QED
  BY <1>1, <1>2, TournamentTypeCorrect, PTL DEF Spec

-----------------------------------------------------------------------------
(* Induction over the natural numbers, as a fact about sets. *)

\* Every set of numbers that is not empty has a least one.
LEMMA LeastNumber ==
  ASSUME NEW T \in SUBSET Nat, T # {}
  PROVE  \E n \in T : \A m \in T : n <= m
<1> DEFINE Less == {ss \in Nat \X Nat : ss[1] < ss[2]}
<1>1. IsWellFoundedOn(Less, Nat)
  BY NatLessThanWellFounded DEF OpToRel
<1>2. PICK x \in T : \A y \in T : <<y, x>> \notin Less
  <2> HIDE DEF Less
  <2> QED
    BY <1>1, WFMin
<1>3. ASSUME NEW y \in T PROVE x <= y
  <2>1. x \in Nat /\ y \in Nat /\ <<y, x>> \notin Less
    BY <1>2
  <2>2. <<y, x>> \in Less <=> y < x
    BY <2>1
  <2> QED
    BY <2>1, <2>2
<1> QED
  BY <1>3

\* A set with 0 and the successors of its numbers has all the numbers.
LEMMA SetInduction ==
  ASSUME NEW S, 0 \in S, \A n \in Nat : n \in S => n + 1 \in S
  PROVE  Nat \subseteq S
<1> SUFFICES ASSUME Nat \ S # {} PROVE FALSE
  OBVIOUS
<1>1. PICK n \in Nat \ S : \A m \in Nat \ S : n <= m
  BY LeastNumber
<1>2. n # 0 /\ n - 1 \in Nat
  BY <1>1
<1>3. n - 1 \in S
  BY <1>1, <1>2
<1>4. (n - 1) + 1 = n
  BY <1>1
<1> QED
  BY <1>1, <1>2, <1>3, <1>4

\* A sequence of two is a pair.
LEMMA PairSeq ==
  ASSUME NEW T, NEW s \in Seq(T), Len(s) = 2
  PROVE  s \in T \X T
<1>1. s[1] \in T /\ s[2] \in T
  OBVIOUS
<1>2. DOMAIN s = 1..2 /\ s = [i \in 1..2 |-> s[i]]
  OBVIOUS
<1>3. s = <<s[1], s[2]>>
  BY <1>2
<1> QED
  BY <1>1, <1>3

\* A function from 1..n is a sequence of length n.
LEMMA FunctionSeq ==
  ASSUME NEW T, NEW n \in Nat, NEW s \in [1..n -> T]
  PROVE  s \in Seq(T) /\ Len(s) = n
OBVIOUS

-----------------------------------------------------------------------------
(* Division *)

\* Division with a rest is unique.
LEMMA Division ==
  ASSUME NEW n \in Nat \ {0}, NEW q \in Int, NEW m \in 0..n - 1, NEW x \in Int, x = q * n + m
  PROVE  x \div n = q /\ x % n = m
<1>1. x \div n \in Int /\ x % n \in 0..n - 1 /\ x = (x \div n) * n + (x % n)
  OBVIOUS
<1>2. CASE x \div n < q
  <2>1. (x \div n) * n <= (q - 1) * n
    BY <1>1, <1>2
  <2>2. (q - 1) * n = q * n - n
    OBVIOUS
  <2> QED
    BY <1>1, <2>1, <2>2
<1>3. CASE x \div n > q
  <2>1. (x \div n) * n >= (q + 1) * n
    BY <1>1, <1>3
  <2>2. (q + 1) * n = q * n + n
    OBVIOUS
  <2> QED
    BY <1>1, <2>1, <2>2
<1> QED
  BY <1>1, <1>2, <1>3

\* After r rotations place k is that of who started r places before it.
LEMMA Rotation ==
  ASSUME NEW c \in Nat, c >= 2, NEW k \in 2..c, NEW r \in 0..c - 2
  PROVE  2 + ((k - 2 + (c - 1) - (r % (c - 1))) % (c - 1)) = IF k - 2 >= r THEN k - r ELSE k - r + c - 1
<1>1. r % (c - 1) = r
  BY Division, r = 0 * (c - 1) + r
<1>2. CASE k - 2 >= r
  <2>1. (k - 2 + (c - 1) - r) % (c - 1) = k - 2 - r
    BY <1>2, Division, k - 2 + (c - 1) - r = 1 * (c - 1) + (k - 2 - r)
  <2> QED
    BY <1>1, <1>2, <2>1
<1>3. CASE k - 2 < r
  <2>1. (k - 2 + (c - 1) - r) % (c - 1) = k - 2 + (c - 1) - r
    BY <1>3, Division, k - 2 + (c - 1) - r = 0 * (c - 1) + (k - 2 + (c - 1) - r)
  <2> QED
    BY <1>1, <1>3, <2>1
<1> QED
  BY <1>2, <1>3

\* n blocks of h: where k is, and where place i of block g is.
LEMMA BlockOf ==
  ASSUME NEW n \in Nat, NEW h \in Nat \ {0}, NEW k \in 1..n * h
  PROVE  /\ 1 + (k - 1) \div h \in 1..n /\ 1 + ((k - 1) % h) \in 1..h
         /\ k = ((k - 1) \div h) * h + 1 + ((k - 1) % h)
<1>1. /\ (k - 1) \div h \in Int /\ (k - 1) % h \in 0..h - 1
      /\ k - 1 = ((k - 1) \div h) * h + ((k - 1) % h)
  OBVIOUS
<1>2. (k - 1) \div h >= 0
  OBVIOUS
<1>3. (k - 1) \div h < n
  <2> DEFINE d == (k - 1) \div h
  <2>1. SUFFICES ASSUME d >= n PROVE FALSE
    BY <1>1
  <2>2. d * h >= n * h
    BY <1>1, <2>1
  <2> QED
    BY <1>1, <2>2
<1> QED
  BY <1>1, <1>2, <1>3

\* Places of different blocks differ.
LEMMA BlockAt ==
  ASSUME NEW n \in Nat, NEW h \in Nat \ {0}, NEW g \in 1..n, NEW i \in 1..h, NEW k, k = (g - 1) * h + i
  PROVE  k \in 1..n * h /\ (k - 1) \div h = g - 1 /\ (k - 1) % h = i - 1
<1>1. (g - 1) * h \in Nat /\ (g - 1) * h + h = g * h /\ g * h <= n * h /\ n * h \in Nat
  OBVIOUS
<1>2. k \in 1..n * h
  BY <1>1
<1>3. k - 1 = (g - 1) * h + (i - 1) /\ i - 1 \in 0..h - 1 /\ k - 1 \in Int /\ g - 1 \in Int
  BY <1>1
<1>4. (k - 1) \div h = g - 1 /\ (k - 1) % h = i - 1
  <2> HIDE <1>1, <1>2
  <2> DEFINE q == g - 1  m == i - 1  x == k - 1
  <2>1. q \in Int /\ m \in 0..h - 1 /\ x \in Int /\ x = q * h + m
    BY <1>3
  <2> HIDE DEF q, m, x
  <2>2. x \div h = q /\ x % h = m
    BY <2>1, Division
  <2> QED
    BY <2>2 DEF q, m, x
<1> QED
  BY <1>2, <1>4

-----------------------------------------------------------------------------
(* The circle method: every two seats meet in exactly one round. *)

Seat(c, k, r) == IF k = 1 THEN 1 ELSE IF k - 2 >= r THEN k - r ELSE k - r + c - 1

Meet(c, i, r, x, y) ==
  \/ Seat(c, i, r) = x /\ Seat(c, c + 1 - i, r) = y
  \/ Seat(c, i, r) = y /\ Seat(c, c + 1 - i, r) = x

\* Who sits at a place is one of the circle; the first stays at his.
LEMMA SeatRange ==
  ASSUME NEW c \in Nat, NEW k \in 1..c, NEW r \in 0..c - 2
  PROVE  Seat(c, k, r) \in 1..c /\ (Seat(c, k, r) = 1 <=> k = 1)
BY DEF Seat

\* No two places are of the same team.
LEMMA SeatInjective ==
  ASSUME NEW c \in Nat, NEW k \in 1..c, NEW l \in 1..c, NEW r \in 0..c - 2, Seat(c, k, r) = Seat(c, l, r)
  PROVE  k = l
BY DEF Seat

\* Every two of the circle meet in some round.
LEMMA MeetAtAll ==
  ASSUME NEW h \in Nat \ {0}, NEW c, c = 2 * h, NEW x \in 1..c, NEW y \in 1..c, x < y
  PROVE  \E r \in 0..c - 2, i \in 1..h : Meet(c, i, r, x, y)
<1>1. CASE x = 1
  <2>1. c - y \in 0..c - 2 /\ 1 \in 1..h
    BY <1>1
  <2>2. Meet(c, 1, c - y, x, y)
    BY <1>1 DEF Meet, Seat
  <2> QED
    BY <2>1, <2>2
<1>2. ASSUME NEW r \in 0..c - 2, NEW k \in 2..c, NEW l \in 2..c,
             Seat(c, k, r) = x, Seat(c, l, r) = y, k + l = c + 1
      PROVE  \E i \in 1..h : Meet(c, i, r, x, y)
  <2>1. CASE k <= h
    BY <1>2, <2>1, c + 1 - k = l DEF Meet
  <2>2. CASE l <= h
    BY <1>2, <2>2, c + 1 - l = k DEF Meet
  <2> QED
    BY <1>2, <2>1, <2>2
<1>3. ASSUME x # 1, NEW r \in 0..c - 2,
             \/ x + y - 2 = 2 * (c - 1) - 2 * r
             \/ x + y - 2 = c - 1 - 2 * r
             \/ x + y - 2 = 3 * (c - 1) - 2 * r
      PROVE  \E i \in 1..h : Meet(c, i, r, x, y)
  <2> DEFINE k == IF x + r <= c THEN x + r ELSE x + r - c + 1
             l == IF y + r <= c THEN y + r ELSE y + r - c + 1
  <2>1. k \in 2..c /\ l \in 2..c
    BY <1>3
  <2>2. Seat(c, k, r) = x /\ Seat(c, l, r) = y
    BY <1>3 DEF Seat
  <2>3. k + l = c + 1
    BY <1>3
  <2> HIDE DEF k, l
  <2> QED
    BY <1>2, <1>3, <2>1, <2>2, <2>3
<1>4. CASE x # 1
  <2>1. PICK s \in Int : x + y - 2 = 2 * s \/ x + y - 2 = 2 * s + 1
    <3>1. x + y - 2 = 2 * ((x + y - 2) \div 2) \/ x + y - 2 = 2 * ((x + y - 2) \div 2) + 1
      OBVIOUS
    <3> QED
      BY <3>1
  <2>2. CASE x + y - 2 = 2 * s
    <3>1. PICK r \in 0..c - 2 : r = c - 1 - s
      BY <1>4, <2>2
    <3>2. x + y - 2 = 2 * (c - 1) - 2 * r
      BY <2>2, <3>1
    <3> QED
      BY <1>3, <1>4, <3>2
  <2>3. CASE x + y - 2 = 2 * s + 1 /\ s < h
    <3>1. PICK r \in 0..c - 2 : r = h - 1 - s
      BY <1>4, <2>3
    <3>2. x + y - 2 = c - 1 - 2 * r
      BY <2>3, <3>1
    <3> QED
      BY <1>3, <1>4, <3>2
  <2>4. CASE x + y - 2 = 2 * s + 1 /\ s >= h
    <3>1. PICK r \in 0..c - 2 : r = 3 * h - 2 - s
      BY <1>4, <2>4
    <3>2. x + y - 2 = 3 * (c - 1) - 2 * r
      BY <2>4, <3>1
    <3> QED
      BY <1>3, <1>4, <3>2
  <2> QED
    BY <2>1, <2>2, <2>3, <2>4
<1> QED
  BY <1>1, <1>4

\* They meet in only one, in only one pair.
LEMMA MeetOnce ==
  ASSUME NEW h \in Nat \ {0}, NEW c, c = 2 * h, NEW x \in 1..c, NEW y \in 1..c,
         NEW r \in 0..c - 2, NEW i \in 1..h, NEW q \in 0..c - 2, NEW j \in 1..h,
         Meet(c, i, r, x, y), Meet(c, j, q, x, y)
  PROVE  r = q /\ i = j
BY DEF Meet, Seat

-----------------------------------------------------------------------------
(* The fixtures of a group *)

Shape == format \in Formats /\ Valid(format)
PairCount == Circle \div 2

\* What a valid format is made of.
LEMMA ShapeFacts ==
  ASSUME Shape
  PROVE  /\ format.groups \in Nat \ {0} /\ format.size \in Nat /\ format.size >= 2
         /\ format.advancers \in 1..format.size
         /\ format.double \in BOOLEAN /\ format.third \in BOOLEAN
BY BracketAssumption DEF Shape, Valid

\* The circle is even, and a bye costs each round one match.
LEMMA CircleFacts ==
  ASSUME Shape
  PROVE  /\ PairCount \in Nat \ {0} /\ Circle = 2 * PairCount /\ Circle \in Nat
         /\ \/ Circle = format.size /\ Half = PairCount
            \/ Circle = format.size + 1 /\ Half = PairCount - 1
         /\ Half \in Nat \ {0}
         /\ Rounds = IF format.double THEN 2 * (Circle - 1) ELSE Circle - 1
<1>1. format.size \in Nat /\ format.size >= 2 /\ format.double \in BOOLEAN
  BY ShapeFacts
<1>2. PICK s \in Nat : s = format.size
  BY <1>1
<1>3. PICK d \in Nat : d = s \div 2 /\ ((s = 2 * d /\ s % 2 = 0) \/ (s = 2 * d + 1 /\ s % 2 = 1))
  <2>1. s \div 2 \in Nat
    OBVIOUS
  <2>2. s % 2 = 0 \/ s % 2 = 1
    OBVIOUS
  <2>3. s = 2 * (s \div 2) + (s % 2)
    OBVIOUS
  <2>4. CASE s % 2 = 0
    <3>1. s = 2 * (s \div 2) + 0
      BY <2>3, <2>4
    <3>2. s = 2 * (s \div 2)
      BY <2>1, <3>1
    <3> QED
      BY <2>1, <2>4, <3>2
  <2>5. CASE s % 2 = 1
    <3>1. s = 2 * (s \div 2) + 1
      BY <2>1, <2>3, <2>5
    <3> QED
      BY <2>1, <2>5, <3>1
  <2> QED
    BY <2>2, <2>4, <2>5
<1>4. d \in Nat \ {0}
  BY <1>1, <1>2, <1>3
<1>5. CASE s = 2 * d /\ s % 2 = 0
  <2>1. Circle = s
    BY <1>2, <1>5 DEF Circle
  <2>2. PairCount = d /\ Half = d
    BY <1>2, <1>3, <2>1 DEF PairCount, Half
  <2>3. Rounds = IF format.double THEN 2 * (Circle - 1) ELSE Circle - 1
    BY <1>1, <2>1 DEF Rounds
  <2> QED
    BY <1>2, <1>4, <1>5, <2>1, <2>2, <2>3
<1>6. CASE s = 2 * d + 1 /\ s % 2 = 1
  <2>1. Circle = s + 1
    BY <1>2, <1>6 DEF Circle
  <2>2. (s + 1) \div 2 = d + 1
    BY <1>6
  <2>3. PairCount = d + 1 /\ Half = d
    BY <1>2, <1>3, <2>1, <2>2 DEF PairCount, Half
  <2>4. Rounds = IF format.double THEN 2 * (Circle - 1) ELSE Circle - 1
    BY <1>1, <2>1 DEF Rounds
  <2> QED
    BY <1>2, <1>4, <1>6, <2>1, <2>3, <2>4
<1> QED
  BY <1>3, <1>5, <1>6

\* The place of the schedule is the seat of the circle method.
LEMMA PlaceSeat ==
  ASSUME Shape, NEW k \in 1..Circle, NEW r \in 0..Circle - 2
  PROVE  Place(k, r) = Seat(Circle, k, r)
<1>1. PICK c \in Nat : c = Circle /\ c >= 2
  BY CircleFacts
<1>2. CASE k = 1
  BY <1>2 DEF Place, Seat
<1>3. CASE k # 1
  <2>1. k \in 2..c /\ r \in 0..c - 2
    BY <1>1, <1>3
  <2>2. 2 + ((k - 2 + (c - 1) - (r % (c - 1))) % (c - 1)) = IF k - 2 >= r THEN k - r ELSE k - r + c - 1
    BY <1>1, <2>1, Rotation
  <2> QED
    BY <1>1, <1>3, <2>2 DEF Place, Seat
<1> QED
  BY <1>2, <1>3

\* The two of a pair, by their seats.
LEMMA PairSeats ==
  ASSUME Shape, NEW i \in 1..PairCount, NEW r \in 0..Circle - 2
  PROVE  /\ i \in 1..Circle /\ Circle + 1 - i \in 1..Circle
         /\ Pair(i, r) = <<Seat(Circle, i, r), Seat(Circle, Circle + 1 - i, r)>>
         /\ Pair(i, r)[1] \in 1..Circle /\ Pair(i, r)[2] \in 1..Circle /\ Pair(i, r)[1] # Pair(i, r)[2]
<1>1. i \in 1..Circle /\ Circle + 1 - i \in 1..Circle /\ i # Circle + 1 - i /\ Circle \in Nat
  BY CircleFacts
<1>2. Pair(i, r) = <<Seat(Circle, i, r), Seat(Circle, Circle + 1 - i, r)>>
  BY <1>1, PlaceSeat DEF Pair
<1>3. Seat(Circle, i, r) \in 1..Circle /\ Seat(Circle, Circle + 1 - i, r) \in 1..Circle
  BY <1>1, SeatRange
<1>4. Seat(Circle, i, r) # Seat(Circle, Circle + 1 - i, r)
  BY <1>1, SeatInjective
<1> QED
  BY <1>1, <1>2, <1>3, <1>4

\* No place is in two pairs of a round.
LEMMA PairsApart ==
  ASSUME Shape, NEW r \in 0..Circle - 2, NEW i \in 1..PairCount, NEW j \in 1..PairCount, i # j
  PROVE  {Pair(i, r)[1], Pair(i, r)[2]} \cap {Pair(j, r)[1], Pair(j, r)[2]} = {}
<1>1. /\ i # j /\ i # Circle + 1 - j /\ Circle + 1 - i # j /\ Circle + 1 - i # Circle + 1 - j
      /\ Circle \in Nat
  BY CircleFacts
<1>2. /\ Seat(Circle, i, r) # Seat(Circle, j, r)
      /\ Seat(Circle, i, r) # Seat(Circle, Circle + 1 - j, r)
      /\ Seat(Circle, Circle + 1 - i, r) # Seat(Circle, j, r)
      /\ Seat(Circle, Circle + 1 - i, r) # Seat(Circle, Circle + 1 - j, r)
  BY <1>1, PairSeats, SeatInjective
<1> QED
  BY <1>2, PairSeats

\* The pair that plays match i of a round.
Slot(i, r) == IF \A j \in 1..i : Paired(j, r) THEN i ELSE i + 1

\* At most one pair of a round is left out, so match i is pair i or i + 1.
LEMMA SlotFacts ==
  ASSUME Shape, NEW r \in 0..Circle - 2
  PROVE  /\ \A i \in 1..Half :
                /\ Slot(i, r) \in 1..PairCount /\ Paired(Slot(i, r), r)
                /\ PairOf(i, r) = Pair(Slot(i, r), r)
         /\ \A i, j \in 1..Half : Slot(i, r) = Slot(j, r) => i = j
         /\ \A j \in 1..PairCount : Paired(j, r) => \E i \in 1..Half : Slot(i, r) = j
<1>0. \A i : PairOf(i, r) = Pair(Slot(i, r), r)
  BY DEF PairOf, Slot
<1>1. CASE Circle = format.size
  <2>1. \A j \in 1..PairCount : Paired(j, r)
    BY <1>1, PairSeats DEF Paired
  <2>2. Half = PairCount /\ PairCount \in Nat
    BY <1>1, CircleFacts, ShapeFacts
  <2>3. \A i \in 1..Half : Slot(i, r) = i
    BY <2>1, <2>2 DEF Slot
  <2> QED
    BY <1>0, <2>1, <2>2, <2>3
<1>2. CASE Circle # format.size
  <2>1. /\ Circle = format.size + 1 /\ Half = PairCount - 1 /\ PairCount \in Nat \ {0}
        /\ Circle = 2 * PairCount
    BY <1>2, CircleFacts
  <2>2. PICK b \in 1..PairCount : Pair(b, r)[1] = Circle \/ Pair(b, r)[2] = Circle
    <3>1. PICK k \in 1..Circle : Seat(Circle, k, r) = Circle
      <4>1. CASE r = 0
        BY <2>1, <4>1 DEF Seat
      <4>2. CASE r # 0
        <5>1. r + 1 \in 1..Circle /\ Seat(Circle, r + 1, r) = Circle
          BY <2>1, <4>2 DEF Seat
        <5> QED
          BY <5>1
      <4> QED
        BY <4>1, <4>2
    <3>2. CASE k \in 1..PairCount
      BY <3>1, <3>2, PairSeats
    <3>3. CASE k \notin 1..PairCount
      <4>1. Circle + 1 - k \in 1..PairCount /\ Circle + 1 - (Circle + 1 - k) = k
        BY <2>1, <3>3
      <4> QED
        BY <3>1, <4>1, PairSeats
    <3> QED
      BY <3>2, <3>3
  <2>3. ASSUME NEW j \in 1..PairCount PROVE Paired(j, r) <=> j # b
    <3>1. CASE j = b
      BY <2>1, <2>2, <3>1, ShapeFacts DEF Paired
    <3>2. CASE j # b
      <4>1. Pair(j, r)[1] # Circle /\ Pair(j, r)[2] # Circle
        BY <2>2, <3>2, PairsApart
      <4>2. Pair(j, r)[1] \in 1..Circle /\ Pair(j, r)[2] \in 1..Circle
        BY PairSeats
      <4> QED
        BY <2>1, <3>2, <4>1, <4>2, ShapeFacts DEF Paired
    <3> QED
      BY <3>1, <3>2
  <2>4. \A i \in 1..Half : Slot(i, r) = IF i < b THEN i ELSE i + 1
    BY <2>1, <2>3 DEF Slot
  <2>5. \A i \in 1..Half : Slot(i, r) \in 1..PairCount /\ Slot(i, r) # b
    BY <2>1, <2>4
  <2>6. ASSUME NEW j \in 1..PairCount, j # b PROVE \E i \in 1..Half : Slot(i, r) = j
    <3>1. CASE j < b
      <4>1. j \in 1..Half
        BY <2>1, <3>1
      <4> QED
        BY <2>4, <3>1, <4>1
    <3>2. CASE j > b
      <4>1. PICK i \in 1..Half : i = j - 1
        BY <2>1, <3>2
      <4>2. ~(i < b) /\ i + 1 = j
        BY <3>2, <4>1
      <4> QED
        BY <2>4, <4>1, <4>2
    <3> QED
      BY <2>6, <3>1, <3>2
  <2>7. \A i, j \in 1..Half : Slot(i, r) = Slot(j, r) => i = j
    BY <2>4
  <2> QED
    BY <1>0, <2>3, <2>5, <2>6, <2>7
<1> QED
  BY <1>1, <1>2

-----------------------------------------------------------------------------
(* The waves of the groups *)

Team == Teams(format)
TeamAt(g, p) == g + (p - 1) * format.groups

\* Every team is at one place of one group, the one of its remainder.
LEMMA TeamFacts ==
  ASSUME Shape
  PROVE  /\ \A g \in 1..format.groups, p \in 1..format.size :
              TeamAt(g, p) \in Team /\ Group(g)[p] = TeamAt(g, p)
         /\ \A g, h \in 1..format.groups, p, q \in 1..format.size :
              TeamAt(g, p) = TeamAt(h, q) => g = h /\ p = q
         /\ \A t \in Team : \E g \in 1..format.groups, p \in 1..format.size : t = TeamAt(g, p)
         /\ \A g, h \in 1..format.groups, p, q \in 1..format.size :
              SameGroup(TeamAt(g, p), TeamAt(h, q)) <=> g = h
<1>1. PICK n \in Nat \ {0}, s \in Nat : n = format.groups /\ s = format.size
  BY ShapeFacts
<1>2. s * n = n * s /\ Team = 1..s * n
  BY <1>1 DEF Team, Teams
<1>3. ASSUME NEW g \in 1..n, NEW p \in 1..s
      PROVE  /\ TeamAt(g, p) \in Team /\ Group(g)[p] = TeamAt(g, p)
             /\ (TeamAt(g, p) - 1) \div n = p - 1 /\ (TeamAt(g, p) - 1) % n = g - 1
             /\ TeamAt(g, p) % n = IF g = n THEN 0 ELSE g
  <2>1. TeamAt(g, p) = (p - 1) * n + g /\ Group(g)[p] = TeamAt(g, p)
    BY <1>1 DEF TeamAt, Group
  <2>2. PICK t \in Int : t = TeamAt(g, p)
    BY <2>1
  <2>3. t \in 1..s * n /\ (t - 1) \div n = p - 1 /\ (t - 1) % n = g - 1
    BY <2>1, <2>2, BlockAt
  <2>4. CASE g = n
    <3>1. t = p * n + 0
      BY <2>1, <2>2, <2>4
    <3>2. t % n = 0
      BY <3>1, Division
    <3> QED
      BY <1>2, <2>1, <2>2, <2>3, <2>4, <3>2
  <2>5. CASE g # n
    <3>1. g \in 0..n - 1 /\ p - 1 \in Int /\ t = (p - 1) * n + g
      BY <2>1, <2>2, <2>5
    <3>2. PICK q \in Int : q = p - 1
      BY <3>1
    <3>3. t % n = g
      BY <3>1, <3>2, Division
    <3> QED
      BY <1>2, <2>1, <2>2, <2>3, <2>5, <3>3
  <2> QED
    BY <2>4, <2>5
<1>4. ASSUME NEW g \in 1..n, NEW h \in 1..n, NEW p \in 1..s, NEW q \in 1..s, TeamAt(g, p) = TeamAt(h, q)
      PROVE  g = h /\ p = q
  <2>1. g - 1 = h - 1 /\ p - 1 = q - 1
    BY <1>3, <1>4
  <2> QED
    BY <2>1
<1>5. ASSUME NEW t \in Team PROVE \E g \in 1..n, p \in 1..s : t = TeamAt(g, p)
  <2>1. t \in 1..s * n
    BY <1>2
  <2>2. /\ 1 + (t - 1) \div n \in 1..s /\ 1 + ((t - 1) % n) \in 1..n
        /\ t = ((t - 1) \div n) * n + 1 + ((t - 1) % n)
    BY <2>1, BlockOf
  <2>3. PICK p \in 1..s, g \in 1..n : p = 1 + (t - 1) \div n /\ g = 1 + ((t - 1) % n)
    BY <2>2
  <2>4. (t - 1) \div n = p - 1 /\ (t - 1) % n = g - 1
    <3>1. (t - 1) \div n \in Int /\ (t - 1) % n \in Int
      BY <2>1
    <3> QED
      BY <2>3, <3>1
  <2>5. t = (p - 1) * n + 1 + (g - 1)
    BY <2>2, <2>4
  <2>6. t = TeamAt(g, p)
    BY <1>1, <2>5 DEF TeamAt
  <2> QED
    BY <2>6
<1>6. ASSUME NEW g \in 1..n, NEW h \in 1..n, NEW p \in 1..s, NEW q \in 1..s
      PROVE  SameGroup(TeamAt(g, p), TeamAt(h, q)) <=> g = h
  BY <1>1, <1>3 DEF SameGroup
<1> QED
  BY <1>1, <1>3, <1>4, <1>5, <1>6

\* The leg of a round, and whether its sides are swapped.
Leg(r) == IF r < Circle - 1 THEN r ELSE r - (Circle - 1)
Swapped(r) == (Leg(r) % 2 = 1) # (r >= Circle - 1)

\* A round is a round of the circle, and swaps the sides in one of two legs.
LEMMA LegFacts ==
  ASSUME Shape, NEW r \in 0..Rounds - 1
  PROVE  r % (Circle - 1) = Leg(r) /\ Leg(r) \in 0..Circle - 2
<1>1. PICK c \in Nat \ {0} : c = Circle - 1 /\ (Rounds = 2 * c \/ Rounds = c)
  BY CircleFacts, ShapeFacts
<1>2. CASE r < c
  <2>1. r = 0 * c + r /\ r \in 0..c - 1
    BY <1>1, <1>2
  <2>2. r % c = r
    BY <2>1, Division
  <2> QED
    BY <1>1, <1>2, <2>1, <2>2, CircleFacts DEF Leg
<1>3. CASE r >= c
  <2>1. r = 1 * c + (r - c) /\ r - c \in 0..c - 1
    BY <1>1, <1>3
  <2>2. r % c = r - c
    BY <2>1, Division
  <2> QED
    <3>1. Leg(r) = r - c /\ c - 1 = Circle - 2
      BY <1>1, <1>3, CircleFacts DEF Leg
    <3>2. Leg(r) \in 0..c - 1
      BY <2>1, <3>1
    <3> QED
      BY <1>1, <2>2, <3>1, <3>2
<1> QED
  BY <1>1, <1>2, <1>3

\* A fixture, by the positions of its teams.
LEMMA FixtureFacts ==
  ASSUME Shape, NEW g \in 1..format.groups, NEW r \in 0..Rounds - 1, NEW i \in 1..Half,
         NEW p, p = Pair(Slot(i, Leg(r)), Leg(r))
  PROVE  /\ Slot(i, Leg(r)) \in 1..PairCount /\ p[1] \in 1..format.size /\ p[2] \in 1..format.size
         /\ p[1] # p[2]
         /\ Fixture(g, r, i) = IF Swapped(r) THEN <<TeamAt(g, p[2]), TeamAt(g, p[1])>>
                               ELSE <<TeamAt(g, p[1]), TeamAt(g, p[2])>>
<1>1. Leg(r) \in 0..Circle - 2 /\ r % (Circle - 1) = Leg(r)
  BY LegFacts
<1>2. Slot(i, Leg(r)) \in 1..PairCount /\ Paired(Slot(i, Leg(r)), Leg(r)) /\ PairOf(i, Leg(r)) = p
  BY <1>1, SlotFacts
<1>3. p[1] \in 1..format.size /\ p[2] \in 1..format.size /\ p[1] # p[2]
  <2>1. p[1] \in 1..Circle /\ p[2] \in 1..Circle /\ p[1] # p[2]
    BY <1>1, <1>2, PairSeats
  <2> QED
    BY <1>2, <2>1, ShapeFacts, CircleFacts DEF Paired
<1>4. Group(g)[p[1]] = TeamAt(g, p[1]) /\ Group(g)[p[2]] = TeamAt(g, p[2])
  BY <1>3, TeamFacts
<1>5. Fixture(g, r, i) = IF Swapped(r) THEN <<Group(g)[p[2]], Group(g)[p[1]]>>
                         ELSE <<Group(g)[p[1]], Group(g)[p[2]]>>
  BY <1>1, <1>2 DEF Fixture, Swapped
<1> QED
  BY <1>2, <1>3, <1>4, <1>5

WaveLength == format.groups * Half
GroupOf(k) == 1 + (k - 1) \div Half
MatchOf(k) == 1 + ((k - 1) % Half)

\* No team is in two matches, or on both sides of one.
Apart(w) ==
  \A i, j \in 1..Len(w) :
    /\ w[i][1] # w[i][2]
    /\ i # j => {w[i][1], w[i][2]} \cap {w[j][1], w[j][2]} = {}

\* A wave has the matches of every group, by group.
LEMMA WaveFacts ==
  ASSUME Shape
  PROVE  /\ WaveLength \in Nat
         /\ \A k \in 1..WaveLength :
              GroupOf(k) \in 1..format.groups /\ MatchOf(k) \in 1..Half
         /\ \A k, l \in 1..WaveLength : GroupOf(k) = GroupOf(l) /\ MatchOf(k) = MatchOf(l) => k = l
         /\ \A g \in 1..format.groups, i \in 1..Half :
              \E k \in 1..WaveLength : GroupOf(k) = g /\ MatchOf(k) = i
         /\ \A r : /\ Len(GroupWave(r)) = WaveLength /\ DOMAIN GroupWave(r) = 1..WaveLength
                   /\ \A k \in 1..WaveLength : GroupWave(r)[k] = Fixture(GroupOf(k), r, MatchOf(k))
<1>1. PICK n \in Nat, h \in Nat \ {0} : n = format.groups /\ h = Half
  BY ShapeFacts, CircleFacts
<1>2. ASSUME NEW k \in 1..n * h
      PROVE  GroupOf(k) \in 1..n /\ MatchOf(k) \in 1..h /\ k = (GroupOf(k) - 1) * h + MatchOf(k)
  <2>1. /\ 1 + (k - 1) \div h \in 1..n /\ 1 + ((k - 1) % h) \in 1..h
        /\ k = ((k - 1) \div h) * h + 1 + ((k - 1) % h)
    BY BlockOf
  <2>2. PICK d \in Int, m \in Int : d = (k - 1) \div h /\ m = (k - 1) % h
    OBVIOUS
  <2>3. GroupOf(k) = 1 + d /\ MatchOf(k) = 1 + m
    BY <1>1, <2>2 DEF GroupOf, MatchOf
  <2>4. k = d * h + 1 + m /\ GroupOf(k) - 1 = d
    BY <2>1, <2>2, <2>3
  <2> QED
    BY <2>1, <2>2, <2>3, <2>4
<1>3. ASSUME NEW g \in 1..n, NEW i \in 1..h
      PROVE  \E k \in 1..n * h : GroupOf(k) = g /\ MatchOf(k) = i
  <2>1. PICK k : k = (g - 1) * h + i
    OBVIOUS
  <2>2. k \in 1..n * h /\ (k - 1) \div h = g - 1 /\ (k - 1) % h = i - 1
    BY <2>1, BlockAt
  <2> QED
    BY <1>1, <2>2 DEF GroupOf, MatchOf
<1>4. ASSUME NEW r
      PROVE  /\ Len(GroupWave(r)) = n * h /\ DOMAIN GroupWave(r) = 1..n * h
             /\ \A k \in 1..n * h : GroupWave(r)[k] = Fixture(GroupOf(k), r, MatchOf(k))
  BY <1>1 DEF GroupWave, GroupOf, MatchOf
<1>5. n * h \in Nat /\ WaveLength = n * h
  BY <1>1 DEF WaveLength
<1>6. ASSUME NEW k \in 1..n * h, NEW l \in 1..n * h, GroupOf(k) = GroupOf(l), MatchOf(k) = MatchOf(l)
      PROVE  k = l
  <2>1. k = (GroupOf(k) - 1) * h + MatchOf(k) /\ l = (GroupOf(l) - 1) * h + MatchOf(l)
    BY <1>2
  <2> QED
    BY <1>6, <2>1
<1> QED
  BY <1>1, <1>2, <1>3, <1>4, <1>5, <1>6

\* No team plays two matches of a wave.
LEMMA WaveApart ==
  ASSUME Shape, NEW r \in 0..Rounds - 1
  PROVE  GroupWave(r) \in Seq(Team \X Team) /\ Apart(GroupWave(r))
<1> DEFINE w == GroupWave(r)
           pair(k) == Pair(Slot(MatchOf(k), Leg(r)), Leg(r))
<1>1. ASSUME NEW k \in 1..WaveLength
      PROVE  /\ GroupOf(k) \in 1..format.groups /\ MatchOf(k) \in 1..Half
             /\ Slot(MatchOf(k), Leg(r)) \in 1..PairCount
             /\ pair(k)[1] \in 1..format.size /\ pair(k)[2] \in 1..format.size /\ pair(k)[1] # pair(k)[2]
             /\ \/ w[k] = <<TeamAt(GroupOf(k), pair(k)[1]), TeamAt(GroupOf(k), pair(k)[2])>>
                \/ w[k] = <<TeamAt(GroupOf(k), pair(k)[2]), TeamAt(GroupOf(k), pair(k)[1])>>
  BY WaveFacts, FixtureFacts
<1>2. ASSUME NEW k \in 1..WaveLength PROVE w[k] \in Team \X Team /\ w[k][1] # w[k][2]
  <2> HIDE DEF pair, w
  <2>1. /\ TeamAt(GroupOf(k), pair(k)[1]) \in Team /\ TeamAt(GroupOf(k), pair(k)[2]) \in Team
        /\ TeamAt(GroupOf(k), pair(k)[1]) # TeamAt(GroupOf(k), pair(k)[2])
    BY <1>1, TeamFacts
  <2> QED
    BY <1>1, <2>1
<1>3. Len(w) = WaveLength /\ w \in Seq(Team \X Team)
  <2>1. Len(w) = WaveLength /\ DOMAIN w = 1..WaveLength /\ WaveLength \in Nat
    BY WaveFacts
  <2>2. w = [k \in 1..WaveLength |-> w[k]]
    BY DEF GroupWave, WaveLength
  <2> HIDE DEF w
  <2>3. w \in [1..WaveLength -> Team \X Team]
    BY <1>2, <2>2
  <2> QED
    BY <2>1, <2>3
<1>4. ASSUME NEW k \in 1..WaveLength, NEW l \in 1..WaveLength, k # l
      PROVE  {w[k][1], w[k][2]} \cap {w[l][1], w[l][2]} = {}
  <2>1. CASE GroupOf(k) # GroupOf(l)
    <3> HIDE DEF pair, w
    <3>1. \A p, q \in 1..format.size : TeamAt(GroupOf(k), p) # TeamAt(GroupOf(l), q)
      BY <1>1, <2>1, TeamFacts
    <3> QED
      BY <1>1, <3>1
  <2>2. CASE GroupOf(k) = GroupOf(l)
    <3>1. Slot(MatchOf(k), Leg(r)) # Slot(MatchOf(l), Leg(r))
      BY <1>1, <1>4, <2>2, WaveFacts, SlotFacts, LegFacts
    <3>2. {pair(k)[1], pair(k)[2]} \cap {pair(l)[1], pair(l)[2]} = {}
      BY <1>1, <3>1, PairsApart, LegFacts
    <3> HIDE DEF pair, w
    <3>3. ASSUME NEW p \in {pair(k)[1], pair(k)[2]}, NEW q \in {pair(l)[1], pair(l)[2]}
          PROVE  TeamAt(GroupOf(k), p) # TeamAt(GroupOf(l), q)
      <4>1. p \in 1..format.size /\ q \in 1..format.size /\ p # q
        BY <1>1, <3>2
      <4>2. GroupOf(k) \in 1..format.groups /\ GroupOf(l) = GroupOf(k)
        BY <1>1, <2>2
      <4> QED
        BY <4>1, <4>2, TeamFacts
    <3> QED
      BY <1>1, <3>3
  <2> QED
    BY <2>1, <2>2
<1> HIDE DEF w
<1>5. Apart(w)
  BY <1>2, <1>3, <1>4 DEF Apart
<1> QED
  BY <1>3, <1>5 DEF w
\* Match k of a round is played by positions x and y of group g.
Between(r, k, g, x, y) ==
  \/ GroupWave(r)[k] = <<TeamAt(g, x), TeamAt(g, y)>>
  \/ GroupWave(r)[k] = <<TeamAt(g, y), TeamAt(g, x)>>

\* Who plays match k: two of the group, who are the pair of its slot.
LEMMA OfGroup ==
  ASSUME Shape, NEW r \in 0..Rounds - 1, NEW k \in 1..WaveLength
  PROVE  \E x, y \in 1..format.size :
           /\ x # y /\ Meet(Circle, Slot(MatchOf(k), Leg(r)), Leg(r), x, y)
           /\ GroupWave(r)[k] = <<TeamAt(GroupOf(k), x), TeamAt(GroupOf(k), y)>>
           /\ Pair(Slot(MatchOf(k), Leg(r)), Leg(r)) = IF Swapped(r) THEN <<y, x>> ELSE <<x, y>>
<1> DEFINE i == Slot(MatchOf(k), Leg(r))
           p == Pair(i, Leg(r))
<1>1. GroupOf(k) \in 1..format.groups /\ MatchOf(k) \in 1..Half /\ Leg(r) \in 0..Circle - 2
  BY WaveFacts, LegFacts
<1>2. /\ i \in 1..PairCount /\ p[1] \in 1..format.size /\ p[2] \in 1..format.size /\ p[1] # p[2]
      /\ GroupWave(r)[k] = IF Swapped(r) THEN <<TeamAt(GroupOf(k), p[2]), TeamAt(GroupOf(k), p[1])>>
                           ELSE <<TeamAt(GroupOf(k), p[1]), TeamAt(GroupOf(k), p[2])>>
  <2>1. GroupWave(r)[k] = Fixture(GroupOf(k), r, MatchOf(k))
    BY WaveFacts
  <2>2. PICK m \in 1..Half, g \in 1..format.groups : m = MatchOf(k) /\ g = GroupOf(k)
    BY <1>1
  <2> QED
    BY <2>1, <2>2, FixtureFacts
<1>3. p = <<Seat(Circle, i, Leg(r)), Seat(Circle, Circle + 1 - i, Leg(r))>>
  BY <1>1, <1>2, PairSeats
<1>4. Meet(Circle, i, Leg(r), p[1], p[2]) /\ Meet(Circle, i, Leg(r), p[2], p[1]) /\ p = <<p[1], p[2]>>
  BY <1>3 DEF Meet
<1> HIDE DEF i, p
<1>5. CASE Swapped(r)
  BY <1>2, <1>4, <1>5 DEF i, p
<1>6. CASE ~Swapped(r)
  BY <1>2, <1>4, <1>6 DEF i, p
<1> QED
  BY <1>5, <1>6

\* Who plays at home when places x and y of group g meet.
LEMMA BetweenFacts ==
  ASSUME Shape, NEW r \in 0..Rounds - 1, NEW k \in 1..WaveLength, NEW g \in 1..format.groups,
         NEW x \in 1..format.size, NEW y \in 1..format.size, Between(r, k, g, x, y)
  PROVE  /\ x # y /\ GroupOf(k) = g /\ Meet(Circle, Slot(MatchOf(k), Leg(r)), Leg(r), x, y)
         /\ GroupWave(r)[k] = <<TeamAt(g, x), TeamAt(g, y)>>
              <=> Pair(Slot(MatchOf(k), Leg(r)), Leg(r)) = IF Swapped(r) THEN <<y, x>> ELSE <<x, y>>
<1>1. PICK u, v \in 1..format.size :
        /\ u # v /\ Meet(Circle, Slot(MatchOf(k), Leg(r)), Leg(r), u, v)
        /\ GroupWave(r)[k] = <<TeamAt(GroupOf(k), u), TeamAt(GroupOf(k), v)>>
        /\ Pair(Slot(MatchOf(k), Leg(r)), Leg(r)) = IF Swapped(r) THEN <<v, u>> ELSE <<u, v>>
  BY OfGroup
<1>2. GroupOf(k) \in 1..format.groups
  BY WaveFacts
<1>3. CASE GroupWave(r)[k] = <<TeamAt(g, x), TeamAt(g, y)>>
  <2>1. TeamAt(GroupOf(k), u) = TeamAt(g, x) /\ TeamAt(GroupOf(k), v) = TeamAt(g, y)
    BY <1>1, <1>3
  <2>2. GroupOf(k) = g /\ u = x /\ v = y
    BY <1>2, <2>1, TeamFacts
  <2> QED
    BY <1>1, <1>3, <2>2
<1>4. CASE GroupWave(r)[k] = <<TeamAt(g, y), TeamAt(g, x)>>
  <2>1. TeamAt(GroupOf(k), u) = TeamAt(g, y) /\ TeamAt(GroupOf(k), v) = TeamAt(g, x)
    BY <1>1, <1>4
  <2>2. GroupOf(k) = g /\ u = y /\ v = x
    BY <1>2, <2>1, TeamFacts
  <2>3. Meet(Circle, Slot(MatchOf(k), Leg(r)), Leg(r), x, y)
    BY <1>1, <2>2 DEF Meet
  <2>4. TeamAt(g, x) # TeamAt(g, y)
    BY <1>1, <2>2, TeamFacts
  <2> QED
    BY <1>1, <1>4, <2>2, <2>3, <2>4
<1> QED
  BY <1>3, <1>4 DEF Between

\* In every leg they meet once; the legs swap the sides.
LEMMA MeetExists ==
  ASSUME Shape, NEW g \in 1..format.groups, NEW x \in 1..format.size, NEW y \in 1..format.size, x # y
  PROVE  \E l \in 0..Circle - 2, k \in 1..WaveLength : \A r \in 0..Rounds - 1 : Leg(r) = l => Between(r, k, g, x, y)
<1>1. /\ PairCount \in Nat \ {0} /\ Circle = 2 * PairCount /\ Circle \in Nat
      /\ x \in 1..Circle /\ y \in 1..Circle
  BY CircleFacts, ShapeFacts
<1>2. PICK l \in 0..Circle - 2, i \in 1..PairCount : Meet(Circle, i, l, x, y) \/ Meet(Circle, i, l, y, x)
  <2>1. CASE x < y
    BY <1>1, <2>1, MeetAtAll
  <2>2. CASE y < x
    BY <1>1, <2>2, MeetAtAll
  <2> QED
    BY <1>1, <2>1, <2>2
<1>3. Pair(i, l) = <<x, y>> \/ Pair(i, l) = <<y, x>>
  BY <1>2, PairSeats DEF Meet
<1>4. Paired(i, l)
  BY <1>3, ShapeFacts DEF Paired
<1>5. PICK m \in 1..Half : Slot(m, l) = i
  BY <1>4, SlotFacts
<1>6. PICK k \in 1..WaveLength : GroupOf(k) = g /\ MatchOf(k) = m
  BY WaveFacts
<1>7. ASSUME NEW r \in 0..Rounds - 1, Leg(r) = l PROVE Between(r, k, g, x, y)
  <2>1. GroupWave(r)[k] = Fixture(g, r, m)
    BY <1>6, WaveFacts
  <2> DEFINE p == Pair(Slot(m, Leg(r)), Leg(r))
  <2>2. p = Pair(i, l)
    BY <1>5, <1>7
  <2>3. Fixture(g, r, m) = IF Swapped(r) THEN <<TeamAt(g, p[2]), TeamAt(g, p[1])>>
                           ELSE <<TeamAt(g, p[1]), TeamAt(g, p[2])>>
    BY FixtureFacts
  <2> HIDE DEF p
  <2> QED
    BY <1>3, <2>1, <2>2, <2>3 DEF Between
<1> QED
  BY <1>7

\* Two matches of the same two teams are legs of a double round robin, and swap the sides.
LEMMA MeetUnique ==
  ASSUME Shape, NEW r \in 0..Rounds - 1, NEW k \in 1..WaveLength, NEW q \in 0..Rounds - 1,
         NEW l \in 1..WaveLength,
         NEW g \in 1..format.groups, NEW x \in 1..format.size, NEW y \in 1..format.size,
         Between(r, k, g, x, y), Between(q, l, g, x, y)
  PROVE  /\ k = l /\ Leg(r) = Leg(q)
         /\ GroupWave(r)[k] = GroupWave(q)[l] <=> r = q
<1>1. /\ PairCount \in Nat \ {0} /\ Circle = 2 * PairCount /\ Circle \in Nat
      /\ x \in 1..Circle /\ y \in 1..Circle /\ x # y
  BY CircleFacts, ShapeFacts, BetweenFacts
<1>2. Leg(r) \in 0..Circle - 2 /\ Leg(q) \in 0..Circle - 2
  BY LegFacts
<1>3. MatchOf(k) \in 1..Half /\ MatchOf(l) \in 1..Half
  BY WaveFacts
<1>4. Slot(MatchOf(k), Leg(r)) \in 1..PairCount /\ Slot(MatchOf(l), Leg(q)) \in 1..PairCount
  BY <1>2, <1>3, SlotFacts
<1>5. Leg(r) = Leg(q) /\ Slot(MatchOf(k), Leg(r)) = Slot(MatchOf(l), Leg(q))
  <2>1. /\ Meet(Circle, Slot(MatchOf(k), Leg(r)), Leg(r), x, y)
        /\ Meet(Circle, Slot(MatchOf(l), Leg(q)), Leg(q), x, y)
    BY BetweenFacts
  <2>2. PICK i \in 1..PairCount, j \in 1..PairCount :
          i = Slot(MatchOf(k), Leg(r)) /\ j = Slot(MatchOf(l), Leg(q))
    BY <1>4
  <2>3. Meet(Circle, i, Leg(r), x, y) /\ Meet(Circle, j, Leg(q), x, y)
    BY <2>1, <2>2
  <2>4. Leg(r) = Leg(q) /\ i = j
    BY <1>1, <1>2, <2>3, MeetOnce
  <2> QED
    BY <2>2, <2>4
<1>6. MatchOf(k) = MatchOf(l) /\ GroupOf(k) = GroupOf(l)
  BY <1>2, <1>3, <1>5, BetweenFacts, SlotFacts
<1>7. k = l
  BY <1>6, WaveFacts
<1>8. ASSUME r # q PROVE Swapped(r) # Swapped(q)
  <2>1. (r >= Circle - 1) # (q >= Circle - 1)
    BY <1>1, <1>5, <1>8 DEF Leg
  <2> QED
    BY <1>5, <2>1 DEF Swapped
<1>9. ASSUME r # q PROVE GroupWave(r)[k] # GroupWave(q)[l]
  <2> DEFINE p == Pair(Slot(MatchOf(k), Leg(r)), Leg(r))
  <2>1. p = Pair(Slot(MatchOf(l), Leg(q)), Leg(q))
    BY <1>5
  <2>2. <<x, y>> # <<y, x>> /\ <<TeamAt(g, x), TeamAt(g, y)>> # <<TeamAt(g, y), TeamAt(g, x)>>
    BY <1>1, TeamFacts
  <2>3. GroupWave(r)[k] = <<TeamAt(g, x), TeamAt(g, y)>> <=> p = IF Swapped(r) THEN <<y, x>> ELSE <<x, y>>
    BY BetweenFacts
  <2>4. GroupWave(q)[l] = <<TeamAt(g, x), TeamAt(g, y)>> <=> p = IF Swapped(q) THEN <<y, x>> ELSE <<x, y>>
    BY <2>1, BetweenFacts
  <2>5. p = <<x, y>> \/ p = <<y, x>>
    <3>1. p = <<Seat(Circle, Slot(MatchOf(k), Leg(r)), Leg(r)),
                Seat(Circle, Circle + 1 - Slot(MatchOf(k), Leg(r)), Leg(r))>>
      BY <1>2, <1>4, PairSeats
    <3> QED
      BY <3>1, BetweenFacts DEF Meet
  <2>6. GroupWave(r)[k] = <<TeamAt(g, x), TeamAt(g, y)>> \/ GroupWave(r)[k] = <<TeamAt(g, y), TeamAt(g, x)>>
    BY DEF Between
  <2>7. GroupWave(q)[l] = <<TeamAt(g, x), TeamAt(g, y)>> \/ GroupWave(q)[l] = <<TeamAt(g, y), TeamAt(g, x)>>
    BY DEF Between
  <2>8. Swapped(r) # Swapped(q)
    BY <1>8, <1>9
  <2> HIDE DEF p
  <2>9. CASE Swapped(r)
    BY <2>2, <2>3, <2>4, <2>5, <2>6, <2>7, <2>8, <2>9
  <2>10. CASE ~Swapped(r)
    <3>1. Swapped(q)
      BY <2>8, <2>10 DEF Swapped
    <3> QED
      BY <2>2, <2>3, <2>4, <2>5, <2>6, <2>7, <2>10, <3>1
  <2> QED
    BY <2>9, <2>10
<1>10. ASSUME r = q PROVE GroupWave(r)[k] = GroupWave(q)[l]
  BY <1>7, <1>10
<1> QED
  BY <1>5, <1>7, <1>9, <1>10
-----------------------------------------------------------------------------
(* The invariant *)

\* The wave in play is the next one, played by the brains of its teams.
WaveTrue ==
  /\ Len(inputs) = Len(wave) /\ Len(outcomes) = Len(wave)
  /\ wave # <<>> =>
       /\ stage \in {"group", "knockout", "third"} /\ wave = NextWave
       /\ stage = "group" => round < Rounds
       /\ stage = "knockout" => Len(current) > 1 /\ Len(current) % 2 = 0
       /\ \A i \in 1..Len(wave) : inputs[i] = <<brain[wave[i][1]], brain[wave[i][2]]>>
  /\ stage = "group" => round <= Rounds
  /\ stage = "third" => Len(losers) = 2

Distinct(s) == \A i, j \in 1..Len(s) : s[i] = s[j] => i = j

BrainsTrue == \A t \in Team : brain[t] = record[t].played

\* The reports begin with the waves of the groups, in order.
RoundOf(i) == (i - 1) \div WaveLength
IndexOf(i) == 1 + ((i - 1) % WaveLength)
GroupReports == (IF stage = "group" THEN round ELSE Rounds) * WaveLength

FromGroup(i) ==
  /\ reports[i].stage = "group"
  /\ <<reports[i].home, reports[i].away>> = GroupWave(RoundOf(i))[IndexOf(i)]

Schedule ==
  stage # "failed" =>
    /\ Len(reports) >= GroupReports /\ (stage = "group" => Len(reports) = GroupReports)
    /\ \A i \in 1..Len(reports) : IF i <= GroupReports THEN FromGroup(i) ELSE reports[i].stage # "group"

\* The first round of the knockout is the bracket of the tables.
Seeded ==
  stage = "knockout" /\ round = 0 =>
    /\ DOMAIN tables = 1..format.groups /\ \A g \in 1..format.groups : tables[g] \in Rankings(g)
    /\ current = Bracket(tables)

\* No team plays on after a defeat, and those left have none.
NoComeback ==
  \A i, j \in Met("knockout") :
    i < j => \A x \in {reports[j].home, reports[j].away} : i \in Knocked(x) => Won(x, i)

Unbeaten == \A k \in 1..Len(current) : \A i \in Knocked(current[k]) : Won(current[k], i)

\* The losers of the semi-finals lost in the round before the final.
Beaten(t) ==
  \E i \in Knocked(t) :
    /\ ~Won(t, i)
    /\ \/ Len(current) = 2 /\ reports[i].round = round - 1
       \/ Len(current) = 1 /\ reports[i].round = round - 2 /\ \E j \in Met("knockout") : i < j

LosersLost == \A k \in 1..Len(losers) : Beaten(losers[k])

Final(f, a, b) ==
  /\ f \in Met("knockout") /\ \A j \in Met("knockout") : j <= f
  /\ a # b /\ {reports[f].home, reports[f].away} = {a, b}

\* The last match of the knockout is the final.
LastIsFinal ==
  stage = "knockout" /\ Len(current) <= 1 =>
    /\ Len(current) = 1 /\ Len(reports) > 0 /\ reports[Len(reports)].home # reports[Len(reports)].away
    /\ reports[Len(reports)].stage = "knockout" /\ reports[Len(reports)].round = round - 1
    /\ current[1] \in {reports[Len(reports)].home, reports[Len(reports)].away}

Crowned ==
  stage \in {"third", "done"} =>
    /\ Len(current) = 1 /\ podium.champion = current[1]
    /\ \E f \in 1..Len(reports) :
         Final(f, podium.champion, podium.second) /\ reports[f].round = round - 1

ThirdTrue ==
  /\ stage \in {"group", "knockout", "third"} => Met("third") = {} /\ podium.third = Nothing
  /\ \A i \in Met("third") :
       /\ reports[i].home \in Range(losers) /\ reports[i].away \in Range(losers)
       /\ podium.third \in {reports[i].home, reports[i].away} /\ reports[i].winner = podium.third
  /\ podium.third # Nothing => podium.third \in Range(losers) /\ Met("third") # {}

Knockout == NoComeback /\ Unbeaten /\ LosersLost /\ LastIsFinal /\ Crowned /\ ThirdTrue

BracketInv ==
  /\ BracketTypeOK /\ WaveTrue /\ Distinct(current) /\ Distinct(losers) /\ BrainsTrue
  /\ Schedule /\ Seeded /\ Knockout
-----------------------------------------------------------------------------
(* A wave is committed match by match *)

Books(b) ==
  /\ b.record \in [Team -> TeamRecord] /\ b.brain \in [Team -> Nat]
  /\ \A t \in Team : b.brain[t] = b.record[t].played

\* The matches after n are still played by brains as they are in b.
Ahead(b, n) ==
  \A j \in n + 1..Len(wave) : inputs[j] = <<b.brain[wave[j][1]], b.brain[wave[j][2]]>>

\* A match adds one to the matches played.
LEMMA AddsFacts ==
  ASSUME NEW rec \in TeamRecord, NEW x \in Nat, NEW y \in Nat
  PROVE  Adds(rec, x, y) \in TeamRecord /\ Adds(rec, x, y).played = rec.played + 1
<1>1. PointsFor(x, y) \in Nat
  BY DEF PointsFor
<1> QED
  BY <1>1 DEF Adds, TeamRecord

\* One match keeps the books, and the brains of those who play later.
LEMMA OneMatch ==
  ASSUME wave \in Seq(Team \X Team), Apart(wave), NEW i \in 1..Len(wave), outcomes[i] \in Nat \X Nat,
         NEW b, Books(b), Ahead(b, i - 1)
  PROVE  Books(CommitMatch(b, i)) /\ Ahead(CommitMatch(b, i), i)
<1>1. PICK home, away \in Team : home = wave[i][1] /\ away = wave[i][2] /\ home # away
  BY DEF Apart
<1>2. PICK x, y \in Nat : x = outcomes[i][1] /\ y = outcomes[i][2]
  OBVIOUS
<1>3. inputs[i] = <<b.brain[home], b.brain[away]>>
  BY <1>1 DEF Ahead
<1>4. b.record \in [Team -> TeamRecord] /\ b.brain \in [Team -> Nat] /\ \A t \in Team : b.brain[t] = b.record[t].played
  BY DEF Books
<1> DEFINE c == CommitMatch(b, i)
<1>5. /\ c.record = [[b.record EXCEPT ![home] = Adds(@, x, y)] EXCEPT ![away] = Adds(@, y, x)]
      /\ c.brain = [[b.brain EXCEPT ![home] = b.brain[home] + 1] EXCEPT ![away] = b.brain[away] + 1]
  BY <1>1, <1>2, <1>3 DEF CommitMatch
<1> HIDE DEF c
<1>6. /\ Adds(b.record[home], x, y) \in TeamRecord
      /\ Adds(b.record[home], x, y).played = b.record[home].played + 1
      /\ Adds(b.record[away], y, x) \in TeamRecord
      /\ Adds(b.record[away], y, x).played = b.record[away].played + 1
  BY <1>1, <1>4, AddsFacts
<1>7. /\ c.record \in [Team -> TeamRecord] /\ c.brain \in [Team -> Nat]
      /\ \A t \in Team : c.record[t] = IF t = home THEN Adds(b.record[home], x, y)
                                       ELSE IF t = away THEN Adds(b.record[away], y, x) ELSE b.record[t]
      /\ \A t \in Team : c.brain[t] = IF t = home \/ t = away THEN b.brain[t] + 1 ELSE b.brain[t]
  <2>1. c.record \in [Team -> TeamRecord]
    <3>1. PICK f : f = [b.record EXCEPT ![home] = Adds(@, x, y)]
      OBVIOUS
    <3>2. f \in [Team -> TeamRecord] /\ f[away] = b.record[away]
      BY <1>1, <1>4, <1>6, <3>1
    <3>3. c.record = [f EXCEPT ![away] = Adds(b.record[away], y, x)]
      BY <1>5, <3>1, <3>2
    <3> QED
      BY <1>6, <3>2, <3>3
  <2>2. c.brain \in [Team -> Nat]
    <3>1. b.brain[home] + 1 \in Nat /\ b.brain[away] + 1 \in Nat
      BY <1>1, <1>4, SMTT(30)
    <3> QED
      BY <1>4, <1>5, <3>1, ZenonT(30)
  <2>3. \A t \in Team : c.record[t] = IF t = home THEN Adds(b.record[home], x, y)
                                     ELSE IF t = away THEN Adds(b.record[away], y, x) ELSE b.record[t]
    BY <1>1, <1>4, <1>5
  <2>4. \A t \in Team : c.brain[t] = IF t = home \/ t = away THEN b.brain[t] + 1 ELSE b.brain[t]
    BY <1>1, <1>4, <1>5, SMTT(30)
  <2> QED
    BY <2>1, <2>2, <2>3, <2>4
<1>8. Books(c)
  BY <1>1, <1>4, <1>6, <1>7, ZenonT(30) DEF Books
<1>9. ASSUME NEW j \in i + 1..Len(wave) PROVE inputs[j] = <<c.brain[wave[j][1]], c.brain[wave[j][2]]>>
  <2>1. j \in 1..Len(wave) /\ j # i /\ j \in i - 1 + 1..Len(wave)
    OBVIOUS
  <2>2. wave[j][1] \in Team /\ wave[j][2] \in Team /\ {wave[j][1], wave[j][2]} \cap {home, away} = {}
    BY <1>1, <2>1 DEF Apart
  <2>3. c.brain[wave[j][1]] = b.brain[wave[j][1]] /\ c.brain[wave[j][2]] = b.brain[wave[j][2]]
    BY <1>7, <2>2
  <2> QED
    BY <2>1, <2>3 DEF Ahead
<1> QED
  BY <1>8, <1>9 DEF c, Ahead

\* The books after the first n matches, for every n up to last.
After(f, last) ==
  /\ f = [i \in 0..last |-> f[i]] /\ f[0] = [record |-> record, brain |-> brain]
  /\ \A i \in 1..last : f[i] = CommitMatch(f[i - 1], i)

\* The recursion of a commit has a solution ...
LEMMA AfterExists ==
  ASSUME NEW last \in Nat
  PROVE  \E f : After(f, last)
<1> DEFINE S == {n \in Nat : \E f : After(f, n)}
<1>1. 0 \in S
  <2> DEFINE f == [i \in 0..0 |-> [record |-> record, brain |-> brain]]
  <2>1. f = [i \in 0..0 |-> f[i]] /\ f[0] = [record |-> record, brain |-> brain]
    OBVIOUS
  <2> HIDE DEF f
  <2>2. After(f, 0)
    BY <2>1 DEF After
  <2> QED
    BY <2>2
<1>2. ASSUME NEW n \in Nat, n \in S PROVE n + 1 \in S
  <2>1. PICK f : After(f, n)
    BY <1>2
  <2> DEFINE h == [i \in 0..n + 1 |-> IF i = n + 1 THEN CommitMatch(f[n], n + 1) ELSE f[i]]
  <2>2. /\ h = [i \in 0..n + 1 |-> h[i]] /\ h[n + 1] = CommitMatch(f[n], n + 1)
        /\ \A i \in 0..n : h[i] = f[i]
    OBVIOUS
  <2> HIDE DEF h
  <2>3. h[0] = [record |-> record, brain |-> brain]
    <3>1. f[0] = [record |-> record, brain |-> brain]
      BY <2>1 DEF After
    <3>2. h[0] = f[0]
      BY <2>2
    <3> QED
      BY <3>1, <3>2
  <2>4. ASSUME NEW i \in 1..n + 1 PROVE h[i] = CommitMatch(h[i - 1], i)
    <3>1. CASE i = n + 1
      <4>1. h[n] = f[n]
        <5>1. n \in 0..n
          OBVIOUS
        <5> QED
          BY <2>2, <5>1
      <4>2. i - 1 = n
        BY <3>1
      <4> QED
        BY <2>2, <3>1, <4>1, <4>2
    <3>2. CASE i # n + 1
      <4>1. i \in 1..n /\ i - 1 \in 0..n /\ i \in 0..n
        BY <3>2
      <4>2. h[i] = f[i] /\ h[i - 1] = f[i - 1]
        BY <2>2, <4>1
      <4> QED
        BY <2>1, <4>1, <4>2 DEF After
    <3> QED
      BY <3>1, <3>2
  <2>5. After(h, n + 1)
    BY <2>2, <2>3, <2>4 DEF After
  <2> QED
    BY <2>5
<1> HIDE DEF S
<1>3. Nat \subseteq S
  BY <1>1, <1>2, SetInduction
<1> QED
  BY <1>3 DEF S

\* ... which is what the code computes.
LEMMA CommittedIsAfter == Len(wave) \in Nat => \E f : After(f, Len(wave)) /\ Committed = f[Len(wave)]
<1> SUFFICES ASSUME Len(wave) \in Nat PROVE \E f : After(f, Len(wave)) /\ Committed = f[Len(wave)]
  OBVIOUS
<1> DEFINE Eqn(f) == f = [i \in 0..Len(wave) |->
                            IF i = 0 THEN [record |-> record, brain |-> brain] ELSE CommitMatch(f[i - 1], i)]
           total == CHOOSE f : Eqn(f)
<1>1. Committed = total[Len(wave)]
  BY DEF Committed
<1>2. PICK g : After(g, Len(wave))
  BY AfterExists
<1>3. Eqn(g)
  <2>1. ASSUME NEW n \in 0..Len(wave)
        PROVE  g[n] = IF n = 0 THEN [record |-> record, brain |-> brain] ELSE CommitMatch(g[n - 1], n)
    BY <1>2, SMTT(30) DEF After
  <2> QED
    BY <1>2, <2>1 DEF After
<1> HIDE DEF Eqn
<1>4. Eqn(total)
  BY <1>3
<1> HIDE DEF total
<1>5. total = [i \in 0..Len(wave) |->
                 IF i = 0 THEN [record |-> record, brain |-> brain] ELSE CommitMatch(total[i - 1], i)]
  BY <1>4 DEF Eqn
<1>6. After(total, Len(wave))
  <2>1. total[0] = [record |-> record, brain |-> brain]
    BY <1>5
  <2>2. ASSUME NEW i \in 1..Len(wave) PROVE total[i] = CommitMatch(total[i - 1], i)
    <3>1. i \in 0..Len(wave) /\ i # 0
      OBVIOUS
    <3> QED
      BY <1>5, <3>1
  <2>3. total = [i \in 0..Len(wave) |-> total[i]]
    BY <1>5
  <2> QED
    BY <2>1, <2>2, <2>3 DEF After
<1> QED
  BY <1>1, <1>6

\* As no team plays twice in a wave, every brain carries on with its team.
LEMMA CommittedFacts ==
  ASSUME wave \in Seq(Team \X Team), Apart(wave), \A i \in 1..Len(wave) : outcomes[i] \in Nat \X Nat,
         Books([record |-> record, brain |-> brain]), Ahead([record |-> record, brain |-> brain], 0)
  PROVE  Books(Committed)
<1>1. PICK f : After(f, Len(wave)) /\ Committed = f[Len(wave)]
  BY CommittedIsAfter
<1> DEFINE S == {n \in Nat : n <= Len(wave) => Books(f[n]) /\ Ahead(f[n], n)}
<1>2. 0 \in S
  BY <1>1 DEF After
<1>3. ASSUME NEW n \in Nat, n \in S PROVE n + 1 \in S
  <2> SUFFICES ASSUME n + 1 <= Len(wave) PROVE Books(f[n + 1]) /\ Ahead(f[n + 1], n + 1)
    OBVIOUS
  <2>1. Books(f[n]) /\ Ahead(f[n], n)
    BY <1>3
  <2>2. PICK i \in 1..Len(wave) : i = n + 1 /\ i - 1 = n
    OBVIOUS
  <2>3. f[i] = CommitMatch(f[n], i)
    BY <1>1, <2>2 DEF After
  <2>4. Books(CommitMatch(f[n], i)) /\ Ahead(CommitMatch(f[n], i), i)
    BY <2>1, <2>2, OneMatch
  <2> QED
    BY <2>2, <2>3, <2>4
<1> HIDE DEF S
<1>4. Nat \subseteq S
  BY <1>2, <1>3, SetInduction
<1>5. Len(wave) \in S
  BY <1>4
<1> QED
  BY <1>1, <1>5 DEF S
-----------------------------------------------------------------------------
(* The bracket *)

\* A ranking of a group has each of its teams in one place.
LEMMA RankingFacts ==
  ASSUME Shape, NEW g \in 1..format.groups, NEW s \in Rankings(g)
  PROVE  /\ s \in [1..format.size -> Team]
         /\ \A i \in 1..format.size : \E p \in 1..format.size : s[i] = TeamAt(g, p)
         /\ \A p \in 1..format.size : \E i \in 1..format.size : s[i] = TeamAt(g, p)
         /\ \A i, j \in 1..format.size : s[i] = s[j] => i = j
<1>1. PICK n \in Nat : n = format.size
  BY ShapeFacts
<1>2. PICK p \in [1..n -> 1..n] : IsInjective(p) /\ s = [i \in 1..n |-> Group(g)[p[i]]]
  BY <1>1 DEF Rankings
<1>3. ASSUME NEW i \in 1..n PROVE p[i] \in 1..n /\ s[i] = TeamAt(g, p[i]) /\ s[i] \in Team
  <2>1. PICK q \in 1..n : q = p[i]
    BY <1>2
  <2>2. s[i] = Group(g)[q]
    BY <1>2, <2>1
  <2>3. Group(g)[q] = TeamAt(g, q) /\ TeamAt(g, q) \in Team
    BY <1>1, TeamFacts
  <2> QED
    BY <2>1, <2>2, <2>3
<1>4. p \in Surjection(1..n, 1..n)
  <2>1. p \in Injection(1..n, 1..n)
    BY <1>2 DEF Injection
  <2>2. IsFiniteSet(1..n)
    BY FS_Interval
  <2> QED
    BY <2>1, <2>2, FS_Injection
<1>5. \A q \in 1..n : \E i \in 1..n : p[i] = q
  BY <1>4 DEF Surjection
<1>6. ASSUME NEW i \in 1..n, NEW j \in 1..n, s[i] = s[j] PROVE i = j
  <2>1. p[i] \in 1..n /\ p[j] \in 1..n /\ TeamAt(g, p[i]) = TeamAt(g, p[j])
    BY <1>3, <1>6
  <2>2. PICK u, v \in 1..n : u = p[i] /\ v = p[j]
    BY <2>1
  <2>3. u = v
    BY <1>1, <2>1, <2>2, TeamFacts
  <2> QED
    BY <1>2, <2>2, <2>3 DEF IsInjective
<1>7. s \in [1..n -> Team]
  BY <1>2, <1>3
<1>8. \A i \in 1..n : \E q \in 1..n : s[i] = TeamAt(g, q)
  BY <1>3
<1>9. ASSUME NEW q \in 1..n PROVE \E i \in 1..n : s[i] = TeamAt(g, q)
  BY <1>3, <1>5
<1> QED
  BY <1>1, <1>6, <1>7, <1>8, <1>9

Ranked(tab) == DOMAIN tab = 1..format.groups /\ \A g \in 1..format.groups : tab[g] \in Rankings(g)

\* No team has two places in the tables.
LEMMA RankedFacts ==
  ASSUME Shape, NEW tab, Ranked(tab)
  PROVE  /\ \A g \in 1..format.groups, i \in 1..format.size : tab[g][i] \in Team
         /\ \A g, h \in 1..format.groups, i, j \in 1..format.size :
              /\ tab[g][i] = tab[h][j] => g = h /\ i = j
              /\ SameGroup(tab[g][i], tab[h][j]) <=> g = h
<1>1. ASSUME NEW g \in 1..format.groups, NEW i \in 1..format.size
      PROVE  tab[g][i] \in Team /\ \E p \in 1..format.size : tab[g][i] = TeamAt(g, p)
  BY RankingFacts DEF Ranked
<1>2. ASSUME NEW g \in 1..format.groups, NEW h \in 1..format.groups,
             NEW i \in 1..format.size, NEW j \in 1..format.size
      PROVE  /\ SameGroup(tab[g][i], tab[h][j]) <=> g = h
             /\ tab[g][i] = tab[h][j] => g = h /\ i = j
  <2>1. PICK p, q \in 1..format.size : tab[g][i] = TeamAt(g, p) /\ tab[h][j] = TeamAt(h, q)
    BY <1>1
  <2>2. SameGroup(tab[g][i], tab[h][j]) <=> g = h
    BY <2>1, TeamFacts
  <2>3. tab[g][i] = tab[h][j] => g = h
    BY <2>1, TeamFacts, ZenonT(30)
  <2>4. tab[g][i] = tab[g][j] => i = j
    BY RankingFacts DEF Ranked
  <2> QED
    BY <2>2, <2>3, <2>4
<1> QED
  BY <1>1, <1>2

\* Whom the winner of a group meets: the other of that number, by its group
\* and its place in it.
Rival(g) ==
  IF format.advancers = 2 /\ format.groups % 2 = 0 THEN IF g % 2 = 1 THEN g + 1 ELSE g - 1 ELSE g
OtherGroup(k) == 1 + (k - 1) \div (format.advancers - 1)
OtherPlace(k) == 2 + ((k - 1) % (format.advancers - 1))

\* The neighbour of an odd number is even, and the other way round.
LEMMA Parity ==
  ASSUME NEW n \in Nat, NEW i \in 1..2 * n
  PROVE  \E g \in 1..n : \/ i = 2 * g - 1 /\ i % 2 = 1 /\ (i + 1) \div 2 = g
                         \/ i = 2 * g /\ i % 2 = 0 /\ i \div 2 = g
<1>1. CASE i % 2 = 1
  <2>1. PICK g \in Int : g = (i + 1) \div 2 /\ i = 2 * g - 1
    BY <1>1
  <2>2. g \in 1..n
    BY <2>1
  <2> QED
    BY <1>1, <2>1, <2>2
<1>2. CASE i % 2 = 0
  <2>1. PICK g \in Int : g = i \div 2 /\ i = 2 * g
    BY <1>2
  <2>2. g \in 1..n
    BY <2>1
  <2> QED
    BY <1>2, <2>1, <2>2
<1> QED
  BY <1>1, <1>2

\* In an even number of groups every group has one rival.
LEMMA RivalFacts ==
  ASSUME Shape
  PROVE  /\ \A g \in 1..format.groups : Rival(g) \in 1..format.groups
         /\ \A g \in 1..format.groups : Rival(Rival(g)) = g
<1>1. PICK n \in Nat : n = format.groups
  BY ShapeFacts
<1>2. CASE format.advancers = 2 /\ n % 2 = 0
  <2>1. ASSUME NEW g \in 1..n PROVE Rival(g) \in 1..n /\ Rival(Rival(g)) = g
    <3>1. CASE g % 2 = 1
      <4>1. g + 1 \in 1..n /\ (g + 1) % 2 = 0 /\ (g + 1) - 1 = g
        BY <1>2, <3>1
      <4> QED
        BY <1>1, <1>2, <3>1, <4>1 DEF Rival
    <3>2. CASE g % 2 = 0
      <4>1. g - 1 \in 1..n /\ (g - 1) % 2 = 1 /\ (g - 1) + 1 = g
        BY <3>2
      <4> QED
        BY <1>1, <1>2, <3>2, <4>1 DEF Rival
    <3> QED
      BY <3>1, <3>2
  <2> QED
    BY <1>1, <2>1
<1>3. CASE ~(format.advancers = 2 /\ n % 2 = 0)
  BY <1>1, <1>3 DEF Rival
<1> QED
  BY <1>2, <1>3

\* The k-th of the other advancers, by group and place.
LEMMA OtherFacts ==
  ASSUME Shape, format.advancers # 1
  PROVE  /\ \A k \in 1..format.groups :
              OtherGroup(k) \in 1..format.groups /\ OtherPlace(k) \in 2..format.advancers
         /\ \A k, l \in 1..format.groups :
              OtherGroup(k) = OtherGroup(l) /\ OtherPlace(k) = OtherPlace(l) => k = l
<1>1. PICK n \in Nat, h \in Nat \ {0} : n = format.groups /\ h = format.advancers - 1
  BY ShapeFacts
<1>2. n <= n * h /\ n * h \in Nat
  <2>1. PICK m \in Nat : h = m + 1
    BY h - 1 \in Nat
  <2>2. n * h = n * m + n /\ n * m \in Nat
    BY <2>1
  <2> QED
    BY <2>2
<1>3. ASSUME NEW k \in 1..n
      PROVE  /\ OtherGroup(k) \in 1..n /\ OtherPlace(k) \in 2..h + 1
             /\ k = (OtherGroup(k) - 1) * h + OtherPlace(k) - 1
  <2>1. k \in 1..n * h
    BY <1>2
  <2>2. /\ 1 + (k - 1) \div h \in 1..n /\ 1 + ((k - 1) % h) \in 1..h
        /\ k = ((k - 1) \div h) * h + 1 + ((k - 1) % h)
    BY <2>1, BlockOf
  <2>3. PICK d \in Int, m \in Int : d = (k - 1) \div h /\ m = (k - 1) % h
    OBVIOUS
  <2>4. OtherGroup(k) = 1 + d /\ OtherPlace(k) = 2 + m
    BY <1>1, <2>3 DEF OtherGroup, OtherPlace
  <2>5. k = d * h + 1 + m /\ OtherGroup(k) - 1 = d /\ OtherPlace(k) - 1 = 1 + m
    BY <2>2, <2>3, <2>4
  <2> QED
    BY <2>2, <2>3, <2>4, <2>5
<1>4. ASSUME NEW k \in 1..n, NEW l \in 1..n, OtherGroup(k) = OtherGroup(l), OtherPlace(k) = OtherPlace(l)
      PROVE  k = l
  <2>1. k = (OtherGroup(k) - 1) * h + OtherPlace(k) - 1 /\ l = (OtherGroup(l) - 1) * h + OtherPlace(l) - 1
    BY <1>3
  <2> QED
    BY <1>4, <2>1
<1> QED
  BY <1>1, <1>3, <1>4, ShapeFacts

\* Which advancer stands at which place of the bracket.
LEMMA BracketCells ==
  ASSUME Shape, NEW tab
  PROVE  /\ format.advancers = 1 =>
              /\ Bracket(tab) = [g \in 1..format.groups |-> tab[g][1]]
         /\ format.advancers # 1 =>
              /\ Bracket(tab) = [i \in 1..2 * format.groups |-> Bracket(tab)[i]]
              /\ \A g \in 1..format.groups :
                   /\ Bracket(tab)[2 * g - 1] = tab[g][1]
                   /\ Bracket(tab)[2 * g] = tab[OtherGroup(Rival(g))][OtherPlace(Rival(g))]
<1>1. format.groups \in Nat /\ format.advancers \in Nat
  BY ShapeFacts
<1>2. CASE format.advancers = 1
  BY <1>1, <1>2 DEF Bracket
<1>3. CASE format.advancers # 1
  <2>1. (format.advancers - 1 = 0) = FALSE /\ (format.advancers - 1 = 1) = (format.advancers = 2)
    BY <1>1, <1>3
  <2>2. Bracket(tab) = [i \in 1..2 * format.groups |->
                          IF i % 2 = 1 THEN tab[(i + 1) \div 2][1]
                          ELSE tab[OtherGroup(Rival(i \div 2))][OtherPlace(Rival(i \div 2))]]
    BY <2>1 DEF Bracket, Rival, OtherGroup, OtherPlace
  <2>3. ASSUME NEW g \in 1..format.groups
        PROVE  /\ Bracket(tab)[2 * g - 1] = tab[g][1]
               /\ Bracket(tab)[2 * g] = tab[OtherGroup(Rival(g))][OtherPlace(Rival(g))]
    <3>1. /\ 2 * g - 1 \in 1..2 * format.groups /\ (2 * g - 1) % 2 = 1 /\ (2 * g - 1 + 1) \div 2 = g
          /\ 2 * g \in 1..2 * format.groups /\ (2 * g) % 2 = 0 /\ (2 * g) \div 2 = g
      BY <1>1
    <3> QED
      BY <2>2, <3>1
  <2>4. Bracket(tab) = [i \in 1..2 * format.groups |-> Bracket(tab)[i]]
    BY <2>2
  <2> QED
    BY <1>3, <2>3, <2>4
<1> QED
  BY <1>2, <1>3

\* The bracket has at least two teams, none twice.
LEMMA BracketFacts ==
  ASSUME Shape, NEW tab, Ranked(tab)
  PROVE  /\ Bracket(tab) \in Seq(Team) /\ Len(Bracket(tab)) >= 2 /\ Distinct(Bracket(tab))
         /\ Len(Bracket(tab)) = IF format.advancers = 1 THEN format.groups ELSE 2 * format.groups
<1>1. PICK n \in Nat \ {0} : n = format.groups
  BY ShapeFacts
<1>2. /\ 1 \in 1..format.size /\ format.advancers \in 1..format.size /\ format.size \in Nat
      /\ format.groups * format.advancers >= 2
  BY ShapeFacts DEF Shape, Valid
<1>3. PICK b : b = Bracket(tab)
  OBVIOUS
<1>4. CASE format.advancers = 1
  <2>1. b = [g \in 1..n |-> tab[g][1]]
    BY <1>1, <1>3, <1>4, BracketCells
  <2>2. \A g \in 1..n : b[g] = tab[g][1] /\ b[g] \in Team
    BY <1>1, <1>2, <2>1, RankedFacts
  <2>3. b \in [1..n -> Team]
    BY <2>1, <2>2
  <2>4. Len(b) = n /\ b \in Seq(Team)
    BY <2>3
  <2>5. Distinct(b)
    BY <1>1, <1>2, <2>2, <2>4, RankedFacts DEF Distinct
  <2>6. n >= 2
    BY <1>1, <1>2, <1>4
  <2> QED
    BY <1>1, <1>3, <1>4, <2>4, <2>5, <2>6
<1>5. CASE format.advancers # 1
  <2>1. ASSUME NEW g \in 1..n
        PROVE  /\ b[2 * g - 1] = tab[g][1] /\ b[2 * g] = tab[OtherGroup(Rival(g))][OtherPlace(Rival(g))]
               /\ Rival(g) \in 1..n /\ OtherGroup(Rival(g)) \in 1..n
               /\ OtherPlace(Rival(g)) \in 2..format.advancers
    <3>1. Rival(g) \in 1..n
      BY <1>1, RivalFacts
    <3>2. OtherGroup(Rival(g)) \in 1..n /\ OtherPlace(Rival(g)) \in 2..format.advancers
      BY <1>1, <1>5, <3>1, OtherFacts
    <3>3. b[2 * g - 1] = tab[g][1] /\ b[2 * g] = tab[OtherGroup(Rival(g))][OtherPlace(Rival(g))]
      BY <1>1, <1>3, <1>5, BracketCells
    <3> QED
      BY <3>1, <3>2, <3>3
  <2>2. 2..format.advancers \subseteq 1..format.size /\ 1 \notin 2..format.advancers
    BY <1>2
  <2>3. ASSUME NEW g \in 1..n PROVE b[2 * g - 1] \in Team /\ b[2 * g] \in Team
    <3>1. PICK o \in 1..format.groups, q \in 1..format.size :
              o = OtherGroup(Rival(g)) /\ q = OtherPlace(Rival(g))
      BY <1>1, <2>1, <2>2
    <3>2. tab[o][q] \in Team /\ tab[g][1] \in Team
      BY <1>1, <1>2, RankedFacts
    <3> QED
      BY <2>1, <3>1, <3>2
  <2>4. \A i \in 1..2 * n : b[i] \in Team
    <3>1. ASSUME NEW i \in 1..2 * n PROVE b[i] \in Team
      <4>1. \E g \in 1..n : i = 2 * g - 1 \/ i = 2 * g
        BY Parity
      <4> QED
        BY <2>3, <4>1
    <3> QED
      BY <3>1
  <2>5. b = [i \in 1..2 * n |-> b[i]]
    BY <1>1, <1>3, <1>5, BracketCells
  <2>6. b \in [1..2 * n -> Team]
    BY <2>4, <2>5
  <2>7. Len(b) = 2 * n /\ b \in Seq(Team)
    BY <2>6
  <2>8. ASSUME NEW g \in 1..n, NEW h \in 1..n
        PROVE  /\ b[2 * g - 1] = b[2 * h - 1] => g = h
               /\ b[2 * g] = b[2 * h] => g = h
               /\ b[2 * g - 1] # b[2 * h]
    <3>1. ASSUME b[2 * g - 1] = b[2 * h - 1] PROVE g = h
      <4>1. tab[g][1] = tab[h][1]
        BY <2>1, <3>1
      <4> QED
        BY <1>1, <1>2, <4>1, RankedFacts
    <3>2. b[2 * g - 1] # b[2 * h]
      <4>1. PICK o \in 1..format.groups, q \in 1..format.size :
              o = OtherGroup(Rival(h)) /\ q = OtherPlace(Rival(h)) /\ q # 1
        BY <1>1, <2>1, <2>2
      <4>2. tab[g][1] # tab[o][q]
        BY <1>1, <1>2, <4>1, RankedFacts
      <4> QED
        BY <2>1, <4>1, <4>2
    <3>3. ASSUME b[2 * g] = b[2 * h] PROVE g = h
      <4>1. /\ OtherPlace(Rival(h)) \in 1..format.size /\ OtherPlace(Rival(g)) \in 1..format.size
            /\ OtherGroup(Rival(h)) \in 1..format.groups /\ OtherGroup(Rival(g)) \in 1..format.groups
        BY <1>1, <2>1, <2>2
      <4>2. OtherGroup(Rival(g)) = OtherGroup(Rival(h)) /\ OtherPlace(Rival(g)) = OtherPlace(Rival(h))
        <5>1. PICK o, q \in 1..format.groups, u, v \in 1..format.size :
                /\ o = OtherGroup(Rival(g)) /\ q = OtherGroup(Rival(h))
                /\ u = OtherPlace(Rival(g)) /\ v = OtherPlace(Rival(h))
          BY <4>1
        <5>2. tab[o][u] = tab[q][v]
          BY <2>1, <3>3, <5>1
        <5> QED
          BY <5>1, <5>2, RankedFacts
      <4>3. Rival(g) = Rival(h)
        BY <1>1, <1>5, <2>1, <4>2, OtherFacts
      <4>4. Rival(Rival(g)) = g /\ Rival(Rival(h)) = h
        BY <1>1, RivalFacts
      <4> QED
        BY <4>3, <4>4
    <3> QED
      BY <3>1, <3>2, <3>3
  <2>9. Distinct(b)
    <3>1. ASSUME NEW i \in 1..2 * n, NEW j \in 1..2 * n, b[i] = b[j] PROVE i = j
      <4>1. PICK g \in 1..n : i = 2 * g - 1 \/ i = 2 * g
        BY Parity
      <4>2. PICK h \in 1..n : j = 2 * h - 1 \/ j = 2 * h
        BY Parity
      <4> QED
        BY <2>8, <3>1, <4>1, <4>2
    <3> QED
      BY <2>7, <3>1 DEF Distinct
  <2> QED
    BY <1>1, <1>3, <1>5, <2>7, <2>9
<1> QED
  BY <1>4, <1>5
-----------------------------------------------------------------------------
(* What depends on the format and the reports only *)

\* What depends on the format alone never changes.
LEMMA FormatFrame ==
  ASSUME format' = format
  PROVE  /\ Circle' = Circle /\ Rounds' = Rounds /\ WaveLength' = WaveLength /\ Team' = Team
         /\ MatchReport' = MatchReport
         /\ \A g : Group(g)' = Group(g)
         /\ \A r : GroupWave(r)' = GroupWave(r)
         /\ \A t : Bracket(t)' = Bracket(t)
<1>1. Circle' = Circle /\ Half' = Half
  BY DEF Circle, Half
<1>2. Rounds' = Rounds /\ WaveLength' = WaveLength /\ Team' = Team
  BY <1>1 DEF Rounds, WaveLength, Team, Teams
<1>3. \A g : Group(g)' = Group(g)
  BY DEF Group
<1>4. \A k, r : Place(k, r)' = Place(k, r)
  BY <1>1 DEF Place
<1>5. \A i, r : Pair(i, r)' = Pair(i, r)
  BY <1>1, <1>4 DEF Pair
<1>6. \A i, r : Paired(i, r)' = Paired(i, r)
  BY <1>5 DEF Paired
<1>7. \A i, r : PairOf(i, r)' = PairOf(i, r)
  BY <1>5, <1>6 DEF PairOf
<1>8. \A g, r, i : Fixture(g, r, i)' = Fixture(g, r, i)
  BY <1>1, <1>3, <1>7 DEF Fixture
<1>9. \A r : GroupWave(r)' = GroupWave(r)
  BY <1>1, <1>8 DEF GroupWave
<1>10. \A t : Bracket(t)' = Bracket(t)
  BY DEF Bracket
<1>11. MatchReport' = MatchReport
  BY DEF MatchReport, Teams
<1> QED
  BY <1>1, <1>2, <1>3, <1>9, <1>10, <1>11

\* What depends on the reports changes with them.
LEMMA ReportsFrame ==
  ASSUME reports' = reports
  PROVE  /\ \A s : Met(s)' = Met(s)
         /\ \A t : Knocked(t)' = Knocked(t)
         /\ \A t, i : Won(t, i)' = Won(t, i)
         /\ \A f, a, b : Final(f, a, b)' = Final(f, a, b)
<1>1. \A s : Met(s)' = Met(s)
  BY DEF Met
<1> QED
  BY <1>1 DEF Knocked, Won, Final

\* The rankings change only with the books.
LEMMA RankingsFrame ==
  ASSUME format' = format, record' = record, h2h' = h2h
  PROVE  \A g : Rankings(g)' = Rankings(g)
<1>1. \A a, b : Before(a, b)' = Before(a, b)
  BY DEF Before
<1> QED
  BY <1>1, FormatFrame DEF Rankings

\* Between the matches of a wave nothing is written; a failed run stops.
LEMMA Quiet ==
  ASSUME BracketInv, UNCHANGED <<format, round, books, tables, current, losers, podium>>,
         stage' = stage \/ stage' = "failed"
  PROVE  /\ Distinct(current)' /\ Distinct(losers)' /\ BrainsTrue'
         /\ Schedule' /\ Seeded' /\ Knockout'
<1> USE DEF BracketInv
<1>1. UNCHANGED <<format, round, reports, record, brain, h2h, tables, current, losers, podium>>
  BY DEF books
<1>2. Distinct(current)' /\ Distinct(losers)'
  BY <1>1
<1>3. BrainsTrue'
  BY <1>1, FormatFrame DEF BrainsTrue
<1>4. Schedule'
  <2>1. CASE stage' = stage
    <3>1. /\ GroupReports' = GroupReports /\ \A i : FromGroup(i)' = FromGroup(i)
      BY <1>1, <2>1, FormatFrame DEF GroupReports, FromGroup, RoundOf, IndexOf
    <3> QED
      BY <1>1, <2>1, <3>1 DEF Schedule
  <2>2. CASE stage' = "failed"
    BY <2>2 DEF Schedule
  <2> QED
    BY <2>1, <2>2
<1>5. Seeded'
  BY <1>1, FormatFrame, RankingsFrame DEF Seeded
<1>6. Knockout'
  <2>1. /\ \A s : Met(s)' = Met(s)
        /\ \A t : Knocked(t)' = Knocked(t)
        /\ \A t, i : Won(t, i)' = Won(t, i)
        /\ \A f, a, b : Final(f, a, b)' = Final(f, a, b)
    BY <1>1, ReportsFrame
  <2>2. NoComeback'
    BY <1>1, <2>1 DEF Knockout, NoComeback
  <2>3. Unbeaten'
    BY <1>1, <2>1 DEF Knockout, Unbeaten
  <2>4. LosersLost'
    <3>1. \A t : Beaten(t)' = Beaten(t)
      BY <1>1, <2>1 DEF Beaten
    <3> QED
      BY <1>1, <3>1 DEF Knockout, LosersLost
  <2>5. LastIsFinal'
    BY <1>1 DEF Knockout, LastIsFinal
  <2>6. Crowned'
    BY <1>1, <2>1 DEF Knockout, Crowned
  <2>7. ThirdTrue'
    BY <1>1, <2>1 DEF Knockout, ThirdTrue
  <2> QED
    BY <2>2, <2>3, <2>4, <2>5, <2>6, <2>7 DEF Knockout
<1> QED
  BY <1>2, <1>3, <1>4, <1>5, <1>6

-----------------------------------------------------------------------------
(* The waves *)

\* The next wave is one of teams, none twice.
LEMMA NextWaveFacts ==
  ASSUME BracketInv, stage \in {"group", "knockout", "third"}, stage = "group" => round < Rounds
  PROVE  NextWave \in Seq(Team \X Team) /\ Apart(NextWave)
<1>1. /\ Shape /\ round \in Nat /\ current \in Seq(Team) /\ losers \in Seq(Team)
      /\ Distinct(current) /\ Distinct(losers) /\ (stage = "third" => Len(losers) = 2)
  BY DEF BracketInv, BracketTypeOK, Shape, Team, WaveTrue
<1>2. CASE stage = "group"
  <2>1. Rounds \in Int
    BY <1>1, CircleFacts, ShapeFacts
  <2>2. round \in 0..Rounds - 1
    BY <1>1, <1>2, <2>1
  <2>3. NextWave = GroupWave(round)
    BY <1>2 DEF NextWave
  <2> QED
    BY <1>1, <2>2, <2>3, WaveApart
<1>3. CASE stage = "knockout"
  <2>1. NextWave = Pairs(current)
    BY <1>3 DEF NextWave
  <2>2. PICK n \in Nat : n = Len(current) \div 2 /\ 2 * n <= Len(current)
    <3>1. Len(current) \in Nat
      BY <1>1
    <3>2. Len(current) \div 2 \in Nat /\ 2 * (Len(current) \div 2) <= Len(current)
      BY <3>1
    <3> QED
      BY <3>2
  <2>3. Pairs(current) = [i \in 1..n |-> <<current[2 * i - 1], current[2 * i]>>]
    BY <2>2 DEF Pairs
  <2>4. ASSUME NEW i \in 1..n
        PROVE  /\ 2 * i - 1 \in 1..Len(current) /\ 2 * i \in 1..Len(current)
               /\ Pairs(current)[i] = <<current[2 * i - 1], current[2 * i]>>
               /\ current[2 * i - 1] \in Team /\ current[2 * i] \in Team
    <3>1. 2 * i - 1 \in 1..Len(current) /\ 2 * i \in 1..Len(current)
      BY <1>1, <2>2
    <3> QED
      BY <1>1, <2>3, <3>1
  <2>5. Pairs(current) \in [1..n -> Team \X Team]
    BY <2>3, <2>4
  <2>6. Pairs(current) \in Seq(Team \X Team) /\ Len(Pairs(current)) = n
    BY <2>5
  <2>7. ASSUME NEW i \in 1..n, NEW j \in 1..n
        PROVE  /\ Pairs(current)[i][1] # Pairs(current)[i][2]
               /\ i # j => {Pairs(current)[i][1], Pairs(current)[i][2]}
                             \cap {Pairs(current)[j][1], Pairs(current)[j][2]} = {}
    <3>1. 2 * i - 1 # 2 * i
      OBVIOUS
    <3>2. current[2 * i - 1] # current[2 * i]
      BY <1>1, <2>4, <3>1 DEF Distinct
    <3>3. ASSUME i # j
          PROVE  {current[2 * i - 1], current[2 * i]} \cap {current[2 * j - 1], current[2 * j]} = {}
      <4>1. 2 * i - 1 # 2 * j - 1 /\ 2 * i - 1 # 2 * j /\ 2 * i # 2 * j - 1 /\ 2 * i # 2 * j
        BY <3>3
      <4>2. /\ current[2 * i - 1] # current[2 * j - 1] /\ current[2 * i - 1] # current[2 * j]
            /\ current[2 * i] # current[2 * j - 1] /\ current[2 * i] # current[2 * j]
        BY <1>1, <2>4, <4>1 DEF Distinct
      <4> QED
        BY <4>2
    <3> QED
      BY <2>4, <3>2, <3>3
  <2>8. Apart(Pairs(current))
    BY <2>6, <2>7 DEF Apart
  <2> QED
    BY <2>1, <2>6, <2>8
<1>4. CASE stage = "third"
  <2>1. NextWave = <<losers>> /\ Len(losers) = 2
    BY <1>1, <1>4 DEF NextWave
  <2>2. losers \in Team \X Team /\ losers[1] # losers[2]
    <3>1. 1 \in 1..Len(losers) /\ 2 \in 1..Len(losers)
      BY <2>1
    <3>2. losers \in Team \X Team
      BY <1>1, <2>1, PairSeq
    <3>3. losers[1] # losers[2]
      BY <1>1, <3>1 DEF Distinct
    <3> QED
      BY <3>2, <3>3
  <2> QED
    BY <2>1, <2>2 DEF Apart
<1> QED
  BY <1>2, <1>3, <1>4

\* A wave that starts clones the brains as they are.
LEMMA StartWaveStep ==
  ASSUME BracketInv, StartWave
  PROVE  BracketInv'
<1>1. /\ UNCHANGED <<format, round, books, tables, current, losers, podium>> /\ stage' = stage
      /\ stage \in {"group", "knockout", "third"} /\ (stage = "group" => round < Rounds)
  BY DEF StartWave
<1>2. Distinct(current)' /\ Distinct(losers)' /\ BrainsTrue' /\ Schedule' /\ Seeded' /\ Knockout'
  BY <1>1, Quiet
<1>3. wave' = NextWave /\ wave' \in Seq(Team \X Team)
  BY <1>1, NextWaveFacts DEF StartWave
<1>4. PICK w : w = wave'
  OBVIOUS
<1>5. /\ inputs' = [i \in 1..Len(w) |-> <<brain[w[i][1]], brain[w[i][2]]>>]
      /\ outcomes' = [i \in 1..Len(w) |-> Nothing] /\ Len(w) \in Nat /\ w \in Seq(Team \X Team)
  <2>1. w \in Seq(Team \X Team)
    BY <1>3, <1>4
  <2>2. DOMAIN w = 1..Len(w) /\ Len(w) \in Nat
    BY <2>1
  <2> QED
    BY <1>4, <2>1, <2>2 DEF StartWave
<1>6. inputs' \in Seq(Nat \X Nat) /\ Len(inputs') = Len(w)
  <2>1. \A i \in 1..Len(w) : brain[w[i][1]] \in Nat /\ brain[w[i][2]] \in Nat
    BY <1>5, SMTT(30) DEF BracketInv, BracketTypeOK, Team
  <2>2. inputs' \in [1..Len(w) -> Nat \X Nat]
    BY <1>5, <2>1
  <2>3. Len(w) \in Nat
    BY <1>5
  <2> QED
    BY <2>2, <2>3, FunctionSeq
<1>7. outcomes' \in Seq(Scores \union {Nothing, Error}) /\ Len(outcomes') = Len(w)
  <2>1. outcomes' \in [1..Len(w) -> Scores \union {Nothing, Error}]
    BY <1>5
  <2> QED
    BY <1>5, <2>1
<1>8. BracketTypeOK'
  BY <1>1, <1>3, <1>6, <1>7, FormatFrame DEF BracketInv, BracketTypeOK, books, Team
<1>9. WaveTrue'
  <2>1. NextWave' = NextWave
    BY <1>1, FormatFrame DEF NextWave
  <2>2. \A i \in 1..Len(w) : inputs'[i] = <<brain[w[i][1]], brain[w[i][2]]>>
    BY <1>5
  <2>3. brain' = brain
    BY <1>1 DEF books
  <2>4. Rounds' = Rounds
    BY <1>1, FormatFrame
  <2> QED
    BY <1>1, <1>3, <1>4, <1>6, <1>7, <2>1, <2>2, <2>3, <2>4 DEF WaveTrue, BracketInv, StartWave
<1> QED
  BY <1>2, <1>8, <1>9 DEF BracketInv

\* A failed run claims no more than its books.
LEMMA FailStep ==
  ASSUME BracketInv, Stop \/ WaveFails
  PROVE  BracketInv'
<1>1. /\ UNCHANGED <<format, round, books, tables, current, losers, podium>> /\ stage' = "failed"
      /\ wave' = <<>> /\ inputs' = <<>> /\ outcomes' = <<>>
  BY DEF Stop, WaveFails, Fail
<1>2. Distinct(current)' /\ Distinct(losers)' /\ BrainsTrue' /\ Schedule' /\ Seeded' /\ Knockout'
  BY <1>1, Quiet
<1>3. BracketTypeOK'
  BY <1>1, FormatFrame DEF BracketInv, BracketTypeOK, books, Team
<1>4. WaveTrue'
  BY <1>1 DEF WaveTrue
<1> QED
  BY <1>2, <1>3, <1>4 DEF BracketInv

\* The end of a match changes its outcome only.
LEMMA EndMatchStep ==
  ASSUME BracketInv, NEW i \in DOMAIN wave, EndMatch(i)
  PROVE  BracketInv'
<1>1. /\ UNCHANGED <<format, round, books, tables, current, losers, podium, stage, wave, inputs>>
  BY DEF EndMatch
<1>2. Distinct(current)' /\ Distinct(losers)' /\ BrainsTrue' /\ Schedule' /\ Seeded' /\ Knockout'
  BY <1>1, Quiet
<1>3. PICK o \in Scores \union {Error} : outcomes' = [outcomes EXCEPT ![i] = o]
  BY DEF EndMatch
<1>4. outcomes \in Seq(Scores \union {Nothing, Error}) /\ i \in 1..Len(outcomes)
  BY DEF BracketInv, BracketTypeOK, WaveTrue
<1>5. outcomes' \in Seq(Scores \union {Nothing, Error}) /\ Len(outcomes') = Len(outcomes)
  BY <1>3, <1>4
<1>6. BracketTypeOK'
  BY <1>1, <1>5, FormatFrame DEF BracketInv, BracketTypeOK, books, Team
<1>7. WaveTrue'
  <2>1. NextWave' = NextWave /\ Rounds' = Rounds /\ brain' = brain
    BY <1>1, FormatFrame DEF NextWave, books
  <2> QED
    BY <1>1, <1>5, <2>1 DEF WaveTrue, BracketInv
<1> QED
  BY <1>2, <1>6, <1>7 DEF BracketInv
-----------------------------------------------------------------------------
(* A wave that was played *)

\* When all the matches of a wave are played each has a score.
LEMMA PlayedFacts ==
  ASSUME BracketInv, Played
  PROVE  /\ Len(wave) \in Nat \ {0} /\ wave \in Seq(Team \X Team) /\ Apart(wave)
         /\ DOMAIN wave = 1..Len(wave)
         /\ \A i \in 1..Len(wave) :
                /\ wave[i][1] \in Team /\ wave[i][2] \in Team
                /\ wave[i] = <<wave[i][1], wave[i][2]>>
         /\ \A i \in 1..Len(wave) : outcomes[i] \in Scores /\ outcomes[i] \in Nat \X Nat
         /\ stage \in {"group", "knockout", "third"} /\ wave = NextWave
         /\ (stage = "group" => round < Rounds)
         /\ \A i \in 1..Len(wave) : inputs[i] = <<brain[wave[i][1]], brain[wave[i][2]]>>
<1>1. wave \in Seq(Team \X Team) /\ wave # <<>>
  BY DEF BracketInv, BracketTypeOK, Team, Played
<1>2. Len(wave) \in Nat \ {0} /\ DOMAIN wave = 1..Len(wave)
  BY <1>1
<1>3. /\ stage \in {"group", "knockout", "third"} /\ wave = NextWave /\ (stage = "group" => round < Rounds)
      /\ \A i \in 1..Len(wave) : inputs[i] = <<brain[wave[i][1]], brain[wave[i][2]]>>
  BY <1>1 DEF BracketInv, WaveTrue
<1>4. Apart(wave)
  BY <1>3, NextWaveFacts
<1>5. ASSUME NEW i \in 1..Len(wave) PROVE outcomes[i] \in Scores /\ outcomes[i] \in Nat \X Nat
  <2>1. outcomes \in Seq(Scores \union {Nothing, Error}) /\ i \in 1..Len(outcomes)
    BY DEF BracketInv, BracketTypeOK, WaveTrue
  <2>2. outcomes[i] \in Scores \union {Nothing, Error}
    BY <2>1
  <2>3. outcomes[i] \notin {Nothing, Error}
    BY <1>2 DEF Played
  <2> QED
    BY <2>2, <2>3, BracketAssumption
<1>6. \A i \in 1..Len(wave) :
          /\ wave[i][1] \in Team /\ wave[i][2] \in Team
          /\ wave[i] = <<wave[i][1], wave[i][2]>>
  BY <1>1
<1> QED
  BY <1>1, <1>2, <1>3, <1>4, <1>5, <1>6

NewReport(k, w) ==
  [stage |-> stage, round |-> round, home |-> wave[k][1], away |-> wave[k][2],
   score |-> outcomes[k], winner |-> w]

\* The reports of the wave come after those there were.
Grown(winners) ==
  /\ Len(reports') = Len(reports) + Len(wave)
  /\ \A i \in 1..Len(reports) : reports'[i] = reports[i]
  /\ \A k \in 1..Len(wave) : reports'[Len(reports) + k] = NewReport(k, winners[k])

\* A commit keeps the books well typed, and appends the wave to the reports.
LEMMA CommitFacts ==
  ASSUME BracketInv, Played, format' = format,
         NEW winners \in [1..Len(wave) -> Team \union {Nothing}], Commit(winners)
  PROVE  /\ record' \in [Team -> TeamRecord] /\ brain' \in [Team -> Nat] /\ BrainsTrue'
         /\ wave' = <<>> /\ inputs' = <<>> /\ outcomes' = <<>>
         /\ reports' \in Seq(MatchReport) /\ Grown(winners)
<1>1. /\ Len(wave) \in Nat \ {0} /\ wave \in Seq(Team \X Team) /\ Apart(wave) /\ DOMAIN wave = 1..Len(wave)
      /\ \A i \in 1..Len(wave) : outcomes[i] \in Nat \X Nat
      /\ stage \in {"group", "knockout", "third"}
      /\ \A i \in 1..Len(wave) : wave[i][1] \in Team /\ wave[i][2] \in Team
      /\ \A i \in 1..Len(wave) : inputs[i] = <<brain[wave[i][1]], brain[wave[i][2]]>>
  BY PlayedFacts
<1>2. Books([record |-> record, brain |-> brain]) /\ Ahead([record |-> record, brain |-> brain], 0)
  <2>1. Books([record |-> record, brain |-> brain])
    BY DEF BracketInv, BracketTypeOK, BrainsTrue, Books, Team
  <2>2. Ahead([record |-> record, brain |-> brain], 0)
    BY <1>1 DEF Ahead
  <2> QED
    BY <2>1, <2>2
<1>3. Books(Committed)
  BY <1>1, <1>2, CommittedFacts
<1>4. /\ record' = Committed.record /\ brain' = Committed.brain /\ wave' = <<>> /\ inputs' = <<>>
      /\ outcomes' = <<>>
  BY DEF Commit
<1>5. record' \in [Team -> TeamRecord] /\ brain' \in [Team -> Nat] /\ BrainsTrue'
  BY <1>3, <1>4, FormatFrame DEF Books, BrainsTrue
<1>6. PICK n \in Nat : n = Len(wave)
  BY <1>1
<1>7. PICK new : new = [k \in 1..n |-> NewReport(k, winners[k])]
  OBVIOUS
<1>8. reports' = reports \o new
  BY <1>6, <1>7 DEF Commit, NewReport
<1>9. new \in Seq(MatchReport) /\ Len(new) = n
  <2>1. ASSUME NEW k \in 1..n PROVE NewReport(k, winners[k]) \in MatchReport
    <3>1. /\ round \in Nat /\ wave[k][1] \in Team /\ wave[k][2] \in Team /\ outcomes[k] \in Nat \X Nat
          /\ winners[k] \in Team \union {Nothing}
      BY <1>1, <1>6 DEF BracketInv, BracketTypeOK
    <3> QED
      BY <1>1, <3>1 DEF NewReport, MatchReport, Team
  <2>2. new \in [1..n -> MatchReport]
    BY <1>7, <2>1
  <2> QED
    BY <2>2, FunctionSeq
<1>10. reports \in Seq(MatchReport)
  BY DEF BracketInv, BracketTypeOK
<1>11. reports' \in Seq(MatchReport)
  BY <1>8, <1>9, <1>10
<1>12. Grown(winners)
  <2>1. Len(reports') = Len(reports) + n
    <3>1. Len(reports \o new) = Len(reports) + n
      BY <1>9, <1>10
    <3> QED
      BY <1>8, <3>1
  <2>2. ASSUME NEW i \in 1..Len(reports) PROVE reports'[i] = reports[i]
    <3>1. (reports \o new)[i] = reports[i]
      BY <1>9, <1>10
    <3> QED
      BY <1>8, <3>1
  <2>3. ASSUME NEW k \in 1..n PROVE reports'[Len(reports) + k] = NewReport(k, winners[k])
    <3>1. reports'[Len(reports) + k] = new[k]
      BY <1>8, <1>9, <1>10
    <3> QED
      BY <1>7, <3>1
  <2> QED
    BY <1>6, <2>1, <2>2, <2>3 DEF Grown
<1> QED
  BY <1>4, <1>5, <1>11, <1>12

\* The reports of the stages, when those of a wave are appended.
LEMMA GrownFacts ==
  ASSUME BracketInv, Played, NEW winners, reports' \in Seq(MatchReport), Grown(winners)
  PROVE  /\ Len(reports) \in Nat
         /\ \A i \in 1..Len(reports') : i \in 1..Len(reports) \/ \E k \in 1..Len(wave) : i = Len(reports) + k
         /\ \A k \in 1..Len(wave) :
              /\ Len(reports) + k \in 1..Len(reports') /\ Len(reports) + k > Len(reports)
              /\ reports'[Len(reports) + k].home = wave[k][1]
              /\ reports'[Len(reports) + k].away = wave[k][2]
              /\ reports'[Len(reports) + k].stage = stage /\ reports'[Len(reports) + k].winner = winners[k]
              /\ reports'[Len(reports) + k].round = round
         /\ \A s, i : i \in Met(s)' <=>
              \/ i \in Met(s)
              \/ s = stage /\ \E k \in 1..Len(wave) : i = Len(reports) + k
         /\ \A i \in 1..Len(reports) : \A t :
              (i \in Knocked(t)' <=> i \in Knocked(t)) /\ (Won(t, i)' <=> Won(t, i))
<1>1. PICK m \in Nat, n \in Nat : m = Len(reports) /\ n = Len(wave) /\ DOMAIN reports = 1..m
  <2>1. reports \in Seq(MatchReport)
    BY DEF BracketInv, BracketTypeOK
  <2>2. Len(reports) \in Nat /\ DOMAIN reports = 1..Len(reports)
    BY <2>1
  <2>3. Len(wave) \in Nat
    BY PlayedFacts
  <2> QED
    BY <2>2, <2>3
<1>2. /\ Len(reports') = m + n /\ \A i \in 1..m : reports'[i] = reports[i]
      /\ \A k \in 1..n : reports'[m + k] = NewReport(k, winners[k])
  BY <1>1 DEF Grown
<1>3. DOMAIN reports' = 1..m + n
  <2>1. DOMAIN reports' = 1..Len(reports')
    OBVIOUS
  <2> QED
    BY <1>2, <2>1
<1>4. ASSUME NEW i \in 1..m + n PROVE i \in 1..m \/ \E k \in 1..n : i = m + k
  <2>1. CASE i > m
    <3>1. i - m \in 1..n /\ i = m + (i - m)
      BY <2>1
    <3> QED
      BY <3>1
  <2> QED
    BY <2>1
<1>5. ASSUME NEW k \in 1..n
      PROVE  /\ m + k \in 1..m + n /\ m + k > m
             /\ reports'[m + k].home = wave[k][1] /\ reports'[m + k].away = wave[k][2]
             /\ reports'[m + k].stage = stage /\ reports'[m + k].winner = winners[k]
             /\ reports'[m + k].round = round
  <2>1. reports'[m + k] = NewReport(k, winners[k])
    BY <1>2
  <2> QED
    BY <2>1 DEF NewReport
<1>6. ASSUME NEW s, NEW i
      PROVE  i \in Met(s)' <=> \/ i \in Met(s)
                               \/ s = stage /\ \E k \in 1..n : i = m + k
  <2>1. i \in Met(s)' <=> i \in 1..m + n /\ reports'[i].stage = s
    BY <1>3 DEF Met
  <2>2. i \in Met(s) <=> i \in 1..m /\ reports[i].stage = s
    BY <1>1 DEF Met
  <2>3. CASE i \in 1..m
    <3>1. i \in 1..m + n /\ \A k \in 1..n : i # m + k
      BY <2>3
    <3> QED
      BY <1>2, <2>1, <2>2, <2>3, <3>1
  <2>4. CASE i \in 1..m + n /\ i \notin 1..m
    <3>1. PICK k \in 1..n : i = m + k
      BY <1>4, <2>4
    <3> QED
      BY <1>5, <2>1, <2>2, <2>4, <3>1
  <2>5. CASE i \notin 1..m + n
    <3>1. i \notin 1..m /\ \A k \in 1..n : i # m + k
      BY <1>5, <2>5
    <3> QED
      BY <2>1, <2>2, <2>5, <3>1
  <2> QED
    BY <2>3, <2>4, <2>5
<1>7. ASSUME NEW i \in 1..m, NEW t
      PROVE  (i \in Knocked(t)' <=> i \in Knocked(t)) /\ (Won(t, i)' <=> Won(t, i))
  <2>1. reports'[i] = reports[i]
    BY <1>2
  <2>2. i \in Met("knockout")' <=> i \in Met("knockout")
    <3>1. \A k \in 1..n : i # m + k
      OBVIOUS
    <3> QED
      BY <1>6, <3>1
  <2>3. i \in Knocked(t)' <=> i \in Met("knockout")' /\ t \in {reports'[i].home, reports'[i].away}
    BY DEF Knocked
  <2>4. i \in Knocked(t) <=> i \in Met("knockout") /\ t \in {reports[i].home, reports[i].away}
    BY DEF Knocked
  <2>5. Won(t, i)' <=> Won(t, i)
    BY <2>1 DEF Won
  <2> QED
    BY <2>1, <2>2, <2>3, <2>4, <2>5
<1> QED
  BY <1>1, <1>2, <1>4, <1>5, <1>6, <1>7
-----------------------------------------------------------------------------
(* The group stage *)

\* A wave of the groups has a match, and as many in every round.
LEMMA WaveLengthFacts ==
  ASSUME Shape
  PROVE  WaveLength \in Nat \ {0} /\ Rounds \in Nat \ {0}
<1>1. format.groups \in Nat \ {0} /\ Half \in Nat \ {0} /\ format.size \in Nat /\ format.size >= 2
  BY ShapeFacts, CircleFacts
<1>2. WaveLength \in Nat \ {0}
  <2>1. PICK a, b \in Nat \ {0} : a = format.groups /\ b = Half
    BY <1>1
  <2>2. a * b \in Nat \ {0}
    OBVIOUS
  <2> QED
    BY <2>1, <2>2 DEF WaveLength
<1>3. Rounds \in Nat \ {0}
  BY <1>1, ShapeFacts, CircleFacts
<1> QED
  BY <1>2, <1>3

\* In the group stage there are no other reports.
LEMMA NoKnockoutYet ==
  ASSUME BracketInv, stage = "group"
  PROVE  Met("knockout") = {} /\ Met("third") = {} /\ Len(losers) = 0 /\ podium.third = Nothing
<1>1. \A i \in 1..Len(reports) : reports[i].stage = "group"
  <2>1. Len(reports) = GroupReports /\ Len(reports) \in Nat
    BY DEF BracketInv, BracketTypeOK, Schedule
  <2> QED
    BY <2>1 DEF BracketInv, Schedule, FromGroup
<1>2. DOMAIN reports = 1..Len(reports)
  BY DEF BracketInv, BracketTypeOK
<1>3. Met("knockout") = {} /\ Met("third") = {}
  BY <1>1, <1>2 DEF Met
<1>4. Len(losers) = 0
  <2>1. \A t : ~Beaten(t)
    BY <1>3 DEF Beaten, Knocked
  <2>2. Len(losers) \in Nat
    BY DEF BracketInv, BracketTypeOK
  <2> QED
    BY <2>1, <2>2 DEF BracketInv, Knockout, LosersLost
<1>5. podium.third = Nothing
  BY DEF BracketInv, Knockout, ThirdTrue
<1> QED
  BY <1>3, <1>4, <1>5

\* The groups have no report of the knockout.
LEMMA StillNoKnockout ==
  ASSUME BracketInv, stage = "group", stage' \in {"group", "knockout"}, losers' = losers, podium' = podium,
         Met("knockout")' = {}, Met("third")' = {},
         stage' = "knockout" => Len(current') >= 2
  PROVE  Knockout'
<1>1. Len(losers) = 0 /\ podium.third = Nothing
  BY NoKnockoutYet
<1>2. \A t : Knocked(t)' = {}
  BY DEF Knocked
<1>3. NoComeback' /\ Unbeaten' /\ LosersLost'
  BY <1>1, <1>2 DEF NoComeback, Unbeaten, LosersLost
<1>4. LastIsFinal'
  <2>1. SUFFICES ASSUME stage' = "knockout", Len(current') <= 1 PROVE FALSE
    BY DEF LastIsFinal
  <2>2. PICK n : n = Len(current') /\ n >= 2 /\ n <= 1
    BY <2>1
  <2> QED
    BY <2>2
<1>5. Crowned' /\ ThirdTrue'
  BY <1>1 DEF Crowned, ThirdTrue
<1> QED
  BY <1>3, <1>4, <1>5 DEF Knockout

\* A round of the groups appends the wave of its number.
LEMMA GroupRoundStep ==
  ASSUME BracketInv, CommitGroupRound
  PROVE  BracketInv'
<1>1. /\ stage = "group" /\ Played /\ format' = format /\ stage' = stage /\ tables' = tables
      /\ current' = current /\ losers' = losers /\ podium' = podium /\ round' = round + 1
  BY DEF CommitGroupRound
<1>2. /\ Len(wave) \in Nat \ {0} /\ wave \in Seq(Team \X Team) /\ DOMAIN wave = 1..Len(wave)
      /\ \A i \in 1..Len(wave) :
             /\ wave[i][1] \in Team /\ wave[i][2] \in Team
             /\ wave[i] = <<wave[i][1], wave[i][2]>>
      /\ \A i \in 1..Len(wave) : outcomes[i] \in Scores
      /\ wave = GroupWave(round) /\ round < Rounds
  BY <1>1, PlayedFacts DEF NextWave
<1>3. PICK w : w = [i \in 1..Len(wave) |-> Nothing]
  OBVIOUS
<1>4. w \in [1..Len(wave) -> Team \union {Nothing}] /\ Commit(w)
  BY <1>2, <1>3 DEF CommitGroupRound
<1>5. /\ record' \in [Team -> TeamRecord] /\ brain' \in [Team -> Nat] /\ BrainsTrue'
      /\ wave' = <<>> /\ inputs' = <<>> /\ outcomes' = <<>>
      /\ reports' \in Seq(MatchReport) /\ Grown(w)
  BY <1>1, <1>4, CommitFacts
<1>6. h2h' \in Seq((Team \X Team) \X Scores)
  <2>1. PICK g : g = [i \in 1..Len(wave) |-> <<wave[i], outcomes[i]>>]
    OBVIOUS
  <2>2. g \in [1..Len(wave) -> (Team \X Team) \X Scores]
    BY <1>2, <2>1
  <2>3. g \in Seq((Team \X Team) \X Scores)
    BY <1>2, <2>2, FunctionSeq
  <2>4. h2h \in Seq((Team \X Team) \X Scores)
    BY DEF BracketInv, BracketTypeOK, Team
  <2>5. h2h' = h2h \o g
    BY <1>2, <2>1 DEF CommitGroupRound
  <2>6. h2h \o g \in Seq((Team \X Team) \X Scores)
    BY <2>3, <2>4
  <2> QED
    BY <2>5, <2>6
<1>7. BracketTypeOK'
  BY <1>1, <1>5, <1>6, FormatFrame DEF BracketInv, BracketTypeOK, Team
<1>8. Shape /\ round \in Nat
  BY DEF BracketInv, BracketTypeOK, Shape
<1>9. WaveTrue'
  <2>1. Rounds \in Nat /\ Rounds' = Rounds
    BY <1>1, <1>8, WaveLengthFacts, FormatFrame
  <2>2. round + 1 <= Rounds
    BY <1>2, <1>8, <2>1
  <2> QED
    BY <1>1, <1>5, <2>1, <2>2 DEF WaveTrue, BracketInv
<1>10. Schedule'
  <2>1. PICK m \in Nat, h \in Nat \ {0} : m = Len(reports) /\ h = WaveLength
    BY <1>8, WaveLengthFacts DEF BracketInv, BracketTypeOK
  <2>2. m = round * h /\ Len(wave) = h /\ m + h = (round + 1) * h
    <3>1. m = round * h
      BY <1>1, <2>1 DEF BracketInv, Schedule, GroupReports
    <3>2. Len(wave) = h
      BY <1>2, <1>8, <2>1, WaveFacts
    <3> QED
      BY <1>8, <3>1, <3>2
  <2>3. Len(reports') = m + h /\ GroupReports' = m + h
    BY <1>1, <1>5, <2>1, <2>2, FormatFrame DEF Grown, GroupReports
  <2>4. ASSUME NEW i \in 1..m PROVE FromGroup(i)'
    <3>1. FromGroup(i)
      BY <1>1, <2>1 DEF BracketInv, Schedule
    <3>2. reports'[i] = reports[i]
      BY <1>5, <2>1 DEF Grown
    <3> QED
      BY <1>1, <3>1, <3>2, FormatFrame DEF FromGroup, RoundOf, IndexOf
  <2>5. ASSUME NEW k \in 1..h PROVE FromGroup(m + k)'
    <3>1. PICK g \in 1..round + 1, i \in 1..m + h : g = round + 1 /\ i = m + k /\ i = (g - 1) * h + k
      BY <1>8, <2>2
    <3>2. (i - 1) \div h = g - 1 /\ (i - 1) % h = k - 1
      BY <1>8, <3>1, BlockAt
    <3>3. RoundOf(i)' = round /\ IndexOf(i)' = k
      <4>1. WaveLength' = h
        BY <1>1, <2>1, FormatFrame
      <4> QED
        BY <1>8, <3>1, <3>2, <4>1 DEF RoundOf, IndexOf
    <3>4. /\ reports'[m + k].home = wave[k][1] /\ reports'[m + k].away = wave[k][2]
          /\ reports'[m + k].stage = stage
      BY <1>1, <1>5, <2>1, <2>2, GrownFacts
    <3>5. wave[k] = GroupWave(round)[k] /\ wave[k] = <<wave[k][1], wave[k][2]>>
      BY <1>2, <2>2
    <3> QED
      BY <1>1, <3>1, <3>3, <3>4, <3>5, FormatFrame DEF FromGroup
  <2>6. ASSUME NEW i \in 1..m + h PROVE FromGroup(i)'
    <3>1. CASE i \in 1..m
      BY <2>4, <3>1
    <3>2. CASE i \notin 1..m
      <4>1. PICK k \in 1..h : k = i - m
        BY <3>2
      <4>2. i = m + k
        BY <4>1
      <4> QED
        BY <2>5, <4>2
    <3> QED
      BY <3>1, <3>2
  <2> QED
    BY <1>1, <2>1, <2>3, <2>6 DEF Schedule
<1>11. Seeded'
  BY <1>1 DEF Seeded
<1>12. Knockout'
  <2>1. Met("knockout") = {} /\ Met("third") = {}
    BY <1>1, NoKnockoutYet
  <2>2. Met("knockout")' = {} /\ Met("third")' = {}
    <3>1. ASSUME NEW s \in {"knockout", "third"}, NEW i PROVE i \notin Met(s)'
      <4>1. s # stage /\ i \notin Met(s)
        BY <1>1, <2>1
      <4> QED
        BY <1>1, <1>5, <4>1, GrownFacts
    <3> QED
      BY <3>1
  <2> QED
    BY <1>1, <2>2, StillNoKnockout
<1>13. Distinct(current)' /\ Distinct(losers)'
  BY <1>1 DEF BracketInv
<1> QED
  BY <1>5, <1>7, <1>9, <1>10, <1>11, <1>12, <1>13 DEF BracketInv

\* The bracket has every team at most once.
LEMMA SeedStep ==
  ASSUME BracketInv, SeedBracket
  PROVE  BracketInv'
<1>1. /\ stage = "group" /\ round = Rounds /\ wave = <<>> /\ stage' = "knockout" /\ round' = 0
      /\ UNCHANGED <<format, wave, inputs, outcomes, reports, record, brain, h2h, losers, podium>>
      /\ current' = Bracket(tables')
  BY DEF SeedBracket, playing, books
<1>2. PICK tab : tab = tables' /\ Ranked(tab)
  BY DEF SeedBracket, Ranked
<1>3. Shape
  BY DEF BracketInv, BracketTypeOK, Shape
<1>4. PICK b : b = current' /\ b \in Seq(Team) /\ Len(b) >= 2 /\ Distinct(b)
  BY <1>1, <1>2, <1>3, BracketFacts
<1>5. tab \in [1..format.groups -> [1..format.size -> Team]]
  <2>1. \A g \in 1..format.groups : tab[g] \in [1..format.size -> Team]
    BY <1>2, <1>3, RankingFacts DEF Ranked
  <2>2. tab = [g \in 1..format.groups |-> tab[g]]
    BY <1>2 DEF SeedBracket
  <2> QED
    BY <2>1, <2>2
<1>6. BracketTypeOK'
  BY <1>1, <1>2, <1>4, <1>5, FormatFrame DEF BracketInv, BracketTypeOK, Team
<1>7. WaveTrue'
  BY <1>1 DEF WaveTrue, BracketInv
<1>8. Schedule'
  <2>1. GroupReports' = GroupReports /\ \A i : FromGroup(i)' = FromGroup(i)
    BY <1>1, FormatFrame DEF GroupReports, FromGroup, RoundOf, IndexOf
  <2> QED
    BY <1>1, <2>1 DEF Schedule, BracketInv
<1>9. Seeded'
  <2>1. \A g : Rankings(g)' = Rankings(g)
    BY <1>1, RankingsFrame
  <2>2. Bracket(tab)' = Bracket(tab)
    BY <1>1, FormatFrame
  <2> QED
    BY <1>1, <1>2, <2>1, <2>2 DEF Seeded, Ranked
<1>10. Knockout'
  <2>1. Met("knockout") = {} /\ Met("third") = {}
    BY <1>1, NoKnockoutYet
  <2>2. Met("knockout")' = {} /\ Met("third")' = {}
    BY <1>1, <2>1, ReportsFrame
  <2> QED
    BY <1>1, <1>4, <2>2, StillNoKnockout
<1>11. BrainsTrue'
  BY <1>1, FormatFrame DEF BrainsTrue, BracketInv
<1>12. Distinct(current)' /\ Distinct(losers)'
  BY <1>1, <1>4 DEF BracketInv
<1> QED
  BY <1>6, <1>7, <1>8, <1>9, <1>10, <1>11, <1>12 DEF BracketInv
-----------------------------------------------------------------------------
(* The knockout *)

\* The reports are filed as before, and those of the wave are not of groups.
LEMMA ScheduleGrows ==
  ASSUME BracketInv, stage \in {"knockout", "third"}, stage' # "group", format' = format, Played,
         reports' \in Seq(MatchReport), NEW w, Grown(w)
  PROVE  Schedule'
<1>1. PICK m \in Nat : m = Len(reports)
  BY GrownFacts
<1>2. GroupReports' = GroupReports /\ GroupReports \in Nat /\ GroupReports <= m
  <2>1. GroupReports = Rounds * WaveLength /\ GroupReports' = GroupReports
    BY FormatFrame DEF GroupReports
  <2>2. Rounds \in Nat /\ WaveLength \in Nat
    BY WaveLengthFacts DEF BracketInv, BracketTypeOK, Shape
  <2>3. GroupReports \in Nat
    <3>1. PICK a \in Nat, b \in Nat : a = Rounds /\ b = WaveLength
      BY <2>2
    <3> QED
      BY <2>1, <3>1
  <2>4. GroupReports <= m
    BY <1>1 DEF BracketInv, Schedule
  <2> QED
    BY <2>1, <2>3, <2>4
<1>3. ASSUME NEW i \in 1..m
      PROVE  /\ i <= GroupReports => FromGroup(i)'
             /\ i > GroupReports => reports'[i].stage # "group"
  <2>1. reports'[i] = reports[i]
    BY <1>1 DEF Grown
  <2>2. /\ i <= GroupReports => FromGroup(i)
        /\ i > GroupReports => reports[i].stage # "group"
    BY <1>1, <1>2 DEF BracketInv, Schedule
  <2>3. FromGroup(i) => FromGroup(i)'
    BY <2>1, FormatFrame DEF FromGroup, RoundOf, IndexOf
  <2> QED
    BY <2>1, <2>2, <2>3
<1>4. ASSUME NEW i \in 1..Len(reports'), i \notin 1..m PROVE i > GroupReports /\ reports'[i].stage # "group"
  <2>1. PICK k \in 1..Len(wave) : i = m + k
    BY <1>1, <1>4, GrownFacts
  <2>2. reports'[i].stage = stage /\ i > m
    BY <1>1, <2>1, GrownFacts
  <2> QED
    BY <1>2, <2>2
<1>5. Len(reports') >= m
  BY <1>1, PlayedFacts DEF Grown
<1>6. Len(reports') >= GroupReports
  <2>1. PICK n \in Nat, g \in Nat : n = Len(reports') /\ g = GroupReports
    BY <1>2
  <2> QED
    BY <1>1, <1>2, <1>5, <2>1
<1>7. ASSUME NEW i \in 1..Len(reports')
      PROVE  IF i <= GroupReports THEN FromGroup(i)' ELSE reports'[i].stage # "group"
  <2>1. CASE i \in 1..m
    BY <1>2, <1>3, <2>1
  <2>2. CASE i \notin 1..m
    BY <1>2, <1>4, <2>2
  <2> QED
    BY <2>1, <2>2
<1> QED
  BY <1>2, <1>6, <1>7 DEF Schedule

\* Of a knockout wave: those who play it are left in the bracket.
LEMMA KnockoutWave ==
  ASSUME BracketInv, stage = "knockout", Played
  PROVE  /\ Len(current) = 2 * Len(wave)
         /\ \A k \in 1..Len(wave) : \A x : x \in {wave[k][1], wave[k][2]} => \A i \in Knocked(x) : Won(x, i)
<1>1. /\ Len(wave) \in Nat \ {0} /\ wave = Pairs(current) /\ wave # <<>>
  BY PlayedFacts DEF NextWave, Played
<1>2. Len(current) \in Nat /\ Len(current) % 2 = 0
  BY <1>1 DEF BracketInv, BracketTypeOK, WaveTrue
<1>3. PICK n \in Nat : n = Len(current) \div 2 /\ Len(current) = 2 * n
  <2>1. PICK c \in Nat : c = Len(current) /\ c % 2 = 0
    BY <1>2
  <2>2. c = 2 * (c \div 2) /\ c \div 2 \in Nat
    BY <2>1
  <2> QED
    BY <2>1, <2>2
<1>4. Pairs(current) = [i \in 1..n |-> <<current[2 * i - 1], current[2 * i]>>]
  BY <1>3 DEF Pairs
<1>5. Len(wave) = n
  BY <1>1, <1>4
<1>6. ASSUME NEW k \in 1..n, NEW x \in {wave[k][1], wave[k][2]}
      PROVE  \A i \in Knocked(x) : Won(x, i)
  <2>1. wave[k] = <<current[2 * k - 1], current[2 * k]>>
    BY <1>1, <1>4
  <2>2. 2 * k - 1 \in 1..Len(current) /\ 2 * k \in 1..Len(current)
    BY <1>3
  <2>3. PICK c \in 1..Len(current) : x = current[c]
    BY <2>1, <2>2
  <2> QED
    BY <2>3 DEF BracketInv, Knockout, Unbeaten
<1> QED
  BY <1>3, <1>5, <1>6

\* What a knockout round makes of the reports.
LEMMA KnockoutReports ==
  ASSUME BracketInv, stage = "knockout", Played, reports' \in Seq(MatchReport), NEW w, Grown(w),
         \A k \in 1..Len(wave) : w[k] \in {wave[k][1], wave[k][2]}
  PROVE  /\ NoComeback'
         /\ \A k \in 1..Len(wave) : \A i \in Knocked(w[k])' : Won(w[k], i)'
         /\ \A k \in 1..Len(wave) : \A t \in {wave[k][1], wave[k][2]} :
              t # w[k] => \E i \in Knocked(t)' : ~Won(t, i)' /\ reports'[i].round = round
         /\ \A t : \A i \in Knocked(t) : ~Won(t, i) =>
              /\ i \in Knocked(t)' /\ ~Won(t, i)' /\ reports'[i] = reports[i]
              /\ \E j \in Met("knockout")' : i < j
<1>1. PICK m \in Nat, n \in Nat \ {0} : m = Len(reports) /\ n = Len(wave)
  BY GrownFacts, PlayedFacts
<1>2. \A i : i \in Met("knockout") => i \in 1..m
  BY <1>1 DEF BracketInv, BracketTypeOK, Met
<1>3. ASSUME NEW k \in 1..n, NEW t
      PROVE  /\ m + k \in Met("knockout")'
             /\ m + k \in Knocked(t)' <=> t \in {wave[k][1], wave[k][2]}
             /\ Won(t, m + k)' <=> w[k] = t
  <2>1. /\ reports'[m + k].home = wave[k][1] /\ reports'[m + k].away = wave[k][2]
        /\ reports'[m + k].winner = w[k]
    BY <1>1, GrownFacts
  <2>2. m + k \in Met("knockout")'
    BY <1>1, GrownFacts
  <2> QED
    BY <2>1, <2>2 DEF Knocked, Won
<1>4. ASSUME NEW i \in Met("knockout")' PROVE i \in Met("knockout") \/ \E k \in 1..n : i = m + k
  BY <1>1, <1>4, GrownFacts
<1>5. ASSUME NEW i \in Met("knockout"), NEW t
      PROVE  /\ i \in 1..m /\ (i \in Knocked(t)' <=> i \in Knocked(t)) /\ (Won(t, i)' <=> Won(t, i))
             /\ reports'[i] = reports[i]
  BY <1>1, <1>2, GrownFacts DEF Grown
<1>6. ASSUME NEW k \in 1..n, NEW l \in 1..n, NEW t, t \in {wave[k][1], wave[k][2]},
             t \in {wave[l][1], wave[l][2]}
      PROVE  k = l
  BY <1>1, <1>6, PlayedFacts DEF Apart
<1>7. \A t, i : i \in Knocked(t)' => i \in Met("knockout")'
  BY DEF Knocked
<1>8. ASSUME NEW k \in 1..n, NEW x \in {wave[k][1], wave[k][2]}, NEW i \in Met("knockout"),
             i \in Knocked(x)'
      PROVE  Won(x, i)'
  <2>1. i \in Knocked(x)
    BY <1>5, <1>8
  <2>2. Won(x, i)
    BY <1>1, <2>1, KnockoutWave
  <2> QED
    BY <1>5, <2>2
<1>9. NoComeback'
  <2>1. SUFFICES ASSUME NEW i \in Met("knockout")', NEW j \in Met("knockout")', i < j,
                        NEW x \in {reports'[j].home, reports'[j].away}, i \in Knocked(x)'
                 PROVE  Won(x, i)'
    BY DEF NoComeback
  <2>2. CASE j \in Met("knockout")
    <3>1. i \in Met("knockout")
      <4>1. ASSUME NEW k \in 1..n, i = m + k PROVE FALSE
        <5>1. j \in 1..m
          BY <1>2, <2>2
        <5> QED
          BY <2>1, <4>1, <5>1
      <4> QED
        BY <1>4, <4>1
    <3>2. reports'[j] = reports[j] /\ i \in Knocked(x)
      BY <1>5, <2>1, <2>2, <3>1
    <3>3. Won(x, i)
      BY <2>1, <2>2, <3>1, <3>2 DEF BracketInv, Knockout, NoComeback
    <3> QED
      BY <1>5, <3>1, <3>3
  <2>3. ASSUME NEW k \in 1..n, j = m + k PROVE Won(x, i)'
    <3>1. x \in {wave[k][1], wave[k][2]}
      <4>1. reports'[j].home = wave[k][1] /\ reports'[j].away = wave[k][2]
        BY <1>1, <2>3, GrownFacts
      <4> QED
        BY <2>1, <4>1
    <3>2. CASE i \in Met("knockout")
      BY <1>8, <2>1, <3>1, <3>2
    <3>3. ASSUME NEW l \in 1..n, i = m + l PROVE FALSE
      <4>1. x \in {wave[l][1], wave[l][2]}
        BY <1>3, <2>1, <3>3
      <4>2. l = k
        BY <1>6, <3>1, <4>1
      <4> QED
        BY <2>1, <2>3, <3>3, <4>2
    <3> QED
      BY <1>4, <3>2, <3>3
  <2> QED
    BY <1>4, <2>2, <2>3
<1>10. ASSUME NEW k \in 1..n, NEW i \in Knocked(w[k])' PROVE Won(w[k], i)'
  <2>1. w[k] \in {wave[k][1], wave[k][2]}
    BY <1>1
  <2>2. CASE i \in Met("knockout")
    BY <1>8, <1>10, <2>1, <2>2
  <2>3. ASSUME NEW l \in 1..n, i = m + l PROVE Won(w[k], i)'
    <3>1. w[k] \in {wave[l][1], wave[l][2]}
      BY <1>3, <1>10, <2>3
    <3>2. k = l
      BY <1>6, <2>1, <3>1
    <3> QED
      BY <1>3, <2>3, <3>2
  <2> QED
    BY <1>4, <1>7, <1>10, <2>2, <2>3
<1>11. ASSUME NEW k \in 1..n, NEW t \in {wave[k][1], wave[k][2]}, t # w[k]
       PROVE  m + k \in Knocked(t)' /\ ~Won(t, m + k)' /\ reports'[m + k].round = round
  <2>1. reports'[m + k].round = round
    BY <1>1, GrownFacts
  <2> QED
    BY <1>3, <1>11, <2>1
<1>12. ASSUME NEW t, NEW i \in Knocked(t), ~Won(t, i)
       PROVE  /\ i \in Knocked(t)' /\ ~Won(t, i)' /\ reports'[i] = reports[i]
              /\ \E j \in Met("knockout")' : i < j
  <2>1. i \in Met("knockout")
    BY <1>12 DEF Knocked
  <2>2. m + 1 \in Met("knockout")' /\ i < m + 1
    <3>1. 1 \in 1..n /\ i \in 1..m
      BY <1>2, <2>1
    <3>2. m + 1 \in Met("knockout")'
      BY <1>3, <3>1
    <3> QED
      BY <3>1, <3>2
  <2> QED
    BY <1>5, <1>12, <2>1, <2>2
<1> QED
  <2>1. \A k \in 1..Len(wave) : \A i \in Knocked(w[k])' : Won(w[k], i)'
    BY <1>1, <1>10
  <2>2. \A k \in 1..Len(wave) : \A t \in {wave[k][1], wave[k][2]} :
          t # w[k] => \E i \in Knocked(t)' : ~Won(t, i)' /\ reports'[i].round = round
    <3>1. ASSUME NEW k \in 1..n, NEW t \in {wave[k][1], wave[k][2]}
          PROVE  t # w[k] => \E i \in Knocked(t)' : ~Won(t, i)' /\ reports'[i].round = round
      BY <1>11
    <3> QED
      BY <1>1, <3>1
  <2>3. \A t : \A i \in Knocked(t) : ~Won(t, i) =>
          /\ i \in Knocked(t)' /\ ~Won(t, i)' /\ reports'[i] = reports[i]
          /\ \E j \in Met("knockout")' : i < j
    BY <1>12
  <2> QED
    BY <1>9, <2>1, <2>2, <2>3
\* The winner of a match is one of its two teams, the loser the other.
LEMMA WinnersFacts ==
  ASSUME BracketInv, Played, NEW w \in Winners
  PROVE  /\ w \in [1..Len(wave) -> Team] /\ w \in [1..Len(wave) -> Team \union {Nothing}]
         /\ \A i \in 1..Len(wave) :
              /\ w[i] \in {wave[i][1], wave[i][2]} /\ Loser(i, w) \in {wave[i][1], wave[i][2]}
              /\ Loser(i, w) # w[i] /\ Loser(i, w) \in Team
<1>1. /\ DOMAIN wave = 1..Len(wave) /\ Apart(wave)
      /\ \A i \in 1..Len(wave) : wave[i][1] \in Team /\ wave[i][2] \in Team
  BY PlayedFacts
<1>2. w \in [1..Len(wave) -> Team] /\ \A i \in 1..Len(wave) : w[i] \in {wave[i][1], wave[i][2]}
  BY <1>1 DEF Winners, Team
<1>3. ASSUME NEW i \in 1..Len(wave)
      PROVE  Loser(i, w) \in {wave[i][1], wave[i][2]} /\ Loser(i, w) # w[i] /\ Loser(i, w) \in Team
  <2>1. wave[i][1] # wave[i][2]
    BY <1>1 DEF Apart
  <2> QED
    BY <1>1, <1>2, <2>1 DEF Loser
<1>4. w \in [1..Len(wave) -> Team \union {Nothing}]
  BY <1>2
<1> QED
  BY <1>2, <1>3, <1>4

\* One team of each match is no team twice.
LEMMA OneOfEach ==
  ASSUME BracketInv, Played, NEW s, Len(s) = Len(wave),
         \A i \in 1..Len(wave) : s[i] \in {wave[i][1], wave[i][2]}
  PROVE  Distinct(s)
<1>1. ASSUME NEW i \in 1..Len(s), NEW j \in 1..Len(s), s[i] = s[j] PROVE i = j
  <2>1. s[i] \in {wave[i][1], wave[i][2]} /\ s[i] \in {wave[j][1], wave[j][2]}
    BY <1>1
  <2> QED
    BY <2>1, PlayedFacts DEF Apart
<1> QED
  BY <1>1 DEF Distinct

\* A round of the knockout leaves only teams that have won all of theirs.
LEMMA KnockoutStep ==
  ASSUME BracketInv, KnockoutRound
  PROVE  BracketInv'
<1>1. /\ stage = "knockout" /\ Played /\ round' = round + 1
      /\ format' = format /\ stage' = stage /\ h2h' = h2h /\ tables' = tables /\ podium' = podium
  BY DEF KnockoutRound
<1>2. PICK w \in Winners :
        /\ Commit(w) /\ current' = w
        /\ losers' = IF Len(current) = 4 THEN [i \in DOMAIN wave |-> Loser(i, w)] ELSE losers
  BY DEF KnockoutRound
<1>3. PICK n \in Nat \ {0}, m \in Nat : n = Len(wave) /\ DOMAIN wave = 1..n /\ m = Len(reports)
  BY <1>1, PlayedFacts DEF BracketInv, BracketTypeOK
<1>4. /\ w \in [1..n -> Team] /\ w \in [1..n -> Team \union {Nothing}]
      /\ \A i \in 1..n :
           /\ w[i] \in {wave[i][1], wave[i][2]} /\ Loser(i, w) \in {wave[i][1], wave[i][2]}
           /\ Loser(i, w) # w[i] /\ Loser(i, w) \in Team
  BY <1>1, <1>3, WinnersFacts
<1>5. /\ record' \in [Team -> TeamRecord] /\ brain' \in [Team -> Nat] /\ BrainsTrue'
      /\ wave' = <<>> /\ inputs' = <<>> /\ outcomes' = <<>>
      /\ reports' \in Seq(MatchReport) /\ Grown(w)
  BY <1>1, <1>2, <1>3, <1>4, CommitFacts
<1>6. w \in Seq(Team) /\ Len(w) = n /\ Distinct(w)
  <2>1. w \in Seq(Team) /\ Len(w) = n
    BY <1>4, FunctionSeq
  <2> QED
    BY <1>1, <1>3, <1>4, <2>1, OneOfEach
<1>7. Len(current) = 2 * n /\ (Len(current) = 4 => n = 2)
  <2>1. Len(current) = 2 * n
    BY <1>1, <1>3, KnockoutWave
  <2> QED
    BY <2>1
<1>8. /\ NoComeback'
      /\ \A k \in 1..n : \A i \in Knocked(w[k])' : Won(w[k], i)'
      /\ \A k \in 1..n : \A t \in {wave[k][1], wave[k][2]} :
           t # w[k] => \E i \in Knocked(t)' : ~Won(t, i)' /\ reports'[i].round = round
      /\ \A t : \A i \in Knocked(t) : ~Won(t, i) =>
           /\ i \in Knocked(t)' /\ ~Won(t, i)' /\ reports'[i] = reports[i]
           /\ \E j \in Met("knockout")' : i < j
  <2>1. \A k \in 1..Len(wave) : w[k] \in {wave[k][1], wave[k][2]}
    BY <1>3, <1>4
  <2>2. /\ NoComeback'
        /\ \A k \in 1..Len(wave) : \A i \in Knocked(w[k])' : Won(w[k], i)'
        /\ \A k \in 1..Len(wave) : \A t \in {wave[k][1], wave[k][2]} :
             t # w[k] => \E i \in Knocked(t)' : ~Won(t, i)' /\ reports'[i].round = round
        /\ \A t : \A i \in Knocked(t) : ~Won(t, i) =>
             /\ i \in Knocked(t)' /\ ~Won(t, i)' /\ reports'[i] = reports[i]
             /\ \E j \in Met("knockout")' : i < j
    BY <1>1, <1>5, <2>1, KnockoutReports
  <2> QED
    BY <1>3, <2>2
<1>9. PICK l : l = losers'
  OBVIOUS
<1>10. l \in Seq(Team) /\ Distinct(l) /\ LosersLost'
  <2>1. CASE Len(current) = 4
    <3>1. l = [i \in 1..n |-> Loser(i, w)]
      BY <1>2, <1>3, <1>9, <2>1
    <3>2. l \in [1..n -> Team]
      BY <1>4, <3>1
    <3>3. l \in Seq(Team) /\ Len(l) = n
      BY <3>2, FunctionSeq
    <3>4. Distinct(l)
      BY <1>1, <1>3, <1>4, <3>1, <3>3, OneOfEach
    <3>5. ASSUME NEW k \in 1..n PROVE Beaten(l[k])'
      <4>1. PICK t : t = Loser(k, w) /\ l[k] = t
        BY <3>1
      <4>2. t \in {wave[k][1], wave[k][2]} /\ t # w[k]
        BY <1>4, <4>1
      <4>3. PICK i \in Knocked(t)' : ~Won(t, i)' /\ reports'[i].round = round
        BY <1>8, <4>2
      <4>4. Len(current') = 2
        BY <1>2, <1>6, <1>7, <2>1
      <4>5. round = round' - 1
        BY <1>1 DEF BracketInv, BracketTypeOK
      <4> QED
        BY <1>9, <4>1, <4>3, <4>4, <4>5 DEF Beaten
    <3> QED
      BY <1>9, <3>3, <3>4, <3>5 DEF LosersLost
  <2>2. CASE Len(current) # 4
    <3>1. l = losers
      BY <1>2, <1>9, <2>2
    <3>2. ASSUME NEW k \in 1..Len(losers) PROVE Beaten(losers[k])'
      <4>1. PICK t : t = losers[k] /\ losers'[k] = t
        BY <1>9, <3>1
      <4>2. Beaten(t)
        BY <4>1 DEF BracketInv, Knockout, LosersLost
      <4>3. Len(current) # 1
        BY <1>7
      <4>4. PICK i \in Knocked(t) : ~Won(t, i) /\ Len(current) = 2 /\ reports[i].round = round - 1
        BY <4>2, <4>3 DEF Beaten
      <4>5. /\ i \in Knocked(t)' /\ ~Won(t, i)' /\ reports'[i] = reports[i]
            /\ \E j \in Met("knockout")' : i < j
        BY <1>8, <4>4
      <4>6. Len(current') = 1 /\ round - 1 = round' - 2
        <5>1. n = 1
          <6>1. 2 * n = 2
            BY <1>7, <4>4
          <6> QED
            BY <6>1
        <5>2. round - 1 = round' - 2
          BY <1>1 DEF BracketInv, BracketTypeOK
        <5> QED
          BY <1>2, <1>6, <5>1, <5>2
      <4>7. Beaten(t)'
        BY <4>4, <4>5, <4>6 DEF Beaten
      <4> QED
        BY <4>1, <4>7
    <3>3. LosersLost'
      BY <1>9, <3>1, <3>2 DEF LosersLost
    <3> QED
      BY <3>1, <3>3 DEF BracketInv, BracketTypeOK, Team
  <2> QED
    BY <2>1, <2>2
<1>11. BracketTypeOK'
  BY <1>1, <1>2, <1>5, <1>6, <1>9, <1>10, FormatFrame DEF BracketInv, BracketTypeOK, Team
<1>12. WaveTrue'
  BY <1>1, <1>5 DEF WaveTrue
<1>13. Schedule'
  BY <1>1, <1>5, ScheduleGrows
<1>14. Seeded'
  <2>1. round' # 0
    BY <1>1 DEF BracketInv, BracketTypeOK
  <2> QED
    BY <2>1 DEF Seeded
<1>15. Unbeaten'
  BY <1>2, <1>6, <1>8 DEF Unbeaten
<1>16. LastIsFinal'
  <2>1. SUFFICES ASSUME n <= 1
                 PROVE  /\ Len(current') = 1 /\ Len(reports') > 0
                        /\ reports'[Len(reports')].home # reports'[Len(reports')].away
                        /\ reports'[Len(reports')].stage = "knockout"
                        /\ reports'[Len(reports')].round = round' - 1
                        /\ current'[1] \in {reports'[Len(reports')].home, reports'[Len(reports')].away}
    BY <1>2, <1>6 DEF LastIsFinal
  <2>2. n = 1 /\ Len(reports') = m + 1 /\ Len(current') = 1 /\ current'[1] = w[1]
    BY <1>2, <1>3, <1>5, <1>6, <2>1 DEF Grown
  <2>3. /\ reports'[m + 1].home = wave[1][1] /\ reports'[m + 1].away = wave[1][2]
        /\ reports'[m + 1].stage = "knockout" /\ reports'[m + 1].round = round
    BY <1>1, <1>3, <1>5, <2>2, GrownFacts
  <2>4. wave[1][1] # wave[1][2] /\ w[1] \in {wave[1][1], wave[1][2]}
    BY <1>4, <2>2
  <2>5. round = round' - 1
    BY <1>1 DEF BracketInv, BracketTypeOK
  <2> QED
    BY <2>2, <2>3, <2>4, <2>5
<1>17. Crowned' /\ ThirdTrue'
  <2>1. Met("third") = {} /\ podium.third = Nothing
    BY <1>1 DEF BracketInv, Knockout, ThirdTrue
  <2>2. Met("third")' = {}
    <3>1. ASSUME NEW i PROVE i \notin Met("third")'
      BY <1>1, <1>5, <2>1, GrownFacts
    <3> QED
      BY <3>1
  <2> QED
    BY <1>1, <2>1, <2>2 DEF Crowned, ThirdTrue
<1>18. Knockout'
  BY <1>8, <1>10, <1>15, <1>16, <1>17 DEF Knockout
<1>19. Distinct(current)' /\ Distinct(losers)'
  BY <1>2, <1>6, <1>9, <1>10
<1> QED
  BY <1>5, <1>11, <1>12, <1>13, <1>14, <1>18, <1>19 DEF BracketInv

\* The last left has won the final.
LEMMA CrownStep ==
  ASSUME BracketInv, CrownChampion
  PROVE  BracketInv'
<1>1. /\ stage = "knockout" /\ wave = <<>> /\ Len(current) = 1
      /\ UNCHANGED <<format, round, wave, inputs, outcomes, reports, record, brain, h2h, tables, current,
                     losers>>
      /\ stage' \in {"third", "done"} /\ (stage' = "third" => Len(losers) = 2)
      /\ podium' = [podium EXCEPT !.champion = current[1], !.second = RunnerUp(current[1])]
  BY DEF CrownChampion, playing, books
<1>2. PICK m \in Nat, f \in {reports[Len(reports)]} : m = Len(reports) /\ f = reports[m]
  <2>1. reports \in Seq(MatchReport)
    BY DEF BracketInv, BracketTypeOK
  <2>2. Len(reports) \in Nat
    BY <2>1
  <2> QED
    BY <2>2
<1>3. /\ m > 0 /\ f.home # f.away /\ f.stage = "knockout" /\ current[1] \in {f.home, f.away}
      /\ f.round = round - 1
  BY <1>1, <1>2 DEF BracketInv, Knockout, LastIsFinal
<1>4. f.home \in Team /\ f.away \in Team /\ current[1] \in Team /\ DOMAIN reports = 1..m
  <2>1. reports \in Seq(MatchReport) /\ current \in Seq(Team)
    BY DEF BracketInv, BracketTypeOK, Team
  <2>2. f \in MatchReport
    BY <1>2, <1>3, <2>1
  <2> QED
    BY <1>1, <1>2, <2>1, <2>2, SMTT(30) DEF MatchReport, Team
<1>5. PICK c, s : c = current[1] /\ s = RunnerUp(current[1]) /\ s = IF f.home = c THEN f.away ELSE f.home
  BY <1>2 DEF RunnerUp
<1>6. c # s /\ {f.home, f.away} = {c, s} /\ s \in Team /\ c \in Team
  BY <1>3, <1>4, <1>5
<1>7. Final(m, c, s)
  <2>1. m \in Met("knockout") /\ \A j \in Met("knockout") : j <= m
    BY <1>2, <1>3, <1>4 DEF Met
  <2> QED
    BY <1>2, <1>6, <2>1 DEF Final
<1>8. /\ podium' \in [champion : Team \union {Nothing}, second : Team \union {Nothing},
                      third : Team \union {Nothing}]
      /\ podium'.champion = c /\ podium'.second = s /\ podium'.third = podium.third
  <2>1. podium \in [champion : Team \union {Nothing}, second : Team \union {Nothing},
                    third : Team \union {Nothing}]
    BY DEF BracketInv, BracketTypeOK, Team
  <2> QED
    BY <1>1, <1>5, <1>6, <2>1
<1>9. BracketTypeOK'
  BY <1>1, <1>8, FormatFrame DEF BracketInv, BracketTypeOK, Team
<1>10. WaveTrue'
  BY <1>1 DEF WaveTrue, BracketInv
<1>11. Schedule'
  <2>1. GroupReports' = GroupReports /\ \A i : FromGroup(i)' = FromGroup(i)
    BY <1>1, FormatFrame DEF GroupReports, FromGroup, RoundOf, IndexOf
  <2> QED
    BY <1>1, <2>1 DEF Schedule, BracketInv
<1>12. Seeded'
  BY <1>1 DEF Seeded
<1>13. /\ \A t : Met(t)' = Met(t)
       /\ \A t : Knocked(t)' = Knocked(t)
       /\ \A t, i : Won(t, i)' = Won(t, i)
       /\ \A g, a, b : Final(g, a, b)' = Final(g, a, b)
  BY <1>1, ReportsFrame
<1>14. NoComeback' /\ Unbeaten'
  BY <1>1, <1>13, ZenonT(30) DEF BracketInv, Knockout, NoComeback, Unbeaten
<1>15. LosersLost'
  <2>1. \A t : Beaten(t)' = Beaten(t)
    BY <1>1, <1>13 DEF Beaten
  <2> QED
    BY <1>1, <2>1 DEF BracketInv, Knockout, LosersLost
<1>16. LastIsFinal'
  BY <1>1 DEF LastIsFinal
<1>17. Crowned'
  <2>1. m \in 1..Len(reports') /\ Final(m, c, s)' /\ reports'[m].round = round' - 1
    BY <1>1, <1>2, <1>3, <1>7, <1>13
  <2> QED
    BY <1>1, <1>5, <1>8, <2>1 DEF Crowned
<1>18. ThirdTrue'
  BY <1>1, <1>8, <1>13 DEF BracketInv, Knockout, ThirdTrue
<1>19. BrainsTrue'
  BY <1>1, FormatFrame DEF BrainsTrue, BracketInv
<1>20. Distinct(current)' /\ Distinct(losers)'
  BY <1>1 DEF BracketInv
<1> QED
  BY <1>9, <1>10, <1>11, <1>12, <1>14, <1>15, <1>16, <1>17, <1>18, <1>19, <1>20 DEF BracketInv, Knockout
\* The match for the third place is between the losers of the semi-finals.
LEMMA ThirdStep ==
  ASSUME BracketInv, ThirdPlace
  PROVE  BracketInv'
<1>1. /\ stage = "third" /\ Played /\ stage' = "done"
      /\ format' = format /\ round' = round /\ h2h' = h2h /\ tables' = tables
      /\ current' = current /\ losers' = losers
  BY DEF ThirdPlace
<1>2. PICK w \in Winners : Commit(w) /\ podium' = [podium EXCEPT !.third = w[1]]
  BY DEF ThirdPlace
<1>3. wave = <<losers>> /\ Len(wave) = 1 /\ Len(losers) = 2
  BY <1>1, PlayedFacts DEF NextWave, BracketInv, WaveTrue
<1>4. w \in [1..Len(wave) -> Team \union {Nothing}] /\ w[1] \in {losers[1], losers[2]} /\ w[1] \in Team
  <2>1. /\ w \in [1..Len(wave) -> Team \union {Nothing}] /\ w \in [1..Len(wave) -> Team]
        /\ w[1] \in {wave[1][1], wave[1][2]}
    BY <1>1, <1>3, WinnersFacts
  <2> QED
    BY <1>3, <2>1
<1>5. /\ record' \in [Team -> TeamRecord] /\ brain' \in [Team -> Nat] /\ BrainsTrue'
      /\ wave' = <<>> /\ inputs' = <<>> /\ outcomes' = <<>>
      /\ reports' \in Seq(MatchReport) /\ Grown(w)
  BY <1>1, <1>2, <1>4, CommitFacts
<1>6. PICK m \in Nat : m = Len(reports)
  BY <1>1, <1>5, GrownFacts
<1>7. /\ podium' \in [champion : Team \union {Nothing}, second : Team \union {Nothing},
                      third : Team \union {Nothing}]
      /\ podium'.champion = podium.champion /\ podium'.second = podium.second /\ podium'.third = w[1]
  <2>1. podium \in [champion : Team \union {Nothing}, second : Team \union {Nothing},
                    third : Team \union {Nothing}]
    BY DEF BracketInv, BracketTypeOK, Team
  <2> QED
    BY <1>2, <1>4, <2>1
<1>8. BracketTypeOK'
  BY <1>1, <1>5, <1>7, FormatFrame DEF BracketInv, BracketTypeOK, Team
<1>9. WaveTrue'
  BY <1>1, <1>5 DEF WaveTrue
<1>10. Schedule'
  BY <1>1, <1>5, ScheduleGrows
<1>11. Seeded'
  BY <1>1 DEF Seeded
<1>12. \A i : i \in Met("knockout")' <=> i \in Met("knockout")
  BY <1>1, <1>5, GrownFacts
<1>13. \A i \in Met("knockout") : i \in 1..m /\ reports'[i] = reports[i]
  BY <1>5, <1>6 DEF Grown, Met, BracketInv, BracketTypeOK
<1>14. ASSUME NEW t, NEW i
       PROVE  /\ i \in Knocked(t)' <=> i \in Knocked(t)
              /\ i \in Met("knockout") => (Won(t, i)' <=> Won(t, i))
  BY <1>12, <1>13 DEF Knocked, Won
<1>15. NoComeback'
  BY <1>12, <1>13, <1>14 DEF BracketInv, Knockout, NoComeback
<1>16. Unbeaten'
  <2>1. ASSUME NEW k \in 1..Len(current), NEW i \in Knocked(current[k])' PROVE Won(current[k], i)'
    <3>1. PICK t : t = current[k] /\ t = current'[k]
      BY <1>1
    <3>2. i \in Knocked(t)' /\ i \in Knocked(t)
      BY <1>14, <2>1, <3>1
    <3>3. Won(t, i) /\ i \in Met("knockout")
      BY <3>1, <3>2 DEF BracketInv, Knockout, Unbeaten, Knocked
    <3> QED
      BY <1>14, <3>1, <3>3
  <2> QED
    BY <1>1, <2>1 DEF Unbeaten
<1>17. LosersLost'
  <2>1. ASSUME NEW t, Beaten(t) PROVE Beaten(t)'
    <3>1. PICK i \in Knocked(t) :
            /\ ~Won(t, i)
            /\ \/ Len(current) = 2 /\ reports[i].round = round - 1
               \/ Len(current) = 1 /\ reports[i].round = round - 2 /\ \E j \in Met("knockout") : i < j
      BY <2>1 DEF Beaten
    <3>2. i \in Knocked(t)' /\ i \in Met("knockout")
      BY <1>14, <3>1 DEF Knocked
    <3>3. ~Won(t, i)' /\ reports'[i] = reports[i]
      BY <1>13, <1>14, <3>1, <3>2
    <3>4. (\E j \in Met("knockout") : i < j) => \E j \in Met("knockout")' : i < j
      BY <1>12
    <3> QED
      BY <1>1, <3>1, <3>2, <3>3, <3>4 DEF Beaten
  <2> QED
    BY <1>1, <2>1 DEF BracketInv, Knockout, LosersLost
<1>18. LastIsFinal'
  BY <1>1 DEF LastIsFinal
<1>19. Crowned'
  <2>1. PICK f \in 1..Len(reports) :
          Final(f, podium.champion, podium.second) /\ reports[f].round = round - 1
    BY <1>1 DEF BracketInv, Knockout, Crowned
  <2>2. PICK c, s : c = podium.champion /\ s = podium.second
    OBVIOUS
  <2>3. Final(f, c, s)'
    BY <1>12, <1>13, <2>1, <2>2 DEF Final
  <2>4. f \in 1..Len(reports')
    <3>1. Len(reports') = m + 1
      BY <1>3, <1>5, <1>6 DEF Grown
    <3> QED
      BY <1>6, <2>1, <3>1
  <2>5. reports'[f].round = round' - 1
    BY <1>1, <1>5, <2>1 DEF Grown
  <2> QED
    BY <1>1, <1>7, <2>2, <2>3, <2>4, <2>5 DEF BracketInv, Knockout, Crowned
<1>20. ThirdTrue'
  <2>1. losers[1] \in Range(losers) /\ losers[2] \in Range(losers)
    <3>1. DOMAIN losers = 1..2
      BY <1>3 DEF BracketInv, BracketTypeOK
    <3> QED
      BY <3>1 DEF Range
  <2>2. Met("third") = {}
    BY <1>1 DEF BracketInv, Knockout, ThirdTrue
  <2>3. ASSUME NEW i \in Met("third")'
        PROVE /\ reports'[i].home = losers[1] /\ reports'[i].away = losers[2]
              /\ reports'[i].winner = w[1]
    <3>1. PICK k \in 1..Len(wave) : i = Len(reports) + k
      BY <1>1, <1>5, <2>2, <2>3, GrownFacts
    <3>2. /\ reports'[i].home = wave[k][1] /\ reports'[i].away = wave[k][2]
          /\ reports'[i].winner = w[k]
      BY <1>1, <1>5, <3>1, GrownFacts
    <3>3. k = 1 /\ wave[k] = losers
      BY <1>3, <3>1
    <3> QED
      BY <3>2, <3>3
  <2>4. podium'.third = w[1] /\ w[1] \in {losers[1], losers[2]} /\ w[1] \in Range(losers)
    BY <1>4, <1>7, <2>1
  <2>5. Met("third")' # {}
    <3>1. 1 \in 1..Len(wave)
      BY <1>3
    <3>2. Len(reports) + 1 \in Met("third")'
      BY <1>1, <1>5, <3>1, GrownFacts
    <3> QED
      BY <3>2
  <2> QED
    BY <1>1, <2>1, <2>3, <2>4, <2>5 DEF ThirdTrue
<1>21. Distinct(current)' /\ Distinct(losers)'
  BY <1>1 DEF BracketInv
<1> QED
  BY <1>5, <1>8, <1>9, <1>10, <1>11, <1>15, <1>16, <1>17, <1>18, <1>19, <1>20, <1>21 DEF BracketInv,
     Knockout

-----------------------------------------------------------------------------
(* The invariant holds *)

\* A tournament that has not started satisfies the invariant.
LEMMA BracketInitInv == BracketInit => BracketInv
<1> SUFFICES ASSUME BracketInit PROVE BracketInv
  OBVIOUS
<1>1. /\ Shape /\ stage = "group" /\ round = 0 /\ wave = <<>> /\ inputs = <<>> /\ outcomes = <<>>
      /\ reports = <<>> /\ record = [t \in Team |-> Blank] /\ brain = [t \in Team |-> 0] /\ h2h = <<>>
      /\ tables = <<>> /\ current = <<>> /\ losers = <<>>
      /\ podium = [champion |-> Nothing, second |-> Nothing, third |-> Nothing]
  BY DEF BracketInit, Shape, Team
<1>2. Blank \in TeamRecord /\ Blank.played = 0
  BY DEF Blank, TeamRecord
<1>3. BracketTypeOK
  <2>1. record \in [Team -> TeamRecord] /\ brain \in [Team -> Nat]
    BY <1>1, <1>2
  <2>2. podium \in [champion : Team \union {Nothing}, second : Team \union {Nothing},
                    third : Team \union {Nothing}]
    BY <1>1
  <2> QED
    BY <1>1, <2>1, <2>2 DEF BracketTypeOK, Shape, Team
<1>4. WaveTrue
  BY <1>1, WaveLengthFacts DEF WaveTrue
<1>5. Distinct(current) /\ Distinct(losers)
  BY <1>1 DEF Distinct
<1>6. BrainsTrue
  BY <1>1, <1>2 DEF BrainsTrue
<1>7. Schedule
  <2>1. GroupReports = 0
    <3>1. WaveLength \in Nat
      BY <1>1, WaveLengthFacts
    <3> QED
      BY <1>1, <3>1 DEF GroupReports
  <2> QED
    BY <1>1, <2>1 DEF Schedule
<1>8. Seeded
  BY <1>1 DEF Seeded
<1>9. Knockout
  <2>1. \A s : Met(s) = {}
    BY <1>1 DEF Met
  <2> QED
    BY <1>1, <2>1 DEF Knockout, NoComeback, Unbeaten, LosersLost, LastIsFinal, Crowned, ThirdTrue
<1> QED
  BY <1>3, <1>4, <1>5, <1>6, <1>7, <1>8, <1>9 DEF BracketInv

\* Every step preserves it.
LEMMA BracketStepInv == BracketInv /\ [BracketNext]_bracketVars => BracketInv'
<1> SUFFICES ASSUME BracketInv, [BracketNext]_bracketVars PROVE BracketInv'
  OBVIOUS
<1>1. CASE BracketNext
  BY <1>1, StartWaveStep, FailStep, EndMatchStep, GroupRoundStep, SeedStep, KnockoutStep, CrownStep,
     ThirdStep
     DEF BracketNext
<1>2. CASE UNCHANGED bracketVars
  <2>1. /\ UNCHANGED <<format, round, books, tables, current, losers, podium, stage, wave, inputs,
                       outcomes>>
    BY <1>2 DEF bracketVars, playing
  <2>2. Distinct(current)' /\ Distinct(losers)' /\ BrainsTrue' /\ Schedule' /\ Seeded' /\ Knockout'
    BY <2>1, Quiet
  <2>3. BracketTypeOK'
    BY <2>1, FormatFrame DEF BracketInv, BracketTypeOK, books, Team
  <2>4. WaveTrue'
    <3>1. NextWave' = NextWave /\ Rounds' = Rounds /\ brain' = brain
      BY <2>1, FormatFrame DEF NextWave, books
    <3> QED
      BY <2>1, <3>1 DEF WaveTrue, BracketInv
  <2> QED
    BY <2>2, <2>3, <2>4 DEF BracketInv
<1> QED
  BY <1>1, <1>2

\* It holds in every reachable state.
LEMMA BracketInvAlways == BracketSpec => []BracketInv
BY BracketInitInv, BracketStepInv, PTL DEF BracketSpec
-----------------------------------------------------------------------------
(* Every pair meets *)

GroupsOver == stage \in {"knockout", "third", "done"}

\* After the groups, a report between two teams is a match of a wave.
LEMMA Hosted ==
  ASSUME BracketInv, GroupsOver, NEW a, NEW b
  PROVE  /\ HostedBy(a, b) \subseteq Int
         /\ \A i \in HostedBy(a, b) : \E r \in 0..Rounds - 1, k \in 1..WaveLength :
              i = r * WaveLength + k /\ GroupWave(r)[k] = <<a, b>>
         /\ \A r \in 0..Rounds - 1, k \in 1..WaveLength :
              GroupWave(r)[k] = <<a, b>> => r * WaveLength + k \in HostedBy(a, b)
<1>1. PICK n \in Nat, h \in Nat \ {0} : n = Rounds /\ h = WaveLength
  BY WaveLengthFacts DEF BracketInv, BracketTypeOK, Shape
<1>2. GroupReports = n * h /\ n * h \in Nat
  BY <1>1 DEF GroupReports, GroupsOver
<1>3. PICK m \in Nat : m = Len(reports) /\ DOMAIN reports = 1..m
  <2>1. reports \in Seq(MatchReport)
    BY DEF BracketInv, BracketTypeOK
  <2>2. Len(reports) \in Nat /\ DOMAIN reports = 1..Len(reports)
    BY <2>1
  <2> QED
    BY <2>2
<1>4. /\ n * h <= m
      /\ \A i \in 1..m : IF i <= n * h THEN FromGroup(i) ELSE reports[i].stage # "group"
  BY <1>2, <1>3 DEF BracketInv, Schedule, GroupsOver
<1>5. HostedBy(a, b) \subseteq 1..m
  BY <1>3 DEF HostedBy, Met
<1>6. ASSUME NEW i \in HostedBy(a, b)
      PROVE  \E r \in 0..n - 1, k \in 1..h : i = r * h + k /\ GroupWave(r)[k] = <<a, b>>
  <2>1. i \in 1..m /\ reports[i].stage = "group" /\ reports[i].home = a /\ reports[i].away = b
    BY <1>3 DEF HostedBy, Met
  <2>2. i \in 1..n * h /\ FromGroup(i)
    BY <1>2, <1>4, <2>1
  <2>3. /\ 1 + (i - 1) \div h \in 1..n /\ 1 + ((i - 1) % h) \in 1..h
        /\ i = ((i - 1) \div h) * h + 1 + ((i - 1) % h)
    BY <2>2, BlockOf
  <2>4. PICK r \in Int, q \in Int : r = (i - 1) \div h /\ q = (i - 1) % h
    BY <2>1
  <2>5. RoundOf(i) = r /\ IndexOf(i) = 1 + q
    BY <1>1, <2>4 DEF RoundOf, IndexOf
  <2>6. r \in 0..n - 1 /\ 1 + q \in 1..h /\ i = r * h + (1 + q)
    BY <2>3, <2>4
  <2>7. GroupWave(r)[1 + q] = <<a, b>>
    BY <2>1, <2>2, <2>5 DEF FromGroup
  <2> QED
    BY <2>6, <2>7
<1>7. ASSUME NEW r \in 0..n - 1, NEW k \in 1..h, GroupWave(r)[k] = <<a, b>>
      PROVE  r * h + k \in HostedBy(a, b)
  <2>1. PICK g \in 1..n, i \in Int : g = r + 1 /\ i = (g - 1) * h + k /\ i = r * h + k
    OBVIOUS
  <2>2. i \in 1..n * h /\ (i - 1) \div h = g - 1 /\ (i - 1) % h = k - 1
    BY <2>1, BlockAt
  <2>3. RoundOf(i) = r /\ IndexOf(i) = k
    BY <1>1, <2>1, <2>2 DEF RoundOf, IndexOf
  <2>4. i \in 1..m /\ FromGroup(i)
    BY <1>2, <1>4, <2>2
  <2>5. <<reports[i].home, reports[i].away>> = <<a, b>> /\ reports[i].stage = "group"
    BY <1>7, <2>3, <2>4 DEF FromGroup
  <2>6. i \in HostedBy(a, b)
    BY <1>3, <2>4, <2>5 DEF HostedBy, Met
  <2> QED
    BY <2>1, <2>6
<1>8. HostedBy(a, b) \subseteq Int
  BY <1>5
<1>9. \A i \in HostedBy(a, b) : \E r \in 0..Rounds - 1, k \in 1..WaveLength :
        i = r * WaveLength + k /\ GroupWave(r)[k] = <<a, b>>
  BY <1>1, <1>6, ZenonT(60)
<1>10. \A r \in 0..Rounds - 1, k \in 1..WaveLength :
         GroupWave(r)[k] = <<a, b>> => r * WaveLength + k \in HostedBy(a, b)
  BY <1>1, <1>7
<1> QED
  BY <1>8, <1>9, <1>10

\* Teams of different groups are in no wave together.
LEMMA Strangers ==
  ASSUME BracketInv, GroupsOver, NEW a \in Team, NEW b \in Team, ~SameGroup(a, b)
  PROVE  HostedBy(a, b) = {}
<1>1. SUFFICES ASSUME NEW i \in HostedBy(a, b) PROVE FALSE
  OBVIOUS
<1>2. Shape
  BY DEF BracketInv, BracketTypeOK, Shape
<1>3. PICK r \in 0..Rounds - 1, k \in 1..WaveLength : GroupWave(r)[k] = <<a, b>>
  BY <1>1, Hosted
<1>4. PICK x, y \in 1..format.size : GroupWave(r)[k] = <<TeamAt(GroupOf(k), x), TeamAt(GroupOf(k), y)>>
  BY <1>2, OfGroup
<1>5. GroupOf(k) \in 1..format.groups
  BY <1>2, WaveFacts
<1>6. SameGroup(TeamAt(GroupOf(k), x), TeamAt(GroupOf(k), y))
  BY <1>2, <1>5, TeamFacts
<1> QED
  BY <1>3, <1>4, <1>6

\* Where two rivals have met once, they have met once only.
LEMMA OnlyThere ==
  ASSUME BracketInv, GroupsOver, NEW g \in 1..format.groups, NEW x \in 1..format.size,
         NEW y \in 1..format.size,
         NEW r \in 0..Rounds - 1, NEW k \in 1..WaveLength,
         GroupWave(r)[k] = <<TeamAt(g, x), TeamAt(g, y)>>
  PROVE  /\ \E i : HostedBy(TeamAt(g, x), TeamAt(g, y)) = {i}
         /\ ~format.double => HostedBy(TeamAt(g, y), TeamAt(g, x)) = {}
<1> DEFINE a == TeamAt(g, x)
           b == TeamAt(g, y)
<1>1. Shape /\ Between(r, k, g, x, y)
  BY DEF BracketInv, BracketTypeOK, Shape, Between
<1>2. ASSUME NEW i \in HostedBy(a, b) PROVE i = r * WaveLength + k
  <2>1. PICK q \in 0..Rounds - 1, l \in 1..WaveLength : i = q * WaveLength + l /\ GroupWave(q)[l] = <<a, b>>
    BY <1>2, Hosted
  <2>2. Between(q, l, g, x, y)
    BY <2>1 DEF Between
  <2>3. k = l /\ r = q
    BY <1>1, <2>1, <2>2, MeetUnique
  <2> QED
    BY <2>1, <2>3
<1>3. r * WaveLength + k \in HostedBy(a, b)
  BY Hosted
<1>4. ASSUME ~format.double, NEW i \in HostedBy(b, a) PROVE FALSE
  <2>1. PICK q \in 0..Rounds - 1, l \in 1..WaveLength : GroupWave(q)[l] = <<b, a>>
    BY <1>4, Hosted
  <2>2. Between(q, l, g, x, y)
    BY <2>1 DEF Between
  <2>3. k = l /\ Leg(r) = Leg(q) /\ x # y
    BY <1>1, <2>2, MeetUnique, BetweenFacts
  <2>4. Rounds = Circle - 1 /\ Circle \in Nat
    BY <1>1, <1>4, CircleFacts
  <2>5. Leg(r) = r /\ Leg(q) = q
    BY <2>4 DEF Leg
  <2>6. a = b
    <3>1. q = r /\ l = k
      BY <2>3, <2>5
    <3>2. <<a, b>> = <<b, a>>
      BY <2>1, <3>1
    <3> QED
      BY <3>2
  <2> QED
    BY <1>1, <2>3, <2>6, TeamFacts
<1> HIDE DEF a, b
<1>5. HostedBy(a, b) = {r * WaveLength + k}
  BY <1>2, <1>3
<1> QED
  BY <1>4, <1>5 DEF a, b

\* Two teams of a group have met as often as the format says.
LEMMA RivalsMeet ==
  ASSUME BracketInv, GroupsOver, NEW g \in 1..format.groups, NEW x \in 1..format.size,
         NEW y \in 1..format.size, x # y
  PROVE  /\ format.double => \E i : HostedBy(TeamAt(g, x), TeamAt(g, y)) = {i}
         /\ ~format.double =>
              \/ /\ \E i : HostedBy(TeamAt(g, x), TeamAt(g, y)) = {i}
                 /\ HostedBy(TeamAt(g, y), TeamAt(g, x)) = {}
              \/ /\ \E i : HostedBy(TeamAt(g, y), TeamAt(g, x)) = {i}
                 /\ HostedBy(TeamAt(g, x), TeamAt(g, y)) = {}
<1>1. Shape
  BY DEF BracketInv, BracketTypeOK, Shape
<1>2. PICK l \in 0..Circle - 2, k \in 1..WaveLength :
        \A r \in 0..Rounds - 1 : Leg(r) = l => Between(r, k, g, x, y)
  BY <1>1, MeetExists
<1>3. Circle \in Nat /\ Rounds = IF format.double THEN 2 * (Circle - 1) ELSE Circle - 1
  BY <1>1, CircleFacts
<1>4. l \in 0..Rounds - 1 /\ Leg(l) = l
  BY <1>3 DEF Leg
<1>5. Between(l, k, g, x, y)
  BY <1>2, <1>4
<1>6. CASE ~format.double
  <2>1. CASE GroupWave(l)[k] = <<TeamAt(g, x), TeamAt(g, y)>>
    <3>1. \E i : HostedBy(TeamAt(g, x), TeamAt(g, y)) = {i}
      BY <1>4, <2>1, OnlyThere
    <3>2. HostedBy(TeamAt(g, y), TeamAt(g, x)) = {}
      BY <1>4, <1>6, <2>1, OnlyThere
    <3> QED
      BY <1>6, <3>1, <3>2
  <2>2. CASE GroupWave(l)[k] = <<TeamAt(g, y), TeamAt(g, x)>>
    <3>1. \E i : HostedBy(TeamAt(g, y), TeamAt(g, x)) = {i}
      BY <1>4, <2>2, OnlyThere
    <3>2. HostedBy(TeamAt(g, x), TeamAt(g, y)) = {}
      BY <1>4, <1>6, <2>2, OnlyThere
    <3> QED
      BY <1>6, <3>1, <3>2
  <2> QED
    BY <1>5, <2>1, <2>2 DEF Between
<1>7. CASE format.double
  <2>1. PICK q \in 0..Rounds - 1 : q = l + (Circle - 1) /\ q # l /\ Leg(q) = l
    <3>1. l + (Circle - 1) \in 0..Rounds - 1 /\ l + (Circle - 1) # l /\ Leg(l + (Circle - 1)) = l
      BY <1>3, <1>7 DEF Leg
    <3> QED
      BY <3>1
  <2>2. Between(q, k, g, x, y)
    BY <1>2, <2>1
  <2>3. GroupWave(l)[k] # GroupWave(q)[k]
    BY <1>1, <1>4, <1>5, <2>1, <2>2, MeetUnique
  <2>4. \/ GroupWave(l)[k] = <<TeamAt(g, x), TeamAt(g, y)>>
        \/ GroupWave(q)[k] = <<TeamAt(g, x), TeamAt(g, y)>>
    BY <1>5, <2>2, <2>3 DEF Between
  <2> QED
    BY <1>4, <1>7, <2>4, OnlyThere
<1> QED
  BY <1>6, <1>7

\* The schedule makes every pair meet.
LEMMA MeetingsCounted == BracketInv => EveryPairMeets
<1> SUFFICES ASSUME BracketInv, GroupsOver, NEW a \in Team, NEW b \in Team, a # b
             PROVE  LET home == Cardinality(HostedBy(a, b)) away == Cardinality(HostedBy(b, a))
                    IN IF ~SameGroup(a, b) THEN home = 0
                       ELSE IF format.double THEN home = 1 ELSE home + away = 1
  BY DEF EveryPairMeets, GroupsOver, Team
<1>1. Shape
  BY DEF BracketInv, BracketTypeOK, Shape
<1>2. Cardinality({}) = 0 /\ \A i : Cardinality({i}) = 1
  BY FS_EmptySet, FS_Singleton
<1>3. CASE ~SameGroup(a, b)
  BY <1>2, <1>3, Strangers
<1>4. CASE SameGroup(a, b)
  <2>1. PICK g, h \in 1..format.groups, x, y \in 1..format.size : a = TeamAt(g, x) /\ b = TeamAt(h, y)
    BY <1>1, TeamFacts
  <2>2. g = h
    BY <1>1, <1>4, <2>1, TeamFacts
  <2>3. x # y
    BY <2>1, <2>2
  <2>4. format.double \in BOOLEAN
    BY <1>1, ShapeFacts
  <2>5. CASE format.double
    <3>1. \E i : HostedBy(a, b) = {i}
      <4>1. \E i : HostedBy(TeamAt(g, x), TeamAt(g, y)) = {i}
        BY <2>3, <2>5, RivalsMeet
      <4> QED
        BY <2>1, <2>2, <4>1
    <3> QED
      BY <1>2, <1>4, <2>5, <3>1
  <2>6. CASE ~format.double
    <3>1. \/ (\E i : HostedBy(a, b) = {i}) /\ HostedBy(b, a) = {}
          \/ (\E i : HostedBy(b, a) = {i}) /\ HostedBy(a, b) = {}
      BY <2>1, <2>2, <2>3, <2>6, RivalsMeet
    <3>2. \/ Cardinality(HostedBy(a, b)) = 1 /\ Cardinality(HostedBy(b, a)) = 0
          \/ Cardinality(HostedBy(b, a)) = 1 /\ Cardinality(HostedBy(a, b)) = 0
      BY <1>2, <3>1
    <3> QED
      BY <1>4, <2>6, <3>2
  <2> QED
    BY <2>4, <2>5, <2>6
<1> QED
  BY <1>3, <1>4

-----------------------------------------------------------------------------
(* The podium is earned *)

\* The final and the beaten semi-finalists make the podium.
LEMMA PodiumFollows == BracketInv => PodiumIsEarned
<1> SUFFICES ASSUME BracketInv PROVE PodiumIsEarned
  OBVIOUS
<1>1. NoComeback /\ Unbeaten /\ LosersLost /\ Crowned /\ ThirdTrue
  BY DEF BracketInv, Knockout
<1>2. PICK c, s, t : c = podium.champion /\ s = podium.second /\ t = podium.third
  OBVIOUS
<1>3. ASSUME stage = "done"
      PROVE  /\ c # s /\ \A i \in Knocked(c) : Won(c, i)
             /\ \A i \in Knocked(s) : Won(s, i) \/ (Won(c, i) /\ i \in Knocked(c))
             /\ t # Nothing =>
                  /\ t \notin {c, s} /\ Met("third") # {}
                  /\ \A i \in Met("third") :
                       /\ t \in Sides(i) /\ Won(t, i) /\ Sides(i) \cap {c, s} = {}
                       /\ \A x \in Sides(i) : LostSemiFinal(x, {c, s})
  <2>1. PICK f : f \in Met("knockout") /\ (\A j \in Met("knockout") : j <= f) /\ c # s
                 /\ {reports[f].home, reports[f].away} = {c, s} /\ reports[f].round = round - 1
    BY <1>1, <1>2, <1>3 DEF Crowned, Final
  <2>2. Met("knockout") \subseteq Int
    BY DEF Met, BracketInv, BracketTypeOK
  <2>3. Len(current) = 1 /\ c = current[1]
    BY <1>1, <1>2, <1>3 DEF Crowned
  <2>4. \A i \in Knocked(c) : Won(c, i)
    BY <1>1, <2>3 DEF Unbeaten
  <2>5. ASSUME NEW i \in Knocked(s), i # f PROVE Won(s, i)
    <3>1. i \in Met("knockout") /\ i < f
      BY <2>1, <2>2, <2>5 DEF Knocked
    <3> QED
      BY <1>1, <2>1, <2>5, <3>1 DEF NoComeback
  <2>6. f \in Knocked(c) /\ Won(c, f)
    BY <2>1, <2>4 DEF Knocked
  <2>7. ASSUME NEW x \in Range(losers) PROVE x \notin {c, s} /\ LostSemiFinal(x, {c, s})
    <3>1. PICK k \in 1..Len(losers) : x = losers[k]
      BY <2>7 DEF Range, BracketInv, BracketTypeOK
    <3>2. PICK i \in Knocked(x) : /\ ~Won(x, i) /\ reports[i].round = round - 2
                                  /\ \E j \in Met("knockout") : i < j
      BY <1>1, <2>3, <3>1 DEF LosersLost, Beaten
    <3>3. i # f
      BY <2>1, <2>2, <3>2 DEF Knocked
    <3>4. reports[f].round = reports[i].round + 1
      BY <2>1, <3>2 DEF BracketInv, BracketTypeOK
    <3>5. LostSemiFinal(x, {c, s})
      BY <2>1, <3>2, <3>4 DEF LostSemiFinal, Sides
    <3> QED
      BY <2>4, <2>5, <3>2, <3>3, <3>5
  <2>8. t # Nothing => t \notin {c, s} /\ Met("third") # {}
    BY <1>1, <1>2, <2>7 DEF ThirdTrue
  <2>9. ASSUME NEW i \in Met("third")
        PROVE  /\ t \in Sides(i) /\ Won(t, i) /\ Sides(i) \cap {c, s} = {}
               /\ \A x \in Sides(i) : LostSemiFinal(x, {c, s})
    <3>1. Sides(i) \subseteq Range(losers) /\ t \in Sides(i) /\ Won(t, i)
      BY <1>1, <1>2, <2>9 DEF ThirdTrue, Sides, Won
    <3> QED
      BY <2>7, <3>1
  <2> QED
    BY <2>1, <2>4, <2>5, <2>6, <2>8, <2>9
<1> QED
  <2>1. \A i, j \in Met("knockout") :
          i < j => \A x \in Sides(j) : i \in Knocked(x) => Won(x, i)
    BY <1>1 DEF NoComeback, Sides
  <2> QED
    BY <1>2, <1>3, <2>1 DEF PodiumIsEarned

\* Every brain carries the matches of its team.
LEMMA BrainsFollow == BracketInv => BrainsCarryForward
BY DEF BracketInv, BrainsTrue, BrainsCarryForward, Team
-----------------------------------------------------------------------------
(* The best advance *)

\* A record is made of numbers.
LEMMA RecordTypes ==
  ASSUME BracketTypeOK, NEW t \in Team
  PROVE  record[t].points \in Int /\ record[t].difference \in Int /\ record[t].goals \in Int
<1>1. record \in [Team -> TeamRecord]
  BY DEF BracketTypeOK, Team
<1>2. PICK rec \in TeamRecord : rec = record[t]
  BY <1>1
<1>3. rec.points \in Int /\ rec.difference \in Int /\ rec.goals \in Int
  BY DEF TeamRecord
<1> QED
  BY <1>2, <1>3

\* Whoever the comparator puts before another has not done worse.
LEMMA BeforeIsNotWeaker ==
  ASSUME BracketTypeOK, NEW a \in Team, NEW b \in Team, Before(a, b)
  PROVE  ~Weaker(a, b)
<1>1. /\ record[a].points \in Int /\ record[b].points \in Int
      /\ record[a].difference \in Int /\ record[b].difference \in Int
      /\ record[a].goals \in Int /\ record[b].goals \in Int
  BY RecordTypes
<1>2. PICK p, d, g \in Int :
        p = record[a].points - record[b].points /\ d = record[a].difference - record[b].difference
        /\ g = record[a].goals - record[b].goals
  BY <1>1
<1>3. PICK m1, m2, z, n : m1 = Meetings(h2h, a, b)[1] /\ m2 = Meetings(h2h, a, b)[2]
                          /\ z = Seeds[b] - Seeds[a] /\ n = b - a
  OBVIOUS
<1>4. PICK lead : lead = <<p, d, g, m1, m2, z, n>>
  OBVIOUS
<1>5. \E k \in 1..7 : lead[k] > 0 /\ \A j \in 1..k - 1 : lead[j] = 0
  <2>1. DOMAIN lead = 1..7
    BY <1>4
  <2>2. \E k \in DOMAIN lead : lead[k] > 0 /\ \A j \in 1..k - 1 : lead[j] = 0
    BY <1>2, <1>3, <1>4 DEF Before
  <2> QED
    BY <2>1, <2>2
<1>6. lead[1] = p /\ lead[2] = d /\ lead[3] = g
  BY <1>4
<1>7. ~(p < 0) /\ ~(p = 0 /\ d < 0) /\ ~(p = 0 /\ d = 0 /\ g < 0)
  <2>1. PICK k \in 1..7 : lead[k] > 0 /\ \A j \in 1..k - 1 : lead[j] = 0
    BY <1>5
  <2>2. k = 1 => p > 0
    BY <1>6, <2>1
  <2>3. k # 1 => p = 0
    BY <1>6, <2>1
  <2>4. k = 2 => d > 0
    BY <1>6, <2>1
  <2>5. k > 2 => d = 0
    BY <1>6, <2>1
  <2>6. k = 3 => g > 0
    BY <1>6, <2>1
  <2>7. k > 3 => g = 0
    BY <1>6, <2>1
  <2> QED
    BY <2>2, <2>3, <2>4, <2>5, <2>6, <2>7
<1> QED
  BY <1>1, <1>2, <1>7 DEF Weaker

\* Not having done worse is transitive, although the comparator is not.
LEMMA NotWeakerChains ==
  ASSUME BracketTypeOK, NEW a \in Team, NEW b \in Team, NEW c \in Team, ~Weaker(a, b), ~Weaker(b, c)
  PROVE  ~Weaker(a, c)
<1>1. \A t \in Team : record[t].points \in Int /\ record[t].difference \in Int /\ record[t].goals \in Int
  BY RecordTypes
<1> QED
  BY <1>1 DEF Weaker

\* So a chain of neighbours in order has no one above who did worse.
LEMMA RankedInOrder ==
  ASSUME BracketTypeOK, NEW g \in 1..format.groups, NEW s \in Rankings(g),
         NEW i \in 1..format.size, NEW j \in 1..format.size, i < j
  PROVE  ~Weaker(s[i], s[j])
<1>1. PICK size \in Nat : size = format.size
  BY ShapeFacts DEF BracketTypeOK, Shape
<1>2. s \in [1..size -> Team]
  BY <1>1, RankingFacts DEF BracketTypeOK, Shape
<1>3. \A k \in 1..size - 1 : Before(s[k], s[k + 1])
  BY <1>1 DEF Rankings
<1>4. ASSUME NEW k \in 1..size - 1 PROVE ~Weaker(s[k], s[k + 1])
  <2>1. s[k] \in Team /\ s[k + 1] \in Team
    BY <1>1, <1>2
  <2> QED
    BY <1>3, <2>1, BeforeIsNotWeaker
<1> DEFINE S == {n \in Nat : i + 1 + n <= size => ~Weaker(s[i], s[i + 1 + n])}
<1>5. 0 \in S
  <2>1. SUFFICES ASSUME i + 1 <= size PROVE ~Weaker(s[i], s[i + 1])
    BY i + 1 + 0 = i + 1
  <2>2. i \in 1..size - 1
    BY <1>1, <2>1
  <2> QED
    BY <1>4, <2>2
<1>6. ASSUME NEW n \in Nat, n \in S PROVE n + 1 \in S
  <2>1. SUFFICES ASSUME i + 1 + (n + 1) <= size PROVE ~Weaker(s[i], s[i + 1 + (n + 1)])
    OBVIOUS
  <2>2. PICK k : k = i + 1 + n
    OBVIOUS
  <2>3. k \in 1..size - 1 /\ i + 1 + (n + 1) = k + 1 /\ i \in 1..size
    BY <1>1, <2>1, <2>2
  <2>4. ~Weaker(s[i], s[k])
    BY <1>1, <1>6, <2>1, <2>2
  <2>5. ~Weaker(s[k], s[k + 1])
    BY <1>4, <2>3
  <2>6. s[i] \in Team /\ s[k] \in Team /\ s[k + 1] \in Team
    BY <1>1, <1>2, <2>3
  <2>7. ~Weaker(s[i], s[k + 1])
    BY <2>4, <2>5, <2>6, NotWeakerChains
  <2> QED
    BY <2>3, <2>7
<1> HIDE DEF S
<1>7. Nat \subseteq S
  BY <1>5, <1>6, SetInduction
<1>8. j - i - 1 \in S
  <2>1. j - i - 1 \in Nat
    BY <1>1
  <2> QED
    BY <1>7, <2>1
<1>9. i + 1 + (j - i - 1) = j /\ j <= size
  BY <1>1
<1> QED
  BY <1>8, <1>9 DEF S

\* Two advancers a group and a power of two: one group or an even number.
LEMMA EvenGroups ==
  ASSUME Shape, format.advancers = 2, format.groups > 1
  PROVE  format.groups % 2 = 0
<1>1. PICK n \in Nat : n = format.groups /\ n > 1
  BY ShapeFacts
<1>2. PowerOfTwo(n * 2)
  BY <1>1 DEF Shape, Valid
<1>3. n \in 2..n * 2 /\ (n * 2) % n = 0
  <2>1. n * 2 = 2 * n + 0 /\ 0 \in 0..n - 1 /\ n \in Nat \ {0} /\ n * 2 \in Int
    BY <1>1
  <2>2. (n * 2) % n = 0
    BY <2>1, Division
  <2> QED
    BY <1>1, <2>2
<1> QED
  BY <1>1, <1>2, <1>3 DEF PowerOfTwo

\* Bracket b is of exactly the advancers of tab, and of n > 1 groups no two
\* of the same meet.
Fills(b, tab, n) ==
  /\ \A i \in 1..Len(b) : \E g \in 1..n, p \in 1..format.advancers : b[i] = tab[g][p]
  /\ \A g \in 1..n, p \in 1..format.advancers : \E i \in 1..Len(b) : b[i] = tab[g][p]
  /\ n > 1 => \A i \in 1..Len(b) \div 2 : ~SameGroup(b[2 * i - 1], b[2 * i])

\* With at most two advancers a group, the bracket is exactly those.
LEMMA BracketRange ==
  ASSUME Shape, NEW tab, Ranked(tab), format.advancers <= 2
  PROVE  Fills(Bracket(tab), tab, format.groups)
<1>1. PICK n \in Nat \ {0} : n = format.groups
  BY ShapeFacts
<1>2. /\ format.advancers \in {1, 2} /\ 1 \in 1..format.size /\ format.size \in Nat
      /\ (format.advancers = 2 => 2 \in 1..format.size)
  BY ShapeFacts
<1>3. PICK b : b = Bracket(tab)
  OBVIOUS
<1>4. CASE format.advancers = 1
  <2>1. b = [g \in 1..n |-> tab[g][1]] /\ Len(b) = n
    BY <1>1, <1>3, <1>4, BracketCells
  <2>2. \A g \in 1..n : b[g] = tab[g][1]
    BY <2>1
  <2>3. 1..format.advancers = {1}
    BY <1>4
  <2>4. \A i \in 1..n : \E g \in 1..n, p \in 1..format.advancers : b[i] = tab[g][p]
    BY <2>2, <2>3
  <2>5. \A g \in 1..n, p \in 1..format.advancers : \E i \in 1..n : b[i] = tab[g][p]
    BY <2>2, <2>3
  <2>6. ASSUME NEW i \in 1..n \div 2 PROVE ~SameGroup(b[2 * i - 1], b[2 * i])
    <3>1. 2 * i - 1 \in 1..n /\ 2 * i \in 1..n /\ 2 * i - 1 # 2 * i
      OBVIOUS
    <3>2. b[2 * i - 1] = tab[2 * i - 1][1] /\ b[2 * i] = tab[2 * i][1]
      BY <2>2, <3>1
    <3>3. ~SameGroup(tab[2 * i - 1][1], tab[2 * i][1])
      BY <1>1, <1>2, <3>1, RankedFacts
    <3> QED
      BY <3>2, <3>3
  <2>7. Fills(b, tab, n)
    <3>1. \A i \in 1..Len(b) : \E g \in 1..n, p \in 1..format.advancers : b[i] = tab[g][p]
      BY <2>1, <2>4
    <3>2. \A g \in 1..n, p \in 1..format.advancers : \E i \in 1..Len(b) : b[i] = tab[g][p]
      BY <2>1, <2>5
    <3>3. \A i \in 1..Len(b) \div 2 : ~SameGroup(b[2 * i - 1], b[2 * i])
      BY <2>1, <2>6
    <3> QED
      BY <3>1, <3>2, <3>3 DEF Fills
  <2> QED
    BY <1>1, <1>3, <2>7
<1>5. CASE format.advancers = 2
  <2>1. Len(b) = 2 * n
    BY <1>1, <1>3, <1>5, BracketFacts
  <2>2. ASSUME NEW g \in 1..n PROVE OtherGroup(g) = g /\ OtherPlace(g) = 2
    <3>1. (g - 1) \div 1 = g - 1 /\ (g - 1) % 1 = 0
      BY Division, g - 1 = (g - 1) * 1 + 0
    <3> QED
      BY <1>5, <3>1 DEF OtherGroup, OtherPlace
  <2>3. ASSUME NEW g \in 1..n
        PROVE  /\ b[2 * g - 1] = tab[g][1] /\ b[2 * g] = tab[Rival(g)][2]
               /\ Rival(g) \in 1..n /\ Rival(Rival(g)) = g
               /\ 2 * g - 1 \in 1..2 * n /\ 2 * g \in 1..2 * n
    <3>1. Rival(g) \in 1..n /\ Rival(Rival(g)) = g
      BY <1>1, RivalFacts
    <3>2. OtherGroup(Rival(g)) = Rival(g) /\ OtherPlace(Rival(g)) = 2
      BY <2>2, <3>1
    <3>3. b[2 * g - 1] = tab[g][1] /\ b[2 * g] = tab[OtherGroup(Rival(g))][OtherPlace(Rival(g))]
      BY <1>1, <1>3, <1>5, BracketCells
    <3> QED
      BY <3>1, <3>2, <3>3
  <2>4. 1..format.advancers = {1, 2}
    BY <1>5
  <2>5. ASSUME NEW i \in 1..2 * n PROVE \E g \in 1..n, p \in {1, 2} : b[i] = tab[g][p]
    <3>1. PICK g \in 1..n : i = 2 * g - 1 \/ i = 2 * g
      BY Parity
    <3> QED
      BY <2>3, <3>1
  <2>6. ASSUME NEW g \in 1..n, NEW p \in {1, 2} PROVE \E i \in 1..2 * n : b[i] = tab[g][p]
    <3>1. CASE p = 1
      BY <2>3, <3>1
    <3>2. CASE p = 2
      <4>1. PICK h \in 1..n : h = Rival(g) /\ Rival(h) = g
        BY <2>3
      <4>2. b[2 * h] = tab[g][2] /\ 2 * h \in 1..2 * n
        BY <2>3, <4>1
      <4> QED
        BY <3>2, <4>2
    <3> QED
      BY <3>1, <3>2
  <2>7. ASSUME n > 1, NEW i \in 1..n PROVE ~SameGroup(b[2 * i - 1], b[2 * i])
    <3>1. Rival(i) # i
      <4>1. n % 2 = 0
        BY <1>1, <1>5, <2>7, EvenGroups
      <4> QED
        BY <1>1, <1>5, <4>1 DEF Rival
    <3>2. PICK h \in 1..n : h = Rival(i) /\ h # i
      BY <2>3, <3>1
    <3>3. ~SameGroup(tab[i][1], tab[h][2])
      BY <1>1, <1>2, <1>5, <3>2, RankedFacts
    <3> QED
      BY <2>3, <3>2, <3>3
  <2>8. (2 * n) \div 2 = n
    OBVIOUS
  <2>9. Fills(b, tab, n)
    <3>1. \A i \in 1..Len(b) : \E g \in 1..n, p \in 1..format.advancers : b[i] = tab[g][p]
      BY <2>1, <2>4, <2>5, SMTT(30)
    <3>2. \A g \in 1..n, p \in 1..format.advancers : \E i \in 1..Len(b) : b[i] = tab[g][p]
      BY <2>1, <2>4, <2>6
    <3>3. n > 1 => \A i \in 1..Len(b) \div 2 : ~SameGroup(b[2 * i - 1], b[2 * i])
      BY <2>1, <2>7, <2>8
    <3> QED
      BY <3>1, <3>2, <3>3 DEF Fills
  <2> QED
    BY <1>1, <1>3, <2>9
<1> QED
  BY <1>2, <1>4, <1>5

\* The bracket is made of the best of each group.
LEMMA AdvanceFollows == BracketInv => BestAdvance
<1> SUFFICES ASSUME BracketInv, stage = "knockout", round = 0, format.advancers <= 2
             PROVE  /\ IsInjective(current) /\ Range(current) = {t \in Team : Advanced(t)}
                    /\ \A a, b \in Team : Advanced(a) /\ ~Advanced(b) /\ SameGroup(a, b) => ~Weaker(a, b)
                    /\ format.groups > 1 =>
                         \A i \in DOMAIN Pairs(current) :
                           ~SameGroup(Pairs(current)[i][1], Pairs(current)[i][2])
  BY DEF BestAdvance, Team
<1>1. Shape /\ BracketTypeOK
  BY DEF BracketInv, BracketTypeOK, Shape
<1>2. Ranked(tables) /\ current = Bracket(tables)
  BY DEF BracketInv, Seeded, Ranked
<1>3. DOMAIN current = 1..Len(current) /\ Len(current) \in Nat
  BY DEF BracketInv, BracketTypeOK
<1>4. IsInjective(current)
  BY <1>3 DEF BracketInv, Distinct, IsInjective
<1>5. format.advancers \in 1..format.size /\ format.size \in Nat
  BY <1>1, ShapeFacts
<1>6. \A g \in 1..format.groups, p \in 1..format.advancers : tables[g][p] \in Team /\ p \in 1..format.size
  BY <1>1, <1>2, <1>5, RankedFacts
<1>10. Fills(current, tables, format.groups)
  BY <1>1, <1>2, BracketRange
<1>7. Range(current) = {t \in Team : Advanced(t)}
  <2>1. ASSUME NEW t \in Range(current) PROVE t \in Team /\ Advanced(t)
    <3>1. PICK i \in 1..Len(current) : t = current[i]
      BY <1>3 DEF Range
    <3>2. PICK g \in 1..format.groups, p \in 1..format.advancers : t = tables[g][p]
      BY <1>10, <3>1 DEF Fills
    <3> QED
      BY <1>6, <3>2 DEF Advanced
  <2>2. ASSUME NEW t, Advanced(t) PROVE t \in Range(current)
    <3>1. PICK g \in 1..format.groups, p \in 1..format.advancers : t = tables[g][p]
      BY <2>2 DEF Advanced
    <3>2. PICK i \in 1..Len(current) : current[i] = t
      BY <1>10, <3>1 DEF Fills
    <3> QED
      BY <1>3, <3>2 DEF Range
  <2> QED
    BY <2>1, <2>2
<1>8. ASSUME NEW a \in Team, NEW b \in Team, Advanced(a), ~Advanced(b), SameGroup(a, b)
      PROVE  ~Weaker(a, b)
  <2>1. PICK g \in 1..format.groups, p \in 1..format.advancers : a = tables[g][p]
    BY <1>8 DEF Advanced
  <2>2. PICK h \in 1..format.groups, x \in 1..format.size : b = TeamAt(h, x)
    BY <1>1, TeamFacts
  <2>3. PICK q \in 1..format.size : tables[h][q] = b
    <3>1. PICK s \in Rankings(h) : s = tables[h]
      BY <1>2 DEF Ranked
    <3>2. \E q \in 1..format.size : s[q] = TeamAt(h, x)
      BY <1>1, RankingFacts
    <3> QED
      BY <2>2, <3>1, <3>2
  <2>4. g = h
    BY <1>1, <1>2, <1>6, <1>8, <2>1, <2>3, RankedFacts
  <2>5. q \notin 1..format.advancers
    BY <1>8, <2>3 DEF Advanced
  <2>6. p < q /\ p \in 1..format.size
    BY <1>5, <2>5
  <2>7. ~Weaker(tables[g][p], tables[g][q])
    BY <1>1, <1>2, <2>6, RankedInOrder DEF Ranked
  <2> QED
    BY <2>1, <2>3, <2>4, <2>7
<1>9. ASSUME format.groups > 1, NEW i \in DOMAIN Pairs(current)
      PROVE  ~SameGroup(Pairs(current)[i][1], Pairs(current)[i][2])
  <2>1. i \in 1..Len(current) \div 2 /\ Pairs(current)[i] = <<current[2 * i - 1], current[2 * i]>>
    BY <1>9 DEF Pairs
  <2>2. ~SameGroup(current[2 * i - 1], current[2 * i])
    BY <1>9, <1>10, <2>1 DEF Fills
  <2> QED
    BY <2>1, <2>2
<1> QED
  BY <1>4, <1>7, <1>8, <1>9

-----------------------------------------------------------------------------
(* Theorems of the bracket *)

(* Every variable of a tournament stays in its range, and what the reports  *)
(* name are teams of the format.                                            *)
THEOREM BracketTypeCorrect == BracketSpec => []BracketTypeOK
<1>1. BracketInv => BracketTypeOK
  BY DEF BracketInv
<1> QED
  BY <1>1, BracketInvAlways, PTL

(* For every number of groups and every size of them, odd ones with their   *)
(* byes included, the waves of the circle method make every two teams of a  *)
(* group meet as often as the format says, and no others.                   *)
THEOREM EveryPairHasMet == BracketSpec => []EveryPairMeets
  BY BracketInvAlways, MeetingsCounted, PTL

(* However many threads play a wave and in whatever order they end, no      *)
(* brain loses a match to the copies made before the wave.                  *)
THEOREM BrainsAreCarried == BracketSpec => []BrainsCarryForward
  BY BracketInvAlways, BrainsFollow, PTL

(* Although the comparator of a table may be cyclic, no team advances that  *)
(* did worse than a rival left behind, and no rivals meet at once.          *)
THEOREM BestTeamsAdvance == BracketSpec => []BestAdvance
  BY BracketInvAlways, AdvanceFollows, PTL

(* In a bracket of any size the champion is unbeaten, the runner-up lost    *)
(* only to him, the third won the match of two teams that lost in the round *)
(* before the final, and no team plays on after a defeat.                   *)
THEOREM PodiumAlwaysEarned == BracketSpec => []PodiumIsEarned
  BY BracketInvAlways, PodiumFollows, PTL
=============================================================================
