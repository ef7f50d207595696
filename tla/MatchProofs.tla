----------------------------- MODULE MatchProofs -----------------------------
(***************************************************************************)
(* Proofs about a match for every squad, match length, division into       *)
(* halves and periods, and celebration length: type correctness, the       *)
(* safety properties of MatchControl, and that MatchControl implements     *)
(* Lifecycle.  Every invariant is preserved by every action of a tick; the *)
(* ones that are not inductive alone are proved together with the          *)
(* strengthening named beside them.  The contract has limits and a state   *)
(* of its own in the last section.                                         *)
(***************************************************************************)
EXTENDS MatchLifecycle, TLAPS

-----------------------------------------------------------------------------
(* Constants *)

(* Squads: every player is on one of the two teams, a keeper is on his own  *)
(* team, and the other team of a team is a team.                            *)
LEMMA SquadFacts ==
  /\ \A p \in Players : Squad[p] \in Teams /\ Squad[p] # Other(Squad[p])
  /\ \A t \in Teams : Other(t) \in Teams /\ Other(t) # t /\ Other(Other(t)) = t
  /\ \A t \in Teams : Keeper[t] \in Players /\ Squad[Keeper[t]] = t
BY SquadsAssumption DEF SquadsAssumption, Teams, Other

(* The kickoff after a boundary belongs to one of the teams. *)
LEMMA BoundaryTeam == ASSUME NEW n PROVE BoundaryKickoffTeam(n) \in Teams
BY DEF BoundaryKickoffTeam, KickoffTeamForPeriod, KickoffTeamForHalf, Teams

-----------------------------------------------------------------------------
(* Type correctness *)

BallType ==
  /\ holder \in Players \union {None}
  /\ lastTouch \in Teams
  /\ guard \in Players \union {None}
  /\ pass \in {None} \union SUBSET Players
  /\ shot \in Players \union {None}
  /\ flight \in {None} \union SUBSET Players
  /\ restart \in RestartKinds \union {NoRestart}
  /\ atSpot \in BOOLEAN
  /\ goalKick \in Teams \union {None}
  /\ inBox \in BOOLEAN
  /\ toucher \in Players

LEMMA PlaceBallType ==
  ASSUME BallType, NEW p \in Players, NEW kind \in RestartKinds,
         PlaceBall(p, kind), flight' \in {flight, None},
         goalKick' \in Teams \union {None}, inBox' \in BOOLEAN
  PROVE  BallType'
BY SquadFacts DEF BallType, PlaceBall, Plays

LEMMA AwardType ==
  ASSUME BallType, NEW t \in Teams, NEW kind \in RestartKinds,
         AwardRestart(kind, t), flight' \in {flight, None}
  PROVE  BallType'
<1>1. PICK p \in SquadOf(t) : PlaceBall(p, kind)
  BY DEF AwardRestart
<1>2. p \in Players
  BY DEF SquadOf
<1>3. goalKick' \in Teams \union {None} /\ inBox' \in BOOLEAN
  BY DEF AwardRestart
<1> QED
  BY <1>1, <1>2, <1>3, PlaceBallType

LEMMA KickoffType ==
  ASSUME BallType, NEW t \in Teams, Kickoff(t), goalKick' \in Teams \union {None}
  PROVE  BallType'
<1>1. PICK p \in Outfielders(t) : PlaceBall(p, "kickoff")
  BY DEF Kickoff
<1>2. p \in Players /\ inBox' = FALSE /\ flight' = flight
  BY DEF Outfielders, SquadOf, Kickoff
<1> QED
  BY <1>1, <1>2, PlaceBallType DEF RestartKinds

LEMMA OffsideType ==
  ASSUME BallType, NEW a \in Players, CallOffside(a), flight' \in {flight, None}
  PROVE  BallType'
<1>1. PICK p \in SquadOf(Other(Squad[a])) : PlaceBall(p, "offside")
  BY DEF CallOffside
<1>2. p \in Players /\ goalKick' = goalKick /\ inBox' \in BOOLEAN
  BY DEF SquadOf, CallOffside, MayLeaveBox, BallType
<1>3. goalKick' \in Teams \union {None}
  BY <1>2 DEF BallType
<1> QED
  BY <1>1, <1>2, <1>3, PlaceBallType DEF RestartKinds

LEMMA PlayerStepType == ASSUME BallType, PlayerStep PROVE BallType'
<1>1. PICK p \in Players :
        \/ PassBall(p) \/ ClearBall(p) \/ Shoot(p) \/ KnockPast(p)
        \/ HeavyTouch(p) \/ DriftOffSpot(p)
        \/ WinTackle(p) \/ LoseTackle(p) \/ Foul(p)
  BY DEF PlayerStep
<1>2. ASSUME Release(p), RecordTouch(p) \/ guard' = guard,
             pass' \in {None} \union SUBSET Players, shot' \in Players \union {None},
             flight' \in {None} \union SUBSET Players
      PROVE  BallType'
  BY <1>2, SquadFacts DEF BallType, Release, RecordTouch, Plays, ClearLabel,
                          MayLeaveBox
<1>3. OffsideWhenPlayedBy(p) \subseteq SUBSET Players
  BY DEF OffsideWhenPlayedBy, Mates, SquadOf
<1>4. CASE PassBall(p)
  BY <1>2, <1>3, <1>4 DEF PassBall, BallType
<1>5. CASE ClearBall(p)
  BY <1>2, <1>3, <1>5 DEF ClearBall, BallType
<1>6. CASE Shoot(p)
  BY <1>2, <1>6 DEF Shoot, BallType
<1>7. CASE KnockPast(p)
  BY <1>2, <1>7 DEF KnockPast, BallType
<1>8. CASE HeavyTouch(p)
  BY <1>2, <1>8 DEF HeavyTouch, BallType
<1>9. CASE DriftOffSpot(p)
  BY <1>9 DEF DriftOffSpot, BallType, MayLeaveBox
<1>10. CASE WinTackle(p)
  BY <1>10, SquadFacts DEF WinTackle, Dispossesses, Plays, RecordTouch, BallType,
                           MayLeaveBox
<1>11. CASE LoseTackle(p)
  BY <1>11, SquadFacts DEF LoseTackle, BeatsDefender, Plays, RecordTouch, BallType
<1>12. CASE Foul(p)
  <2>1. Squad[holder] \in Teams
    BY <1>12, SquadFacts DEF Foul, BallType
  <2> QED
    BY <1>12, <2>1, AwardType DEF Foul, RestartKinds
<1> QED
  BY <1>1, <1>4, <1>5, <1>6, <1>7, <1>8, <1>9, <1>10, <1>11, <1>12

LEMMA BallStepType == ASSUME BallType, BallStep PROVE BallType'
<1>1. OffsideCandidates \subseteq Players
  BY DEF OffsideCandidates, BallType
<1>2. Controllers \subseteq Players
  BY DEF Controllers
<1>3. MayDieOut \subseteq Players \union {None}
  BY DEF MayDieOut, BallType
<1>4. CASE CarriedBall
  BY <1>4, SquadFacts DEF CarriedBall, BallType, MayLeaveBox
<1>5. CASE Roll
  BY <1>3, <1>5 DEF Roll, BallType, ClearLabel, MayLeaveBox
<1>6. CASE OffsideInterference
  BY <1>1, <1>6, OffsideType DEF OffsideInterference
<1>7. CASE OffsideAtControl
  BY <1>1, <1>7, OffsideType DEF OffsideAtControl
<1>8. CASE AerialHeader
  BY <1>2, <1>8, SquadFacts DEF AerialHeader, BallType, Plays, ClearLabel, MayLeaveBox
<1>9. CASE SettleControl
  BY <1>2, <1>9, SquadFacts DEF SettleControl, BallType, Plays, RecordTouch, ClearLabel
<1>10. CASE RetakeGoalKick
  <2>1. goalKick \in Teams
    BY <1>10 DEF RetakeGoalKick, BallType
  <2> QED
    BY <1>10, <2>1, AwardType DEF RetakeGoalKick, RestartKinds
<1>11. CASE KeeperSave
  <2>1. ShotKeepers \subseteq Players
    BY <1>11, SquadFacts DEF KeeperSave, ShotKeepers, BallType
  <2> QED
    BY <1>11, <2>1, SquadFacts DEF KeeperSave, BallType, Plays, ClearLabel, MayLeaveBox
<1>12. CASE ShotBlocked
  BY <1>12, SquadFacts DEF ShotBlocked, BallType, Plays, ClearLabel, MayLeaveBox, SquadOf
<1>13. CASE Goal
  BY <1>13, SquadFacts DEF Goal, BallType, ClearLabel, MayLeaveBox
<1>14. CASE ThrowIn
  <2>1. Other(lastTouch) \in Teams
    BY SquadFacts DEF BallType
  <2> QED
    BY <1>14, <2>1, AwardType DEF ThrowIn, RestartKinds
<1>15. CASE OverEndline
  <2>1. PICK d \in Teams : AwardRestart("corner-kick", Other(d)) \/ AwardRestart("goal-kick", d)
    BY <1>15 DEF OverEndline
  <2>2. Other(d) \in Teams
    BY SquadFacts
  <2> QED
    BY <1>15, <2>1, <2>2, AwardType DEF OverEndline, RestartKinds
<1> QED
  BY <1>4, <1>5, <1>6, <1>7, <1>8, <1>9, <1>10, <1>11, <1>12, <1>13, <1>14, <1>15
     DEF BallStep, Control

(* The clock, the score and the celebration. *)
ClockType ==
  /\ tick \in 0..TotalTicks
  /\ phase \in {"idle", "field", "stuck", "livelock", "post"}
  /\ phase # "idle" => tick < TotalTicks
  /\ todo \subseteq Players \union {Ball}
  /\ marked \subseteq 1..TotalTicks

GoalType ==
  /\ score \in [Teams -> Nat]
  /\ celebration \in 0..CelebrationTicks
  /\ kickoffTeam \in Teams \union {None}
  /\ lastScorer \in Teams \union {None}
  /\ kickoffs \in Nat

LEMMA TypeParts == TypeOK <=> BallType /\ ClockType /\ GoalType
BY DEF TypeOK, BallType, ClockType, GoalType

LEMMA InitType == Init => TypeOK
<1> SUFFICES ASSUME Init PROVE TypeOK
  OBVIOUS
<1>1. BallType
  BY DEF Init, BallType, Outfielders, SquadOf, Teams
<1>2. ClockType
  BY ClockAssumption DEF Init, ClockType, ClockAssumption
<1>3. GoalType
  BY ClockAssumption DEF Init, GoalType, ClockAssumption
<1> QED
  BY <1>1, <1>2, <1>3, TypeParts

LEMMA ClockStep == ASSUME ClockType, Next PROVE ClockType'
<1>1. CASE BeginTick
  BY <1>1 DEF BeginTick, ClockType
<1>2. CASE CelebrationTick
  BY <1>2, ClockAssumption DEF CelebrationTick, ClockType, ClockAssumption
<1>3. CASE PlayerStep
  <2>1. PICK p \in Players : Acts(p)
    BY <1>3 DEF PlayerStep, PassBall, ClearBall, Shoot, KnockPast, HeavyTouch,
                DriftOffSpot, WinTackle, LoseTackle, Foul
  <2> QED
    BY <2>1 DEF Acts, ClockType
<1>4. CASE BallStep
  BY <1>4 DEF BallStep, ClockType
<1>5. CASE StuckBallWatchdog
  BY <1>5 DEF StuckBallWatchdog, ClockType
<1>6. CASE LivelockWatchdog
  BY <1>6 DEF LivelockWatchdog, ClockType
<1>7. CASE FinishSchedule
  BY <1>7 DEF FinishSchedule, ClockType
<1>8. CASE EndTick
  <2>1. tick' \in 1..TotalTicks /\ phase' = "idle" /\ todo' = todo
    BY <1>8, ClockAssumption DEF EndTick, ClockType, ClockAssumption
  <2>2. marked' \subseteq marked \union {tick'}
    BY <1>8 DEF EndTick
  <2> QED
    BY <2>1, <2>2, ClockAssumption DEF ClockType, ClockAssumption
<1> QED
  BY <1>1, <1>2, <1>3, <1>4, <1>5, <1>6, <1>7, <1>8 DEF Next

(* The outcomes of the ball that are not a goal leave the goals alone. *)
LEMMA BallStepGoals ==
  ASSUME BallStep PROVE UNCHANGED goals \/ Goal
BY DEF BallStep, CarriedBall, Roll, OffsideInterference, OffsideAtControl,
       AerialHeader, Control, SettleControl, RetakeGoalKick, KeeperSave,
       ShotBlocked, ThrowIn, OverEndline

(* Only a celebration tick and a goal change the goals. *)
LEMMA GoalsChange ==
  ASSUME Next PROVE UNCHANGED goals \/ CelebrationTick \/ (BallStep /\ Goal)
<1>1. CASE PlayerStep
  BY <1>1 DEF PlayerStep, PassBall, ClearBall, Shoot, KnockPast, HeavyTouch,
              DriftOffSpot, WinTackle, LoseTackle, Foul, Acts
<1>2. CASE BallStep
  BY <1>2, BallStepGoals
<1> QED
  BY <1>1, <1>2 DEF Next, BeginTick, StuckBallWatchdog, LivelockWatchdog,
                    FinishSchedule, EndTick

LEMMA GoalTypeStep == ASSUME GoalType, Next PROVE GoalType'
<1>1. CASE UNCHANGED goals
  BY <1>1 DEF goals, GoalType
<1>2. CASE CelebrationTick
  BY <1>2, ClockAssumption DEF CelebrationTick, GoalType, ClockAssumption
<1>3. CASE Goal
  <2>1. PICK t \in Teams : ScoreGoal(t)
    BY <1>3 DEF Goal
  <2> QED
    BY <2>1, SquadFacts, ClockAssumption DEF ScoreGoal, GoalType, ClockAssumption
<1> QED
  BY <1>1, <1>2, <1>3, GoalsChange

LEMMA BallTypeStep == ASSUME BallType, ClockType, GoalType, Next PROVE BallType'
<1>1. CASE BeginTick
  BY <1>1 DEF BeginTick, BallType
<1>2. CASE CelebrationTick
  <2>1. CASE celebration = 1 /\ kickoffTeam # None
    <3>1. Kickoff(kickoffTeam) /\ goalKick' = goalKick /\ kickoffTeam \in Teams
      BY <1>2, <2>1 DEF CelebrationTick, GoalType
    <3> QED
      BY <3>1, KickoffType DEF BallType
  <2>2. CASE ~(celebration = 1 /\ kickoffTeam # None)
    BY <1>2, <2>2 DEF CelebrationTick, BallType
  <2> QED
    BY <2>1, <2>2
<1>3. CASE PlayerStep
  BY <1>3, PlayerStepType
<1>4. CASE BallStep
  BY <1>4, BallStepType
<1>5. CASE StuckBallWatchdog
  <2>1. CASE UNCHANGED ballVars
    BY <2>1 DEF BallType, ballVars
  <2>2. CASE ~UNCHANGED ballVars
    <3>1. PICK b \in IF holder = None THEN Players ELSE {holder} : Plays(b)
      BY <1>5, <2>2 DEF StuckBallWatchdog
    <3>2. b \in Players
      BY <3>1 DEF BallType
    <3> QED
      BY <1>5, <2>2, <3>1, <3>2, SquadFacts
         DEF StuckBallWatchdog, BallType, Plays, ClearLabel, MayLeaveBox
  <2> QED
    BY <2>1, <2>2
<1>6. CASE LivelockWatchdog
  BY <1>6 DEF LivelockWatchdog, BallType, ballVars, ClearLabel, MayLeaveBox
<1>7. CASE FinishSchedule
  BY <1>7, SquadFacts DEF FinishSchedule, BallType, ballVars, Dispossesses,
                          BeatsDefender, Plays, RecordTouch, MayLeaveBox
<1>8. CASE EndTick
  <2>1. goalKick' \in Teams \union {None}
    BY <1>8 DEF EndTick, BallType
  <2>2. CASE IsBoundary(tick + 1)
    <3>1. Kickoff(BoundaryKickoffTeam(tick + 1))
      BY <1>8, <2>2 DEF EndTick
    <3> QED
      BY <2>1, <3>1, BoundaryTeam, KickoffType
  <2>3. CASE ~IsBoundary(tick + 1)
    <3>1. inBox' = inBox
      BY <1>8, <2>3 DEF EndTick
    <3>2. CASE ForcedRelease
      BY <2>1, <3>1, <3>2, SquadFacts DEF ForcedRelease, BallType, Plays, ClearLabel
    <3>3. CASE UNCHANGED <<holder, lastTouch, guard, pass, shot, flight,
                           restart, atSpot, toucher>>
      BY <2>1, <3>1, <3>3 DEF BallType
    <3> QED
      BY <1>8, <2>3, <3>2, <3>3 DEF EndTick
  <2> QED
    BY <2>2, <2>3
<1> QED
  BY <1>1, <1>2, <1>3, <1>4, <1>5, <1>6, <1>7, <1>8 DEF Next

(* A stuttering step changes no variable of the type invariant. *)
LEMMA TypeStutter == TypeOK /\ UNCHANGED vars => TypeOK'
BY DEF TypeOK, vars

(* TypeOK holds in every reachable state: in particular the match clock     *)
(* never runs past total_ticks and is not entered again at full time.       *)
THEOREM TypeCorrect == Spec => []TypeOK
<1>1. Init => TypeOK
  BY InitType
<1>2. TypeOK /\ [Next]_vars => TypeOK'
  <2>1. ASSUME TypeOK, Next PROVE TypeOK'
    <3>1. BallType /\ ClockType /\ GoalType
      BY <2>1, TypeParts
    <3>2. BallType' /\ ClockType' /\ GoalType'
      BY <2>1, <3>1, BallTypeStep, ClockStep, GoalTypeStep
    <3> QED
      BY <3>2 DEF TypeOK, BallType, ClockType, GoalType
  <2> QED
    BY <2>1, TypeStutter
<1> QED
  BY <1>1, <1>2, PTL DEF Spec

-----------------------------------------------------------------------------
(* At most one of a pass and a shot is pending, and none while the ball is  *)
(* held.  The first part is what a keeper's save needs: it ends the shot    *)
(* and never looks at the pass.                                             *)

InFlightExclusive == pass = None \/ shot = None

Settled == InFlightExclusive /\ HeldBallSettled


LEMMA SettledPlayer == ASSUME Settled, PlayerStep PROVE Settled'
<1>1. PICK p \in Players :
        \/ PassBall(p) \/ ClearBall(p) \/ Shoot(p) \/ KnockPast(p)
        \/ HeavyTouch(p) \/ DriftOffSpot(p)
        \/ WinTackle(p) \/ LoseTackle(p) \/ Foul(p)
  BY DEF PlayerStep
<1>2. CASE PassBall(p) \/ ClearBall(p) \/ Shoot(p) \/ KnockPast(p) \/ HeavyTouch(p)
  BY <1>2 DEF PassBall, ClearBall, Shoot, KnockPast, HeavyTouch, Release,
              Settled, InFlightExclusive, HeldBallSettled
<1>3. CASE DriftOffSpot(p)
  BY <1>3 DEF DriftOffSpot, Settled, InFlightExclusive, HeldBallSettled
<1>4. CASE WinTackle(p) \/ LoseTackle(p) \/ Foul(p)
  BY <1>4 DEF WinTackle, LoseTackle, Foul, Dispossesses, BeatsDefender, AwardRestart,
              PlaceBall, Settled, InFlightExclusive, HeldBallSettled
<1> QED
  BY <1>1, <1>2, <1>3, <1>4

LEMMA SettledBall == ASSUME Settled, BallStep PROVE Settled'
<1>1. CASE CarriedBall
  BY <1>1 DEF CarriedBall, Settled, InFlightExclusive, HeldBallSettled
<1>2. CASE Roll
  BY <1>2 DEF Roll, MayDieOut, Settled, InFlightExclusive, HeldBallSettled
<1>3. CASE OffsideInterference \/ OffsideAtControl
  BY <1>3 DEF OffsideInterference, OffsideAtControl, CallOffside, PlaceBall,
              Settled, InFlightExclusive, HeldBallSettled
<1>4. CASE AerialHeader \/ SettleControl
  BY <1>4 DEF AerialHeader, SettleControl, Settled, InFlightExclusive, HeldBallSettled
<1>5. CASE RetakeGoalKick \/ ThrowIn \/ OverEndline
  BY <1>5 DEF RetakeGoalKick, ThrowIn, OverEndline, AwardRestart, PlaceBall,
              Settled, InFlightExclusive, HeldBallSettled
<1>6. CASE KeeperSave
  BY <1>6 DEF KeeperSave, Settled, InFlightExclusive, HeldBallSettled
<1>7. CASE ShotBlocked
  BY <1>7 DEF ShotBlocked, Settled, InFlightExclusive, HeldBallSettled
<1>8. CASE Goal
  BY <1>8 DEF Goal, Settled, InFlightExclusive, HeldBallSettled
<1> QED
  BY <1>1, <1>2, <1>3, <1>4, <1>5, <1>6, <1>7, <1>8 DEF BallStep, Control

LEMMA SettledStep == ASSUME Settled, Next PROVE Settled'
<1>1. CASE BeginTick
  BY <1>1 DEF BeginTick, Settled, InFlightExclusive, HeldBallSettled
<1>2. CASE CelebrationTick
  BY <1>2 DEF CelebrationTick, Kickoff, PlaceBall, Settled, InFlightExclusive,
              HeldBallSettled
<1>3. CASE StuckBallWatchdog \/ LivelockWatchdog
  BY <1>3 DEF StuckBallWatchdog, LivelockWatchdog, ballVars, Settled,
              InFlightExclusive, HeldBallSettled
<1>4. CASE FinishSchedule
  BY <1>4 DEF FinishSchedule, Dispossesses, BeatsDefender, ballVars, Settled,
              InFlightExclusive, HeldBallSettled
<1>5. CASE EndTick
  BY <1>5 DEF EndTick, Kickoff, PlaceBall, ForcedRelease, Settled,
              InFlightExclusive, HeldBallSettled
<1> QED
  BY <1>1, <1>2, <1>3, <1>4, <1>5, SettledPlayer, SettledBall DEF Next

(* A held ball has nothing in flight: no stale pass or shot survives a      *)
(* change of possession.                                                    *)
THEOREM HeldBallIsSettled == Spec => []HeldBallSettled
<1>1. Init => Settled
  BY DEF Init, Settled, InFlightExclusive, HeldBallSettled
<1>2. Settled /\ [Next]_vars => Settled'
  <2>1. Settled /\ UNCHANGED vars => Settled'
    BY DEF Settled, InFlightExclusive, HeldBallSettled, vars
  <2> QED
    BY <2>1, SettledStep
<1>3. Settled => HeldBallSettled
  BY DEF Settled
<1> QED
  BY <1>1, <1>2, <1>3, PTL DEF Spec

-----------------------------------------------------------------------------
(* The opening kickoff is held by the home side, which is also the side the *)
(* lifecycle starts with.                                                   *)
Opening ==
  tick = 0 /\ phase = "idle" =>
    /\ holder \in Players /\ Squad[holder] = "Home"
    /\ restart = NoRestart
    /\ celebration = 0 /\ lastScorer = None

LEMMA OpeningStep == ASSUME TypeOK, Opening, Next PROVE Opening'
<1>1. CASE CelebrationTick \/ EndTick
  BY <1>1 DEF CelebrationTick, EndTick, TypeOK, Opening
<1>2. CASE BeginTick \/ StuckBallWatchdog \/ LivelockWatchdog \/ FinishSchedule \/ BallStep
  BY <1>2 DEF BeginTick, StuckBallWatchdog, LivelockWatchdog, FinishSchedule, BallStep,
              Opening
<1>3. CASE PlayerStep
  <2>1. PICK p \in Players : Acts(p)
    BY <1>3 DEF PlayerStep, PassBall, ClearBall, Shoot, KnockPast, HeavyTouch,
                DriftOffSpot, WinTackle, LoseTackle, Foul
  <2> QED
    BY <2>1 DEF Acts, Opening
<1> QED
  BY <1>1, <1>2, <1>3 DEF Next

LEMMA OpeningInvariant == Spec => []Opening
<1>1. Init => Opening
  BY DEF Init, Opening, Outfielders, SquadOf
<1>2. TypeOK /\ Opening /\ [Next]_vars => Opening'
  <2>1. Opening /\ UNCHANGED vars => Opening'
    BY DEF Opening, vars
  <2> QED
    BY <2>1, OpeningStep
<1> QED
  BY <1>1, <1>2, TypeCorrect, PTL DEF Spec

-----------------------------------------------------------------------------
(* Restarts are guarded.                                                    *)

LEMMA GuardedPlayer ==
  ASSUME RestartGuardIsItsHolder, PlayerStep PROVE RestartGuardIsItsHolder'
<1>1. PICK p \in Players :
        \/ PassBall(p) \/ ClearBall(p) \/ Shoot(p) \/ KnockPast(p)
        \/ HeavyTouch(p) \/ DriftOffSpot(p)
        \/ WinTackle(p) \/ LoseTackle(p) \/ Foul(p)
  BY DEF PlayerStep
<1>2. CASE PassBall(p) \/ ClearBall(p) \/ Shoot(p) \/ KnockPast(p) \/ HeavyTouch(p)
  BY <1>2 DEF PassBall, ClearBall, Shoot, KnockPast, HeavyTouch, Release,
              RestartGuardIsItsHolder
<1>3. CASE DriftOffSpot(p)
  BY <1>3 DEF DriftOffSpot, RestartGuardIsItsHolder
<1>4. CASE WinTackle(p)
  BY <1>4 DEF WinTackle, Dispossesses, RecordTouch, Plays, RestartGuardIsItsHolder
<1>5. CASE LoseTackle(p)
  BY <1>5 DEF LoseTackle, BeatsDefender, RecordTouch, Plays, RestartGuardIsItsHolder
<1>6. CASE Foul(p)
  BY <1>6 DEF Foul, AwardRestart, PlaceBall, Plays, RestartGuardIsItsHolder
<1> QED
  BY <1>1, <1>2, <1>3, <1>4, <1>5, <1>6

LEMMA GuardedBall ==
  ASSUME RestartGuardIsItsHolder, BallStep PROVE RestartGuardIsItsHolder'
<1>1. CASE CarriedBall
  BY <1>1 DEF CarriedBall, RestartGuardIsItsHolder
<1>2. CASE OffsideInterference \/ OffsideAtControl
  BY <1>2 DEF OffsideInterference, OffsideAtControl, CallOffside, PlaceBall, Plays,
              RestartGuardIsItsHolder
<1>3. CASE RetakeGoalKick \/ ThrowIn \/ OverEndline
  BY <1>3 DEF RetakeGoalKick, ThrowIn, OverEndline, AwardRestart, PlaceBall, Plays,
              RestartGuardIsItsHolder
<1>4. CASE Roll \/ AerialHeader \/ SettleControl \/ KeeperSave \/ ShotBlocked \/ Goal
  BY <1>4 DEF Roll, AerialHeader, SettleControl, KeeperSave, ShotBlocked, Goal, ClearLabel,
              RestartGuardIsItsHolder
<1> QED
  BY <1>1, <1>2, <1>3, <1>4 DEF BallStep, Control

\* The first tick arms the guard while no restart label is set.
LEMMA GuardedStep ==
  ASSUME RestartGuardIsItsHolder, Opening, Next PROVE RestartGuardIsItsHolder'
<1>1. CASE BeginTick
  BY <1>1 DEF BeginTick, Opening, RestartGuardIsItsHolder
<1>2. CASE CelebrationTick
  BY <1>2 DEF CelebrationTick, Kickoff, PlaceBall, Plays, RestartGuardIsItsHolder
<1>3. CASE StuckBallWatchdog \/ LivelockWatchdog
  BY <1>3 DEF StuckBallWatchdog, LivelockWatchdog, ballVars, RestartGuardIsItsHolder
<1>4. CASE FinishSchedule
  BY <1>4 DEF FinishSchedule, Dispossesses, BeatsDefender, RecordTouch, Plays, ballVars,
              RestartGuardIsItsHolder
<1>5. CASE EndTick
  BY <1>5 DEF EndTick, Kickoff, PlaceBall, Plays, ForcedRelease, RestartGuardIsItsHolder
<1> QED
  BY <1>1, <1>2, <1>3, <1>4, <1>5, GuardedPlayer, GuardedBall DEF Next

(* While a restart is held its guard is armed on the holder, who played the *)
(* ball last, or on nobody: saves, deflections and forced releases leave a  *)
(* guard armed, but none of them reaches into the next restart.             *)
THEOREM RestartGuardIsHolders == Spec => []RestartGuardIsItsHolder
<1>1. Init => RestartGuardIsItsHolder
  BY DEF Init, RestartGuardIsItsHolder
<1>2. Opening /\ RestartGuardIsItsHolder /\ [Next]_vars => RestartGuardIsItsHolder'
  <2>1. RestartGuardIsItsHolder /\ UNCHANGED vars => RestartGuardIsItsHolder'
    BY DEF RestartGuardIsItsHolder, vars
  <2> QED
    BY <2>1, GuardedStep
<1> QED
  BY <1>1, <1>2, OpeningInvariant, PTL DEF Spec

-----------------------------------------------------------------------------
(* Goals, celebrations and kickoffs.                                        *)

\* The ball of a tick is still to move only if no goal is being celebrated:
\* a celebrated tick schedules nobody, and the ball scores at most once.
BallActsOnce == Ball \in todo => phase = "field" /\ celebration = 0

\* A pending celebration is owed a kickoff by the side that conceded.
CelebrationOwed ==
  celebration > 0 => lastScorer \in Teams /\ kickoffTeam = Other(lastScorer)

Ledger == BallActsOnce /\ CelebrationOwed /\ GoalKickoffLedger

LEMMA LedgerUnchanged ==
  ASSUME Ledger, UNCHANGED goals, Ball \in todo' => Ball \in todo /\ phase' = phase
  PROVE  Ledger'
BY DEF Ledger, BallActsOnce, CelebrationOwed, GoalKickoffLedger, Goals, goals

LEMMA LedgerGoal ==
  ASSUME TypeOK, Ledger, BallStep, Goal PROVE Ledger'
<1>1. PICK t \in Teams : ScoreGoal(t)
  BY DEF Goal
<1>2. celebration = 0 /\ Ball \notin todo'
  BY DEF BallStep, Ledger, BallActsOnce
<1>3. celebration' > 0 /\ lastScorer' = t /\ kickoffTeam' = Other(t) /\ kickoffs' = kickoffs
  BY <1>1, ClockAssumption DEF ScoreGoal, ClockAssumption
<1>4. Goals' = Goals + 1
  BY <1>1 DEF ScoreGoal, Goals, TypeOK, Teams
<1>5. Goals = kickoffs
  BY <1>2 DEF Ledger, GoalKickoffLedger, TypeOK
<1>6. GoalKickoffLedger'
  BY <1>3, <1>4, <1>5 DEF GoalKickoffLedger
<1>7. CelebrationOwed'
  BY <1>3 DEF CelebrationOwed
<1> QED
  BY <1>2, <1>6, <1>7 DEF Ledger, BallActsOnce

LEMMA LedgerCelebration ==
  ASSUME TypeOK, Ledger, CelebrationTick PROVE Ledger'
<1>1. Ball \notin todo' /\ celebration' = celebration - 1 /\ celebration \in Nat
  BY DEF CelebrationTick, Ledger, BallActsOnce, TypeOK
<1>2. celebration > 0 /\ kickoffTeam # None
  BY SquadFacts, NoneAssumption DEF CelebrationTick, Ledger, CelebrationOwed, NoneAssumption
<1>3. Goals = kickoffs + 1 /\ Goals' = Goals /\ lastScorer' = lastScorer
  BY <1>2 DEF CelebrationTick, Ledger, GoalKickoffLedger, Goals
<1>4. CASE celebration = 1
  BY <1>1, <1>2, <1>3, <1>4 DEF CelebrationTick, Ledger, BallActsOnce,
       CelebrationOwed, GoalKickoffLedger, TypeOK
<1>5. CASE celebration # 1
  BY <1>1, <1>2, <1>3, <1>5 DEF CelebrationTick, Ledger, BallActsOnce,
       CelebrationOwed, GoalKickoffLedger, TypeOK
<1> QED
  BY <1>4, <1>5

LEMMA LedgerStep == ASSUME TypeOK, Ledger, Next PROVE Ledger'
<1>1. CASE CelebrationTick
  BY <1>1, LedgerCelebration
<1>2. CASE BallStep
  BY <1>2, LedgerGoal, BallStepGoals, LedgerUnchanged DEF BallStep
<1>3. CASE BeginTick
  BY <1>3 DEF BeginTick, goals, Ledger, BallActsOnce, CelebrationOwed,
              GoalKickoffLedger, Goals
<1>4. CASE PlayerStep
  <2>1. PICK p \in Players : Acts(p)
    BY <1>4 DEF PlayerStep, PassBall, ClearBall, Shoot, KnockPast, HeavyTouch,
                DriftOffSpot, WinTackle, LoseTackle, Foul
  <2> QED
    BY <2>1, LedgerUnchanged DEF Acts
<1>5. CASE StuckBallWatchdog \/ LivelockWatchdog \/ EndTick
  <2>1. Ball \notin todo /\ todo' = todo /\ UNCHANGED goals
    BY <1>5 DEF StuckBallWatchdog, LivelockWatchdog, EndTick, Ledger, BallActsOnce
  <2> QED
    BY <2>1, LedgerUnchanged
<1>6. CASE FinishSchedule
  BY <1>6, LedgerUnchanged DEF FinishSchedule
<1> QED
  BY <1>1, <1>2, <1>3, <1>4, <1>5, <1>6 DEF Next

LEMMA LedgerInvariant == Spec => []Ledger
<1>1. Init => Ledger
  BY NoneAssumption DEF Init, Ledger, BallActsOnce, CelebrationOwed,
       GoalKickoffLedger, Goals, Teams
<1>2. TypeOK /\ Ledger /\ [Next]_vars => Ledger'
  <2>1. Ledger /\ UNCHANGED vars => Ledger'
    BY DEF vars, Ledger, BallActsOnce, CelebrationOwed, GoalKickoffLedger, Goals
  <2> QED
    BY <2>1, LedgerStep
<1> QED
  BY <1>1, <1>2, TypeCorrect, PTL DEF Spec

(* Every goal is answered by exactly one celebration and one kickoff,       *)
(* whatever period boundary falls into it.                                  *)
THEOREM GoalsAreKickedOff == Spec => []GoalKickoffLedger
<1>1. Ledger => GoalKickoffLedger
  BY DEF Ledger
<1> QED
  BY <1>1, LedgerInvariant, PTL

(* The kickoff that ends a celebration belongs to the side that conceded.   *)
THEOREM KickoffFollowsGoal == Spec => KickoffAfterGoal
<1> DEFINE Conceders ==
      celebration > 0 /\ celebration' = 0 =>
        /\ holder' # None /\ Squad[holder'] # lastScorer
        /\ guard' = holder' /\ restart' = "kickoff"
        /\ pass' = None /\ shot' = None
<1>1. ASSUME TypeOK, Ledger, Next, celebration > 0, celebration' = 0
      PROVE  Conceders
  <2>1. ~ Goal
    BY <1>1, ClockAssumption DEF Goal, ScoreGoal, ClockAssumption
  <2>2. CelebrationTick
    BY <1>1, <2>1, GoalsChange DEF goals
  <2>3. lastScorer \in Teams /\ kickoffTeam = Other(lastScorer)
    BY <1>1 DEF Ledger, CelebrationOwed
  <2>4. celebration = 1 /\ kickoffTeam # None
    BY <1>1, <2>2, <2>3, SquadFacts, NoneAssumption DEF CelebrationTick, TypeOK, NoneAssumption
  <2>5. PICK p \in Outfielders(Other(lastScorer)) : PlaceBall(p, "kickoff")
    BY <2>2, <2>3, <2>4 DEF CelebrationTick, Kickoff
  <2>6. p \in Players /\ Squad[p] = Other(lastScorer)
    BY <2>5 DEF Outfielders, SquadOf
  <2> QED
    BY <2>3, <2>5, <2>6, SquadFacts, NoneAssumption DEF PlaceBall, NoneAssumption
<1>2. TypeOK /\ Ledger /\ [Next]_vars => [Conceders]_vars
  BY <1>1
<1> QED
  BY <1>2, TypeCorrect, LedgerInvariant, PTL DEF Spec, KickoffAfterGoal

-----------------------------------------------------------------------------
(* Who touched the ball last.                                               *)

\* A held ball was last played by its holder: this is why a carried ball may
\* credit the holder's team without looking further.
HolderPlays == holder # None => toucher = holder

Touched == HolderPlays /\ LastTouchTeamTrue

LEMMA TouchedPlayer == ASSUME Touched, PlayerStep PROVE Touched'
<1>1. PICK p \in Players :
        \/ PassBall(p) \/ ClearBall(p) \/ Shoot(p) \/ KnockPast(p)
        \/ HeavyTouch(p) \/ DriftOffSpot(p)
        \/ WinTackle(p) \/ LoseTackle(p) \/ Foul(p)
  BY DEF PlayerStep
<1>2. CASE PassBall(p) \/ ClearBall(p) \/ Shoot(p) \/ KnockPast(p) \/ HeavyTouch(p)
  BY <1>2 DEF PassBall, ClearBall, Shoot, KnockPast, HeavyTouch, Release, Plays,
              Touched, HolderPlays, LastTouchTeamTrue
<1>3. CASE DriftOffSpot(p)
  BY <1>3 DEF DriftOffSpot, Acts, goals, Touched, HolderPlays, LastTouchTeamTrue
<1>4. CASE WinTackle(p) \/ LoseTackle(p)
  BY <1>4 DEF WinTackle, LoseTackle, Dispossesses, BeatsDefender, Plays,
              Touched, HolderPlays, LastTouchTeamTrue
<1>5. CASE Foul(p)
  BY <1>5 DEF Foul, AwardRestart, PlaceBall, Plays, Touched, HolderPlays,
              LastTouchTeamTrue
<1> QED
  BY <1>1, <1>2, <1>3, <1>4, <1>5

LEMMA TouchedBall == ASSUME TypeOK, Ledger, Touched, BallStep PROVE Touched'
<1>1. CASE CarriedBall
  BY <1>1 DEF CarriedBall, Touched, HolderPlays, LastTouchTeamTrue
<1>2. CASE Roll
  BY <1>2 DEF Roll, goals, Touched, HolderPlays, LastTouchTeamTrue
<1>3. CASE OffsideInterference \/ OffsideAtControl
  BY <1>3 DEF OffsideInterference, OffsideAtControl, CallOffside, PlaceBall, Plays,
              Touched, HolderPlays, LastTouchTeamTrue
<1>4. CASE RetakeGoalKick \/ ThrowIn \/ OverEndline
  BY <1>4 DEF RetakeGoalKick, ThrowIn, OverEndline, AwardRestart, PlaceBall, Plays,
              Touched, HolderPlays, LastTouchTeamTrue
<1>5. CASE AerialHeader \/ SettleControl
  BY <1>5 DEF AerialHeader, SettleControl, Plays, Touched, HolderPlays, LastTouchTeamTrue
<1>6. CASE KeeperSave \/ ShotBlocked
  BY <1>6 DEF KeeperSave, ShotBlocked, Plays, Touched, HolderPlays, LastTouchTeamTrue
<1>7. CASE Goal
  BY <1>7, LedgerGoal, ClockAssumption
     DEF Goal, ScoreGoal, ClockAssumption, Touched, HolderPlays, LastTouchTeamTrue
<1> QED
  BY <1>1, <1>2, <1>3, <1>4, <1>5, <1>6, <1>7 DEF BallStep, Control

LEMMA TouchedStep == ASSUME TypeOK, Ledger, Touched, Next PROVE Touched'
<1>1. CASE BeginTick
  BY <1>1 DEF BeginTick, goals, Touched, HolderPlays, LastTouchTeamTrue
<1>2. CASE CelebrationTick
  <2>1. celebration \in Nat /\ kickoffTeam # None
    BY <1>2, SquadFacts, NoneAssumption
       DEF CelebrationTick, Ledger, CelebrationOwed, TypeOK, NoneAssumption
  <2> QED
    BY <1>2, <2>1 DEF CelebrationTick, Kickoff, PlaceBall, Plays, Touched,
                      HolderPlays, LastTouchTeamTrue
<1>3. CASE StuckBallWatchdog \/ LivelockWatchdog
  BY <1>3 DEF StuckBallWatchdog, LivelockWatchdog, ballVars, goals, Plays, Touched,
              HolderPlays, LastTouchTeamTrue
<1>4. CASE FinishSchedule
  BY <1>4 DEF FinishSchedule, Dispossesses, BeatsDefender, ballVars, goals, Plays,
              Touched, HolderPlays, LastTouchTeamTrue
<1>5. CASE EndTick
  BY <1>5 DEF EndTick, Kickoff, PlaceBall, ForcedRelease, goals, Plays, Touched,
              HolderPlays, LastTouchTeamTrue
<1> QED
  BY <1>1, <1>2, <1>3, <1>4, <1>5, TouchedPlayer, TouchedBall DEF Next

(* The side a throw-in, corner or goal kick is awarded against is the side  *)
(* of the player who really played the ball last.                           *)
THEOREM LastTouchIsTrue == Spec => []LastTouchTeamTrue
<1>1. Init => Touched
  BY DEF Init, Touched, HolderPlays, LastTouchTeamTrue, Outfielders, SquadOf
<1>2. TypeOK /\ Ledger /\ Touched /\ [Next]_vars => Touched'
  <2>1. Touched /\ UNCHANGED vars => Touched'
    BY DEF Touched, HolderPlays, LastTouchTeamTrue, vars
  <2> QED
    BY <2>1, TouchedStep
<1>3. Touched => LastTouchTeamTrue
  BY DEF Touched
<1> QED
  BY <1>1, <1>2, <1>3, TypeCorrect, LedgerInvariant, PTL DEF Spec

-----------------------------------------------------------------------------
(* The goal-kick guard.                                                     *)

\* A goal kick that is still in the box: its keeper holds it as a goal kick
\* or has played it, so nobody is offside from it and no shot is on.
GoalKickPending ==
  goalKick # None /\ inBox =>
    /\ holder # None => holder = Keeper[goalKick] /\ restart = "goal-kick"
    /\ shot = None
    /\ pass \in {None, {}} /\ flight \in {None, {}}

LEMMA PendingAward ==
  ASSUME NEW kind \in RestartKinds, NEW t \in Teams, AwardRestart(kind, t),
         flight' \in {None, flight}, kind = "goal-kick" => flight' = None
  PROVE  GoalKickPending'
BY DEF AwardRestart, PlaceBall, GoalKickPending

LEMMA PendingPlayer == ASSUME TypeOK, GoalKickPending, PlayerStep PROVE GoalKickPending'
<1>1. PICK p \in Players :
        \/ PassBall(p) \/ ClearBall(p) \/ Shoot(p) \/ KnockPast(p)
        \/ HeavyTouch(p) \/ DriftOffSpot(p)
        \/ WinTackle(p) \/ LoseTackle(p) \/ Foul(p)
  BY DEF PlayerStep
<1>2. p # None
  BY NoneAssumption DEF NoneAssumption
<1>3. CASE PassBall(p) \/ ClearBall(p)
  <2>1. Release(p)
    BY <1>3 DEF PassBall, ClearBall
  <2>2. ASSUME goalKick' # None, inBox'
        PROVE  OffsideWhenPlayedBy(p) = {{}} /\ GoalKickPending
               /\ goalKick # None /\ inBox
    BY <2>1, <2>2, <1>2 DEF Release, MayLeaveBox, GoalKickPending, OffsideWhenPlayedBy,
                       OffsideExempt, TypeOK
  <2> QED
    BY <1>3, <2>1, <2>2 DEF PassBall, ClearBall, Release, GoalKickPending
<1>4. CASE Shoot(p) \/ KnockPast(p)
  BY <1>2, <1>4 DEF Shoot, KnockPast, Release, MayLeaveBox, NoRestart, GoalKickPending, TypeOK
<1>5. CASE HeavyTouch(p)
  BY <1>5 DEF HeavyTouch, Release, MayLeaveBox, GoalKickPending, TypeOK
<1>6. CASE DriftOffSpot(p)
  BY <1>6 DEF DriftOffSpot, MayLeaveBox, GoalKickPending, TypeOK
<1>7. CASE WinTackle(p)
  BY <1>7 DEF WinTackle, Dispossesses, InKeepersHands, MayLeaveBox, GoalKickPending, TypeOK
<1>8. CASE LoseTackle(p)
  BY <1>8 DEF LoseTackle, BeatsDefender, GoalKickPending
<1>9. CASE Foul(p)
  <2>1. Squad[holder] \in Teams
    BY <1>9, SquadFacts DEF Foul, TypeOK
  <2> QED
    BY <1>9, <2>1, PendingAward DEF Foul, RestartKinds
<1> QED
  BY <1>1, <1>3, <1>4, <1>5, <1>6, <1>7, <1>8, <1>9

LEMMA PendingBall == ASSUME TypeOK, GoalKickPending, BallStep PROVE GoalKickPending'
<1>1. CASE CarriedBall
  BY <1>1 DEF CarriedBall, MayLeaveBox, GoalKickPending, TypeOK
<1>2. CASE Roll
  BY <1>2 DEF Roll, MayDieOut, MayLeaveBox, GoalKickPending, TypeOK
<1>3. CASE OffsideInterference \/ OffsideAtControl
  <2>1. PICK a \in OffsideCandidates : CallOffside(a)
    BY <1>3 DEF OffsideInterference, OffsideAtControl
  <2>2. ~ (goalKick # None /\ inBox)
    BY <2>1 DEF OffsideCandidates, GoalKickPending
  <2> QED
    BY <2>1, <2>2 DEF CallOffside, MayLeaveBox, GoalKickPending, TypeOK
<1>4. CASE AerialHeader \/ SettleControl
  BY <1>4 DEF AerialHeader, SettleControl, GoalKickPending
<1>5. CASE RetakeGoalKick
  <2>1. goalKick \in Teams
    BY <1>5 DEF RetakeGoalKick, TypeOK
  <2> QED
    BY <1>5, <2>1, PendingAward DEF RetakeGoalKick, RestartKinds
<1>6. CASE ThrowIn
  <2>1. Other(lastTouch) \in Teams
    BY SquadFacts DEF TypeOK
  <2> QED
    BY <1>6, <2>1, PendingAward DEF ThrowIn, RestartKinds
<1>7. CASE OverEndline
  <2>1. PICK d \in Teams : AwardRestart("corner-kick", Other(d)) \/ AwardRestart("goal-kick", d)
    BY <1>7 DEF OverEndline
  <2>2. Other(d) \in Teams
    BY SquadFacts
  <2> QED
    BY <1>7, <2>1, <2>2, PendingAward DEF OverEndline, RestartKinds
<1>8. CASE KeeperSave \/ ShotBlocked
  BY <1>8 DEF KeeperSave, ShotBlocked, MayLeaveBox, GoalKickPending, TypeOK
<1>9. CASE Goal
  BY <1>9 DEF Goal, MayLeaveBox, GoalKickPending, TypeOK
<1> QED
  BY <1>1, <1>2, <1>3, <1>4, <1>5, <1>6, <1>7, <1>8, <1>9 DEF BallStep, Control

LEMMA PendingStep == ASSUME TypeOK, GoalKickPending, Next PROVE GoalKickPending'
<1>1. CASE BeginTick
  BY <1>1 DEF BeginTick, GoalKickPending
<1>2. CASE CelebrationTick
  BY <1>2 DEF CelebrationTick, Kickoff, GoalKickPending
<1>3. CASE StuckBallWatchdog \/ LivelockWatchdog
  BY <1>3 DEF StuckBallWatchdog, LivelockWatchdog, ballVars, MayLeaveBox,
              GoalKickPending, TypeOK
<1>4. CASE FinishSchedule
  BY <1>4 DEF FinishSchedule, Dispossesses, BeatsDefender, InKeepersHands, ballVars,
              MayLeaveBox, GoalKickPending, TypeOK
<1>5. CASE EndTick
  BY <1>5 DEF EndTick, Kickoff, ForcedRelease, GoalKickPending, TypeOK
<1> QED
  BY <1>1, <1>2, <1>3, <1>4, <1>5, PendingPlayer, PendingBall DEF Next

(* Law 16: while a goal kick is still in the box only the keeper who takes  *)
(* it ever holds the ball.                                                  *)
THEOREM GoalKickHeldByTaker == Spec => []GoalKickOnlyTakerHolds
<1>1. Init => GoalKickPending
  BY DEF Init, GoalKickPending
<1>2. TypeOK /\ GoalKickPending /\ [Next]_vars => GoalKickPending'
  <2>1. GoalKickPending /\ UNCHANGED vars => GoalKickPending'
    BY DEF GoalKickPending, vars
  <2> QED
    BY <2>1, PendingStep
<1>3. GoalKickPending => GoalKickOnlyTakerHolds
  BY DEF GoalKickPending, GoalKickOnlyTakerHolds
<1> QED
  BY <1>1, <1>2, <1>3, TypeCorrect, PTL DEF Spec

(* The three together: however the holder of the ball came by it, no pass   *)
(* or shot is pending, no guard of an earlier restart is left on somebody   *)
(* else, and a goal kick in the box is its keeper's.                        *)
THEOREM HeldBallRightful == Spec => []HeldBallIsRightful
<1>1. HeldBallSettled /\ RestartGuardIsItsHolder /\ GoalKickOnlyTakerHolds => HeldBallIsRightful
  BY DEF HeldBallIsRightful
<1> QED
  BY <1>1, HeldBallIsSettled, RestartGuardIsHolders, GoalKickHeldByTaker, PTL

-----------------------------------------------------------------------------
(* The double-touch guard.                                                  *)

\* The shooter is the only player who can be guarded while his shot is live,
\* and no shot is live when the opening kickoff arms the guard.
ShotGuard ==
  /\ shot # None => guard \in {None, shot}
  /\ tick = 0 /\ phase = "idle" => shot = None

LEMMA ShotGuardPlayer == ASSUME ShotGuard, PlayerStep PROVE ShotGuard'
<1>1. PICK p \in Players :
        \/ PassBall(p) \/ ClearBall(p) \/ Shoot(p) \/ KnockPast(p)
        \/ HeavyTouch(p) \/ DriftOffSpot(p)
        \/ WinTackle(p) \/ LoseTackle(p) \/ Foul(p)
  BY DEF PlayerStep
<1>2. CASE PassBall(p) \/ ClearBall(p) \/ KnockPast(p) \/ HeavyTouch(p)
  BY <1>2 DEF PassBall, ClearBall, KnockPast, HeavyTouch, ShotGuard
<1>3. CASE Shoot(p)
  BY <1>3 DEF Shoot, Acts, RecordTouch, ShotGuard
<1>4. CASE DriftOffSpot(p)
  BY <1>4 DEF DriftOffSpot, Acts, ShotGuard
<1>5. CASE WinTackle(p) \/ LoseTackle(p)
  BY <1>5 DEF WinTackle, LoseTackle, Dispossesses, BeatsDefender, ShotGuard
<1>6. CASE Foul(p)
  BY <1>6 DEF Foul, AwardRestart, PlaceBall, ShotGuard
<1> QED
  BY <1>1, <1>2, <1>3, <1>4, <1>5, <1>6

LEMMA ShotGuardBall == ASSUME ShotGuard, BallStep PROVE ShotGuard'
<1>1. phase' = "stuck"
  BY DEF BallStep
<1>2. CASE CarriedBall \/ Roll
  BY <1>1, <1>2 DEF CarriedBall, Roll, MayDieOut, ShotGuard
<1>3. CASE OffsideInterference \/ OffsideAtControl
  BY <1>3 DEF OffsideInterference, OffsideAtControl, CallOffside, PlaceBall, ShotGuard
<1>4. CASE RetakeGoalKick \/ ThrowIn \/ OverEndline
  BY <1>4 DEF RetakeGoalKick, ThrowIn, OverEndline, AwardRestart, PlaceBall, ShotGuard
<1>5. CASE AerialHeader \/ SettleControl \/ KeeperSave \/ Goal
  BY <1>5 DEF AerialHeader, SettleControl, KeeperSave, Goal, ShotGuard
<1>6. CASE ShotBlocked
  BY <1>1, <1>6 DEF ShotBlocked, ShotGuard
<1> QED
  BY <1>2, <1>3, <1>4, <1>5, <1>6 DEF BallStep, Control

LEMMA ShotGuardStep == ASSUME TypeOK, ShotGuard, Next PROVE ShotGuard'
<1>1. CASE BeginTick
  BY <1>1 DEF BeginTick, ShotGuard
<1>2. CASE CelebrationTick
  BY <1>2 DEF CelebrationTick, Kickoff, PlaceBall, ShotGuard, TypeOK
<1>3. CASE StuckBallWatchdog \/ LivelockWatchdog
  BY <1>3 DEF StuckBallWatchdog, LivelockWatchdog, ballVars, ShotGuard
<1>4. CASE FinishSchedule
  BY <1>4 DEF FinishSchedule, Dispossesses, BeatsDefender, ballVars, ShotGuard
<1>5. CASE EndTick
  BY <1>5 DEF EndTick, Kickoff, PlaceBall, ForcedRelease, ShotGuard, TypeOK
<1> QED
  BY <1>1, <1>2, <1>3, <1>4, <1>5, ShotGuardPlayer, ShotGuardBall DEF Next

LEMMA ShotGuardInvariant == Spec => []ShotGuard
<1>1. Init => ShotGuard
  BY DEF Init, ShotGuard
<1>2. TypeOK /\ ShotGuard /\ [Next]_vars => ShotGuard'
  <2>1. ShotGuard /\ UNCHANGED vars => ShotGuard'
    BY DEF ShotGuard, vars
  <2> QED
    BY <2>1, ShotGuardStep
<1> QED
  BY <1>1, <1>2, TypeCorrect, PTL DEF Spec

\* Regaining a loose ball in the sense of GuardedTakerNeverRegains.
Regains ==
  /\ guard # None /\ toucher = guard
  /\ holder = None /\ holder' = guard
  /\ restart' = NoRestart

LEMMA BallNotRegained == ASSUME TypeOK, ShotGuard, BallStep PROVE ~Regains
<1>1. CASE CarriedBall \/ Roll \/ AerialHeader \/ ShotBlocked \/ Goal
  BY <1>1 DEF CarriedBall, Roll, AerialHeader, ShotBlocked, Goal, Regains
<1>2. CASE OffsideInterference \/ OffsideAtControl
  BY <1>2 DEF OffsideInterference, OffsideAtControl, CallOffside, PlaceBall,
              NoRestart, Regains
<1>3. CASE RetakeGoalKick \/ ThrowIn \/ OverEndline
  BY <1>3 DEF RetakeGoalKick, ThrowIn, OverEndline, AwardRestart, PlaceBall,
              NoRestart, Regains
<1>4. CASE SettleControl
  BY <1>4 DEF SettleControl, Controllers, Regains
<1>5. CASE KeeperSave
  <2> SUFFICES ASSUME Regains PROVE FALSE
    OBVIOUS
  <2>1. shot \in Players /\ guard = shot /\ toucher = shot
    BY <1>5 DEF KeeperSave, Regains, ShotGuard, TypeOK
  <2>2. holder' = Keeper[Other(Squad[shot])]
    BY <1>5, <2>1 DEF KeeperSave, ShotKeepers, Regains
  <2>3. Squad[holder'] # Squad[shot]
    BY <2>1, <2>2, SquadFacts
  <2> QED
    BY <2>1, <2>3 DEF Regains
<1> QED
  BY <1>1, <1>2, <1>3, <1>4, <1>5 DEF BallStep, Control

LEMMA PlayerNotRegained == ASSUME PlayerStep PROVE ~Regains
<1>1. PICK p \in Players :
        \/ PassBall(p) \/ ClearBall(p) \/ Shoot(p) \/ KnockPast(p)
        \/ HeavyTouch(p) \/ DriftOffSpot(p)
        \/ WinTackle(p) \/ LoseTackle(p) \/ Foul(p)
  BY DEF PlayerStep
<1>2. CASE PassBall(p) \/ ClearBall(p) \/ Shoot(p) \/ KnockPast(p) \/ HeavyTouch(p)
  BY <1>2 DEF PassBall, ClearBall, Shoot, KnockPast, HeavyTouch, Release, Regains
<1>3. CASE DriftOffSpot(p) \/ WinTackle(p) \/ LoseTackle(p) \/ Foul(p)
  BY <1>3 DEF DriftOffSpot, WinTackle, LoseTackle, Dispossesses, BeatsDefender,
              Foul, Regains
<1> QED
  BY <1>1, <1>2, <1>3

LEMMA StepNotRegained == ASSUME TypeOK, ShotGuard, Next PROVE ~Regains
<1>1. CASE BeginTick
  BY <1>1 DEF BeginTick, Regains
<1>2. CASE CelebrationTick
  BY <1>2 DEF CelebrationTick, Kickoff, PlaceBall, NoRestart, Regains
<1>3. CASE StuckBallWatchdog \/ LivelockWatchdog
  BY <1>3 DEF StuckBallWatchdog, LivelockWatchdog, ballVars, Regains
<1>4. CASE FinishSchedule
  BY <1>4 DEF FinishSchedule, Dispossesses, BeatsDefender, ballVars, Regains
<1>5. CASE EndTick
  BY <1>5 DEF EndTick, Kickoff, PlaceBall, ForcedRelease, NoRestart, Regains
<1> QED
  BY <1>1, <1>2, <1>3, <1>4, <1>5, BallNotRegained, PlayerNotRegained DEF Next

(* A guarded restart taker who was the last to play the ball does not hold  *)
(* it again before somebody else has, unless a new restart gives it to him. *)
THEOREM NoDoubleTouch == Spec => GuardedTakerNeverRegains
<1> DEFINE NotBack ==
      guard # None /\ toucher = guard /\ holder = None /\ holder' = guard
        => restart' # NoRestart
<1>1. TypeOK /\ ShotGuard /\ [Next]_vars => [NotBack]_vars
  BY StepNotRegained DEF Regains
<1> QED
  BY <1>1, TypeCorrect, ShotGuardInvariant, PTL DEF Spec, GuardedTakerNeverRegains

-----------------------------------------------------------------------------
(* What steps look like through the projection.                             *)

(* At most the possession changes: a possession event, or no event. *)
LEMMA SamePhase ==
  ASSUME TypeOK', UNCHANGED <<score, lastScorer>>, ProjectedPhase' = ProjectedPhase
  PROVE  [Envelope!Next]_(Envelope!vars)
<1>1. ProjectedRestartSide' = ProjectedRestartSide /\ SideOf(lastScorer)' = SideOf(lastScorer)
  BY DEF ProjectedRestartSide, SideOf
<1>2. CASE ProjectedPhase = "InPlay"
  <2>1. ProjectedPossession' \in {"Home", "Away", "None"}
    BY SquadFacts DEF ProjectedPossession, TypeOK, Teams
  <2>2. Envelope!Possess(ProjectedPossession')
    BY <1>1, <1>2 DEF Envelope!Possess
  <2> QED
    BY <2>1, <2>2 DEF Envelope!Next, Envelope!Sides, Envelope!Nobody
<1>3. CASE ProjectedPhase # "InPlay"
  <2>1. ProjectedPossession' = ProjectedPossession
    BY <1>3 DEF ProjectedPossession
  <2> QED
    BY <1>1, <2>1 DEF Envelope!vars
<1> QED
  BY <1>2, <1>3

(* Full time. *)
LEMMA FullTime ==
  ASSUME UNCHANGED <<score, lastScorer>>, ProjectedPhase # "Finished",
         ProjectedPhase' = "Finished"
  PROVE  Envelope!Next
<1>1. Envelope!Finish
  BY DEF Envelope!Finish, Envelope!Nobody, ProjectedPossession, ProjectedRestartSide, SideOf
<1> QED
  BY <1>1 DEF Envelope!Next

-----------------------------------------------------------------------------
(* Every step of a tick is a lifecycle event or none.                       *)

LEMMA BeginTickImplements ==
  ASSUME TypeOK, TypeOK', Opening, BeginTick PROVE [Envelope!Next]_(Envelope!vars)
<1>1. UNCHANGED <<score, lastScorer, holder>> /\ ProjectedPhase' = "InPlay"
  BY ClockAssumption DEF BeginTick, goals, ProjectedPhase, TypeOK, ClockAssumption
<1>2. CASE tick = 0
  <2>1. ProjectedPhase = "PreKickoff" /\ ProjectedPossession' = "Home"
    BY <1>1, <1>2, NoneAssumption, ClockAssumption
       DEF BeginTick, ProjectedPhase, ProjectedPossession, Opening, NoneAssumption,
           ClockAssumption
  <2>2. ProjectedRestartSide = "Home" /\ ProjectedRestartSide' = "Home"
        /\ SideOf(lastScorer)' = SideOf(lastScorer)
    BY <1>1, <1>2 DEF BeginTick, ProjectedRestartSide, SideOf, Opening
  <2>3. Envelope!Start
    BY <1>1, <2>1, <2>2 DEF Envelope!Start, Envelope!KickOff
  <2> QED
    BY <2>3 DEF Envelope!Next
<1>3. CASE tick # 0
  <2>1. ProjectedPhase = "InPlay"
    BY <1>3 DEF BeginTick, ProjectedPhase, TypeOK
  <2> QED
    BY <1>1, <2>1, SamePhase
<1> QED
  BY <1>2, <1>3

LEMMA CelebrationImplements ==
  ASSUME TypeOK, TypeOK', Ledger, CelebrationTick PROVE [Envelope!Next]_(Envelope!vars)
<1>1. ProjectedPhase = "Stoppage" /\ UNCHANGED <<score, lastScorer>>
  BY ClockAssumption DEF CelebrationTick, ProjectedPhase, TypeOK, ClockAssumption
<1>2. tick' = tick + 1 /\ tick' # 0 /\ celebration' = celebration - 1
      /\ celebration \in Nat /\ celebration' \in Nat /\ celebration > 0
  BY DEF CelebrationTick, TypeOK
<1>3. CASE tick' = TotalTicks
  BY <1>1, <1>3, FullTime DEF ProjectedPhase
<1>4. CASE tick' # TotalTicks /\ celebration' > 0
  BY <1>1, <1>4, SamePhase DEF ProjectedPhase
<1>5. CASE tick' # TotalTicks /\ ~(celebration' > 0)
  <2>1. ProjectedPhase' = "InPlay" /\ celebration = 1
    BY <1>2, <1>5 DEF ProjectedPhase
  <2>2. lastScorer \in Teams /\ kickoffTeam = Other(lastScorer) /\ lastScorer # None
    BY <1>2, NoneAssumption DEF Ledger, CelebrationOwed, NoneAssumption
  <2>3. Other(lastScorer) \in Teams /\ Other(lastScorer) # None
    BY <2>2, SquadFacts, NoneAssumption DEF NoneAssumption
  <2>4. PICK p \in Outfielders(Other(lastScorer)) : holder' = p
    BY <2>1, <2>2, <2>3 DEF CelebrationTick, Kickoff, PlaceBall
  <2>5. p \in Players /\ p # None /\ Squad[p] = Other(lastScorer)
    BY <2>4, NoneAssumption DEF Outfielders, SquadOf, NoneAssumption
  <2>6. ProjectedPossession' = Other(lastScorer)
    BY <2>1, <2>4, <2>5 DEF ProjectedPossession
  <2>7. ProjectedRestartSide = Other(lastScorer)
        /\ ProjectedRestartSide' = ProjectedRestartSide
        /\ SideOf(lastScorer)' = SideOf(lastScorer)
    BY <1>1, <2>2 DEF ProjectedRestartSide, SideOf
  <2>8. Envelope!Restart
    BY <1>1, <2>1, <2>6, <2>7 DEF Envelope!Restart, Envelope!KickOff
  <2> QED
    BY <2>8 DEF Envelope!Next
<1> QED
  BY <1>3, <1>4, <1>5

LEMMA GoalImplements ==
  ASSUME TypeOK, TypeOK', Ledger, BallStep, Goal PROVE Envelope!Next
<1>1. PICK t \in Teams : ScoreGoal(t)
  BY DEF Goal
<1>2. phase = "field" /\ celebration = 0 /\ tick < TotalTicks /\ phase' = "stuck"
      /\ tick' = tick
  BY DEF BallStep, Ledger, BallActsOnce, TypeOK
<1>3. celebration' > 0 /\ lastScorer' = t /\ t # None /\ t \in {"Home", "Away"}
  BY <1>1, ClockAssumption, NoneAssumption
     DEF ScoreGoal, ClockAssumption, NoneAssumption, Teams
<1>4. ProjectedPhase = "InPlay" /\ ProjectedPhase' = "Stoppage"
  BY <1>2, <1>3, ClockAssumption DEF ProjectedPhase, TypeOK, ClockAssumption
<1>5. ProjectedPossession' = "None"
  BY <1>4 DEF ProjectedPossession
<1>6. ProjectedRestartSide' = Envelope!Conceder(t) /\ SideOf(lastScorer)' = t
  BY <1>3 DEF ProjectedRestartSide, SideOf, Other, Envelope!Conceder
<1>7. score[t] < MaxGoals
  BY <1>3, ClockAssumption DEF Goal, Goals, TypeOK, Teams, ClockAssumption
<1>8. score' = [score EXCEPT ![t] = score[t] + 1]
  BY <1>1 DEF ScoreGoal
<1>9. Envelope!Goal(t)
  BY <1>4, <1>5, <1>6, <1>7, <1>8 DEF Envelope!Goal, Envelope!Nobody
<1> QED
  BY <1>3, <1>9 DEF Envelope!Next, Envelope!Sides

(* The other steps inside a tick. *)
LEMMA FieldImplements ==
  ASSUME TypeOK, TypeOK', UNCHANGED goals, tick' = tick,
         phase # "idle", phase' # "idle"
  PROVE  [Envelope!Next]_(Envelope!vars)
<1>1. ProjectedPhase' = ProjectedPhase /\ UNCHANGED <<score, lastScorer>>
  BY DEF goals, ProjectedPhase
<1> QED
  BY <1>1, SamePhase

LEMMA EndTickImplements ==
  ASSUME TypeOK, TypeOK', EndTick PROVE [Envelope!Next]_(Envelope!vars)
<1>1. UNCHANGED <<score, lastScorer>> /\ tick' = tick + 1 /\ tick \in Nat
      /\ tick < TotalTicks /\ celebration' = celebration /\ phase = "post"
  BY ClockAssumption DEF EndTick, goals, TypeOK, ClockAssumption
<1>2. ProjectedPhase # "Finished"
  BY <1>1, ClockAssumption DEF ProjectedPhase, ClockAssumption
<1>3. CASE tick' = TotalTicks
  BY <1>1, <1>2, <1>3, FullTime DEF ProjectedPhase
<1>4. CASE tick' # TotalTicks
  <2>1. ProjectedPhase' = ProjectedPhase
    BY <1>1, <1>4, ClockAssumption DEF ProjectedPhase, ClockAssumption
  <2> QED
    BY <1>1, <2>1, SamePhase
<1> QED
  BY <1>3, <1>4

LEMMA StepImplements ==
  ASSUME TypeOK, TypeOK', Ledger, Opening, Next
  PROVE  [Envelope!Next]_(Envelope!vars)
<1>1. CASE BeginTick
  BY <1>1, BeginTickImplements
<1>2. CASE CelebrationTick
  BY <1>2, CelebrationImplements
<1>3. CASE PlayerStep
  <2>1. PICK p \in Players : Acts(p)
    BY <1>3 DEF PlayerStep, PassBall, ClearBall, Shoot, KnockPast, HeavyTouch,
                DriftOffSpot, WinTackle, LoseTackle, Foul
  <2> QED
    BY <2>1, FieldImplements DEF Acts
<1>4. CASE BallStep
  <2>1. CASE UNCHANGED goals
    BY <1>4, <2>1, FieldImplements DEF BallStep
  <2>2. CASE Goal
    BY <1>4, <2>2, GoalImplements
  <2> QED
    BY <1>4, <2>1, <2>2, BallStepGoals
<1>5. CASE StuckBallWatchdog \/ LivelockWatchdog \/ FinishSchedule
  BY <1>5, FieldImplements DEF StuckBallWatchdog, LivelockWatchdog, FinishSchedule
<1>6. CASE EndTick
  BY <1>6, EndTickImplements
<1> QED
  BY <1>1, <1>2, <1>3, <1>4, <1>5, <1>6 DEF Next

LEMMA InitImplements == Init => Envelope!Init
<1> SUFFICES ASSUME Init PROVE Envelope!Init
  OBVIOUS
<1>1. ProjectedPhase = "PreKickoff"
  BY ClockAssumption DEF Init, ProjectedPhase, ClockAssumption
<1>2. ProjectedPossession = "None" /\ ProjectedRestartSide = "Home"
      /\ SideOf(lastScorer) = "None"
  BY <1>1 DEF Init, ProjectedPossession, ProjectedRestartSide, SideOf
<1> QED
  BY <1>1, <1>2 DEF Init, Envelope!Init, Envelope!Nobody, Envelope!Sides, Teams

(* Every behaviour of the match control is, through the projection, a       *)
(* behaviour of the lifecycle.                                              *)
THEOREM MatchImplementsLifecycle == Spec => ImplementsLifecycle
<1>1. TypeOK /\ TypeOK' /\ Ledger /\ Opening /\ [Next]_vars
        => [Envelope!Next]_(Envelope!vars)
  <2>1. UNCHANGED vars => UNCHANGED Envelope!vars
    BY DEF vars, Envelope!vars, ProjectedPhase, ProjectedPossession,
           ProjectedRestartSide, SideOf
  <2> QED
    BY <2>1, StepImplements
<1> QED
  BY <1>1, InitImplements, TypeCorrect, LedgerInvariant, OpeningInvariant, PTL
     DEF Spec, ImplementsLifecycle, Envelope!Spec

-----------------------------------------------------------------------------
(* The contract itself, for any limits and any order of its events, apart   *)
(* from the match that implements it: its own state and constants.          *)

CONSTANTS MaxTicks, ScoreCap
VARIABLES stage, ticks, tally, side, restarter, scorer

Contract == INSTANCE Lifecycle WITH
  phase <- stage, tick <- ticks, score <- tally, possession <- side,
  restartSide <- restarter, lastScorer <- scorer

(* The strengthening: while a goal waits for its restart, the restart side  *)
(* is the one that conceded it, and only a finished match is out of time.   *)
RestartOwed ==
  stage = "Stoppage" => scorer \in Contract!Sides /\ restarter = Contract!Conceder(scorer)

TimeLeft == stage # "Finished" => ticks < MaxTicks

CInv == Contract!TypeOK /\ Contract!Validate /\ RestartOwed /\ TimeLeft

LEMMA ContractInit == ASSUME Contract!LimitsAssumption, Contract!Init PROVE CInv
BY DEF Contract!LimitsAssumption, Contract!Init, CInv, Contract!TypeOK, Contract!Validate, RestartOwed,
   TimeLeft, Contract!Sides, Contract!Nobody

LEMMA ContractStep == ASSUME Contract!LimitsAssumption, CInv, Contract!Next PROVE CInv'
<1> USE DEF Contract!LimitsAssumption, CInv, Contract!TypeOK, Contract!Validate, RestartOwed,
            TimeLeft, Contract!Nobody
<1>1. CASE Contract!Start \/ Contract!Restart
  BY <1>1 DEF Contract!Start, Contract!Restart, Contract!KickOff, Contract!Sides
<1>2. CASE Contract!Tick
  <2>1. ticks' \in Nat /\ ticks' <= MaxTicks /\ (ticks' < MaxTicks \/ stage' = "Finished")
    BY <1>2 DEF Contract!Tick
  <2>2. \/ stage' = "InPlay" /\ side' = side
        \/ stage' = "Finished" /\ side' = Contract!Nobody
    BY <1>2 DEF Contract!Tick
  <2>3. UNCHANGED <<tally, restarter, scorer>>
    BY <1>2 DEF Contract!Tick
  <2> QED
    BY <2>1, <2>2, <2>3
<1>3. CASE Contract!Finish
  BY <1>3 DEF Contract!Finish
<1>4. ASSUME NEW who \in Contract!Sides \union {Contract!Nobody}, Contract!Possess(who) PROVE CInv'
  BY <1>4 DEF Contract!Possess
<1>5. ASSUME NEW t \in Contract!Sides, Contract!Goal(t) PROVE CInv'
  BY <1>5 DEF Contract!Goal, Contract!Sides, Contract!Conceder
<1> QED
  BY <1>1, <1>2, <1>3, <1>4, <1>5 DEF Contract!Next

LEMMA ContractInvariance == ASSUME Contract!LimitsAssumption PROVE Contract!Spec => []CInv
<1>1. CInv /\ UNCHANGED (Contract!vars) => CInv'
  BY DEF Contract!vars, CInv, Contract!TypeOK, Contract!Validate, RestartOwed, TimeLeft
<1>2. CInv /\ [Contract!Next]_(Contract!vars) => CInv'
  BY <1>1, ContractStep
<1> QED
  BY <1>2, ContractInit, PTL DEF Contract!Spec

(* SoccerMatch::validate succeeds in every reachable state, so the limits   *)
(* hold and only a match in play has possession.                            *)
THEOREM ValidateHolds == ASSUME Contract!LimitsAssumption PROVE Contract!Spec => []Contract!Validate
<1>1. CInv => Contract!Validate
  BY DEF CInv
<1> QED
  BY <1>1, ContractInvariance, PTL

(* No event changes a finished match.                                       *)
THEOREM FinishedAbsorbs ==
  ASSUME Contract!LimitsAssumption PROVE Contract!Spec => Contract!FinishedIsAbsorbing
<1>1. CInv /\ Contract!Next => ~ (stage = "Finished")
  BY DEF CInv, Contract!Next, Contract!Start, Contract!Restart, Contract!KickOff,
         Contract!Tick, Contract!Finish, Contract!Possess, Contract!Goal
<1>2. CInv /\ [Contract!Next]_(Contract!vars) => [stage = "Finished" => UNCHANGED (Contract!vars)]_(Contract!vars)
  BY <1>1
<1> QED
  BY <1>2, ContractInvariance, PTL DEF Contract!Spec, Contract!FinishedIsAbsorbing

(* Play always resumes with the side that conceded the last goal.           *)
THEOREM ConcederRestarts ==
  ASSUME Contract!LimitsAssumption PROVE Contract!Spec => Contract!ConcedingSideRestarts
<1> DEFINE Resumes ==
      stage = "Stoppage" /\ stage' = "InPlay"
        => side' = Contract!Conceder(scorer) /\ UNCHANGED tally
<1>1. CInv /\ Contract!Next => Resumes
  BY DEF CInv, RestartOwed, Contract!Next, Contract!Start, Contract!Restart, Contract!KickOff,
         Contract!Tick, Contract!Finish, Contract!Possess, Contract!Goal
<1>2. CInv /\ [Contract!Next]_(Contract!vars) => [Resumes]_(Contract!vars)
  BY <1>1
<1> QED
  BY <1>2, ContractInvariance, PTL DEF Contract!Spec, Contract!ConcedingSideRestarts
=============================================================================
