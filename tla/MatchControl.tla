---------------------------- MODULE MatchControl ----------------------------
(***************************************************************************)
(* The dead-ball, restart, goal and period control of SoccerMatch          *)
(* (src/src/des/general/soccer/world.rs): who holds the ball, what is in   *)
(* flight, which restart is being taken, who may not touch the ball again, *)
(* and how goals, periods and full time interrupt all of that.             *)
(*                                                                         *)
(* One simulation tick is SoccerMatch::run_time_step.  It schedules every  *)
(* player and the ball in an arbitrary order (the order may be shuffled),  *)
(* so a player may act before or after the ball has moved.  The model      *)
(* keeps that schedule (todo) and takes one action per scheduled entity.   *)
(* Geometry and skill (distances, probabilities, speeds) are abstracted to *)
(* nondeterministic choice among the outcomes the code can reach.          *)
(***************************************************************************)
EXTENDS Integers, FiniteSets

CONSTANTS
  Players,           \* ids of the players on the pitch
  Squad,             \* Squad[p]: the team of player p
  Keeper,            \* Keeper[t]: the goalkeeper of team t
  Ball,              \* the scheduled ball agent
  None,              \* Rust's Option::None
  TotalTicks,        \* MatchConfig::total_ticks
  HalfTicks,         \* MatchConfig::half_ticks
  Halves,            \* MatchConfig::half_count
  Periods,           \* MatchConfig::periods
  CelebrationTicks,  \* ceil(GOAL_CELEBRATION_SECONDS / dt)
  MaxGoals           \* bound on the goals of a behaviour (not in the code)

Teams == {"Home", "Away"}
Other(t) == IF t = "Home" THEN "Away" ELSE "Home"
SquadOf(t) == {p \in Players : Squad[p] = t}
Mates(p) == SquadOf(Squad[p]) \ {p}
Outfielders(t) == SquadOf(t) \ {Keeper[t]}

\* The restart the held ball is waiting to be released from; the label lives
\* in ball.last_decision and restart_action_label reads it back.
RestartKinds == {"kickoff", "throw-in", "goal-kick", "corner-kick",
                 "free-kick", "offside"}
NoRestart == "none"

ASSUME SquadsAssumption ==
  /\ Squad \in [Players -> Teams]
  /\ Keeper \in [Teams -> Players]
  /\ \A t \in Teams : Squad[Keeper[t]] = t /\ Outfielders(t) # {}

ASSUME ClockAssumption ==
  /\ TotalTicks \in Nat \ {0}
  /\ HalfTicks \in Nat
  /\ Halves \in Nat \ {0}
  /\ Periods \in Nat \ {0}
  /\ CelebrationTicks \in Nat \ {0}
  /\ MaxGoals \in Nat

ASSUME NoneAssumption ==
  /\ None \notin Players
  /\ None \notin Teams
  /\ \A S \in SUBSET Players : None # S
  /\ Ball \notin Players

VARIABLES
  tick,         \* SoccerMatch.tick
  phase,        \* where run_time_step is: idle between ticks, field in the
                \* agent schedule, stuck and livelock inside
                \* run_ball_time_step after the ball's own outcome, post after
                \* the schedule
  todo,         \* scheduled entities that have not acted in this tick
  score,        \* score_home, score_away
  celebration,  \* goal_celebration_remaining_ticks
  kickoffTeam,  \* goal_celebration_kickoff_team
  holder,       \* ball.holder
  lastTouch,    \* ball.last_touch_team
  guard,        \* restart_double_touch_guard
  pass,         \* pending_pass: its offside candidates
  shot,         \* pending_shot: its shooter
  flight,       \* ball.untargeted_long_ball_flight: its offside candidates
  restart,      \* the restart label of ball.last_decision
  atSpot,       \* the ball has not left the restart spot
  goalKick,     \* goal_kick_must_clear_box: the team taking the goal kick
  inBox,        \* while goalKick is set: the ball is in that team's box
  toucher,      \* history: the last player who physically played the ball
  lastScorer,   \* history: the team that scored the last goal
  kickoffs,     \* history: kickoffs taken after a goal celebration
  marked        \* history: the period boundaries at which play was reset

clock == <<tick, phase, todo>>
goals == <<score, celebration, kickoffTeam, lastScorer, kickoffs>>
ballVars == <<holder, lastTouch, guard, pass, shot, flight, restart, atSpot,
              goalKick, inBox, toucher>>
vars == <<tick, phase, todo, score, celebration, kickoffTeam, holder,
          lastTouch, guard, pass, shot, flight, restart, atSpot, goalKick,
          inBox, toucher, lastScorer, kickoffs, marked>>

Goals == score["Home"] + score["Away"]

-----------------------------------------------------------------------------
(* Period boundaries: MatchConfig::period_start_after_tick and             *)
(* is_half_boundary_tick, and the side that kicks the new period off.      *)

PeriodsEndingAt(t) ==
  {c \in 1..(Periods - 1) : LET b == (TotalTicks * c) \div Periods
                            IN  b > 0 /\ b < TotalTicks /\ b = t}

IsHalfBoundary(t) ==
  /\ Halves > 1 /\ HalfTicks > 0
  /\ t > 0 /\ t < TotalTicks
  /\ t % HalfTicks = 0

IsBoundary(t) == PeriodsEndingAt(t) # {} \/ IsHalfBoundary(t)

FirstOf(S) == CHOOSE c \in S : \A d \in S : c <= d

KickoffTeamForPeriod(n) == IF n % 2 = 0 THEN "Away" ELSE "Home"
KickoffTeamForHalf(i) == IF i % 2 = 0 THEN "Home" ELSE "Away"

BoundaryKickoffTeam(t) ==
  IF PeriodsEndingAt(t) # {}
  THEN KickoffTeamForPeriod(FirstOf(PeriodsEndingAt(t)) + 1)
  ELSE KickoffTeamForHalf(t \div HalfTicks)

-----------------------------------------------------------------------------
Init ==
  /\ tick = 0 /\ phase = "idle" /\ todo = {}
  /\ score = [t \in Teams |-> 0]
  /\ celebration = 0 /\ kickoffTeam = None
  /\ holder \in Outfielders("Home")
  /\ lastTouch = "Home" /\ toucher = holder
  /\ guard = None
  /\ pass = None /\ shot = None /\ flight = None
  /\ restart = NoRestart /\ atSpot = TRUE
  /\ goalKick = None /\ inBox = FALSE
  /\ lastScorer = None /\ kickoffs = 0 /\ marked = {}

(* record_possession_touch: the guard survives only its own player's touch. *)
RecordTouch(p) == guard' = IF guard = p THEN guard ELSE None

(* p physically plays the ball. *)
Plays(p) == toucher' = p /\ lastTouch' = Squad[p]

(* The restart label is read only while the ball is held, and the next step *)
(* of a loose ball overwrites it.                                           *)
ClearLabel == restart' = NoRestart /\ atSpot' = TRUE

(* The ball stays in the goal-kicking side's box or has left it. *)
MayLeaveBox == inBox' \in {FALSE, inBox}

(* The ball is given to taker p for a restart: what call_offside,          *)
(* apply_restart_with_label and both kickoff resets have in common.        *)
PlaceBall(p, kind) ==
  /\ holder' = p /\ Plays(p)
  /\ guard' = p
  /\ pass' = None /\ shot' = None
  /\ restart' = kind /\ atSpot' = TRUE

(* apply_restart_with_label: the keeper takes a goal kick, the nearest     *)
(* player any other restart; only a goal kick arms the Law 16 guard.       *)
AwardRestart(kind, t) ==
  /\ \E p \in SquadOf(t) :
       /\ kind = "goal-kick" => p = Keeper[t]
       /\ PlaceBall(p, kind)
  /\ goalKick' = IF kind = "goal-kick" THEN t ELSE None
  /\ inBox' = (kind = "goal-kick")

(* reset_after_goal and reset_for_new_half: neither touches the goal-kick  *)
(* guard nor the untargeted long-ball flight.                              *)
Kickoff(t) ==
  /\ \E p \in Outfielders(t) : PlaceBall(p, "kickoff")
  /\ inBox' = FALSE
  /\ UNCHANGED flight

(* call_offside against attacker a; the goal-kick guard is left alone.     *)
CallOffside(a) ==
  /\ \E p \in SquadOf(Other(Squad[a])) : PlaceBall(p, "offside")
  /\ MayLeaveBox
  /\ UNCHANGED goalKick

(* effective_offside_candidates *)
OffsideCandidates ==
  IF pass # None THEN pass
  ELSE IF flight # None THEN flight ELSE {}

-----------------------------------------------------------------------------
(* The start of a tick, and the tick of a goal celebration.                *)

(* stage_opening_kickoff_if_pending arms the guard at tick 0 only.         *)
BeginTick ==
  /\ phase = "idle" /\ tick < TotalTicks /\ celebration = 0
  /\ phase' = "field" /\ todo' = Players \union {Ball}
  /\ guard' = IF tick = 0 THEN holder ELSE guard
  /\ UNCHANGED <<tick, goals, holder, lastTouch, pass, shot, flight, restart,
                 atSpot, goalKick, inBox, toucher, marked>>

(* A frozen tick; the last one takes the kickoff.  It returns before the   *)
(* period and half boundary check.                                         *)
CelebrationTick ==
  /\ phase = "idle" /\ tick < TotalTicks /\ celebration > 0
  /\ tick' = tick + 1
  /\ celebration' = celebration - 1
  /\ IF celebration = 1 /\ kickoffTeam # None
     THEN /\ Kickoff(kickoffTeam)
          /\ kickoffTeam' = None /\ kickoffs' = kickoffs + 1
     ELSE UNCHANGED <<kickoffTeam, kickoffs, holder, lastTouch, guard, pass,
                      shot, flight, restart, atSpot, inBox, toucher>>
  /\ UNCHANGED <<phase, todo, score, lastScorer, goalKick, marked>>

-----------------------------------------------------------------------------
(* Scheduled players: apply_player_intent.                                 *)

\* Restarts from which no one can be offside (offside_exempt_restart_action).
OffsideExempt == {"throw-in", "goal-kick", "corner-kick"}

\* A keeper with the ball in his own box cannot be dispossessed; the model
\* knows that he is there only while a goal kick is pending.
InKeepersHands == goalKick # None /\ inBox /\ holder = Keeper[goalKick]

Acts(p) ==
  /\ phase = "field" /\ p \in todo
  /\ todo' = todo \ {p}
  /\ UNCHANGED <<tick, phase, goals, marked>>

(* Holder p sends the ball away. *)
Release(p) ==
  /\ holder = p /\ holder' = None
  /\ Plays(p)
  /\ ClearLabel /\ MayLeaveBox
  /\ UNCHANGED goalKick

OffsideWhenPlayedBy(p) ==
  IF restart \in OffsideExempt THEN {{}} ELSE SUBSET Mates(p)

(* SoccerAction::Pass leaves an old long-ball flight in place. *)
PassBall(p) ==
  /\ Acts(p) /\ Release(p) /\ RecordTouch(p)
  /\ \E offside \in OffsideWhenPlayedBy(p) : pass' = offside
  /\ shot' = None
  /\ UNCHANGED flight

(* launch_untargeted_long_ball: Clearance and RouteOne. *)
ClearBall(p) ==
  /\ Acts(p) /\ Release(p) /\ RecordTouch(p)
  /\ \E offside \in OffsideWhenPlayedBy(p) : flight' = offside
  /\ pass' = None /\ shot' = None

(* SoccerAction::Shoot; restart_release_action shoots only a free kick, and  *)
(* the label of an offside reads as one.                                    *)
Shoot(p) ==
  /\ restart \in {NoRestart, "free-kick", "offside"}
  /\ Acts(p) /\ Release(p) /\ RecordTouch(p)
  /\ pass' = None /\ shot' = p
  /\ UNCHANGED flight

(* The run-around knock of a committed dribbler. *)
KnockPast(p) ==
  /\ restart = NoRestart
  /\ Acts(p) /\ Release(p) /\ RecordTouch(p)
  /\ pass' = None /\ shot' = None
  /\ UNCHANGED flight

(* A heavy touch of apply_dribble_intent is not a recorded touch. *)
HeavyTouch(p) ==
  /\ Acts(p) /\ Release(p)
  /\ pass' = None /\ shot' = None
  /\ UNCHANGED <<guard, flight>>

(* The holder of a restart carries the ball off the spot: on a tick without *)
(* planning continuation_intent replays what he was doing before, and       *)
(* keep-rolling turns a settling intent into a dribble.                     *)
DriftOffSpot(p) ==
  /\ restart # NoRestart /\ holder = p /\ atSpot
  /\ Acts(p)
  /\ atSpot' = FALSE
  /\ MayLeaveBox
  /\ UNCHANGED <<holder, lastTouch, guard, pass, shot, flight, restart,
                 goalKick, toucher>>

(* complete_defensive_dispossession: the restart label is not rewritten.     *)
(* Nothing bars a challenge for a held restart: the keep-out pushes an      *)
(* opponent back only after his own intent, and never the keeper, so one    *)
(* who stands at the spot and is scheduled after the award is in reach.     *)
Dispossesses(d) ==
  /\ holder # None /\ Squad[d] # Squad[holder]
  /\ ~InKeepersHands
  /\ holder' = d /\ Plays(d) /\ RecordTouch(d)
  /\ pass' = None /\ shot' = None
  /\ atSpot' = (restart = NoRestart)
  /\ MayLeaveBox
  /\ UNCHANGED <<flight, restart, goalKick>>

(* SoccerAction::Tackle and SlideTackle that win the ball. *)
WinTackle(p) == Acts(p) /\ Dispossesses(p)

(* record_dribble_beat_event: a challenge that the carrier survives with a  *)
(* dribble move is a recorded touch of the carrier.                         *)
BeatsDefender ==
  /\ holder # None
  /\ Plays(holder) /\ RecordTouch(holder)
  /\ pass' = None /\ shot' = None
  /\ UNCHANGED <<holder, flight, restart, atSpot, goalKick, inBox>>

LoseTackle(p) ==
  /\ holder # None /\ Squad[p] # Squad[holder]
  /\ Acts(p) /\ BeatsDefender

(* call_foul: a tackle in reach that is whistled. *)
Foul(p) ==
  /\ holder # None /\ Squad[p] # Squad[holder]
  /\ Acts(p)
  /\ AwardRestart("free-kick", Squad[holder])
  /\ UNCHANGED flight

PlayerStep ==
  \E p \in Players :
    \/ PassBall(p) \/ ClearBall(p) \/ Shoot(p) \/ KnockPast(p)
    \/ HeavyTouch(p) \/ DriftOffSpot(p)
    \/ WinTackle(p) \/ LoseTackle(p) \/ Foul(p)

-----------------------------------------------------------------------------
(* The scheduled ball: run_ball_time_step, BallAgent::run_time_step and     *)
(* apply_ball_outcome.  live is the shot that is left after a shot that has *)
(* slowed to a roll was demoted to a loose ball.                            *)

MayDieOut == {shot, None}

(* A carried ball: only the long-ball flight ends. *)
CarriedBall ==
  /\ holder # None
  /\ flight' = None /\ lastTouch' = Squad[holder]
  /\ MayLeaveBox
  /\ UNCHANGED <<holder, guard, pass, shot, restart, atSpot, goalKick,
                 toucher, goals>>

(* Rolls on; coming to rest ends the long-ball flight. *)
Roll ==
  /\ holder = None
  /\ flight' \in {flight, None} /\ shot' \in MayDieOut
  /\ ClearLabel /\ MayLeaveBox
  /\ UNCHANGED <<holder, lastTouch, guard, pass, goalKick, toucher, goals>>

(* An offside candidate is near the ball's path: on a loose step, or on the *)
(* way to the player who would have controlled it.  The flight stays set.   *)
OffsideInterference ==
  /\ holder = None
  /\ \E a \in OffsideCandidates : CallOffside(a)
  /\ UNCHANGED <<flight, goals>>

(* Mutant: the double-touch guard is not given to the controller search. *)
ControllersUnguarded == Players

(* Who may take a loose ball: never the guarded restart taker, and nobody   *)
(* while a shot is live.                                                    *)
Controllers == Players \ {guard}

OffsideAtControl ==
  /\ holder = None /\ None \in MayDieOut
  /\ \E c \in Controllers \intersect OffsideCandidates : CallOffside(c)
  /\ flight' = None
  /\ UNCHANGED goals

(* try_aerial_header: a pressed receiver heads the ball on. *)
AerialHeader ==
  /\ holder = None /\ None \in MayDieOut
  /\ \E c \in Controllers \ OffsideCandidates : Plays(c)
  /\ guard' = None
  /\ pass' = None /\ shot' = None /\ flight' = None
  /\ ClearLabel /\ MayLeaveBox
  /\ UNCHANGED <<holder, goalKick, goals>>

(* enforce_goal_kick_clearance_on_control: controlled inside the box, by    *)
(* anyone, the goal kick is retaken.                                        *)
RetakeGoalKick ==
  /\ holder = None /\ None \in MayDieOut
  /\ goalKick # None /\ inBox
  /\ Controllers \ OffsideCandidates # {}
  /\ AwardRestart("goal-kick", goalKick)
  /\ flight' = None
  /\ UNCHANGED goals

(* BallStepOutcome::Controlled *)
SettleControl ==
  /\ holder = None /\ None \in MayDieOut
  /\ \E c \in Controllers \ OffsideCandidates :
       /\ holder' = c /\ Plays(c) /\ RecordTouch(c)
  /\ pass' = None /\ shot' = None /\ flight' = None
  /\ goalKick' = None /\ inBox' = FALSE
  /\ ClearLabel
  /\ UNCHANGED goals

(* The box is the one of the goal-kicking side: a ball that is still in it  *)
(* may have just left it when it is controlled.                             *)
Control == SettleControl \/ RetakeGoalKick

(* Whose keeper a shot can reach: the other side's, or after a deflection   *)
(* the keeper of whichever goal the ball now travels to.                    *)
ShotKeepers ==
  IF toucher = shot THEN {Keeper[Other(Squad[shot])]}
  ELSE {Keeper[t] : t \in Teams}

(* Mutant: the save does not end the pending shot. *)
KeeperSaveKeepsShot ==
  /\ holder = None /\ shot # None
  /\ \E k \in ShotKeepers :
       /\ Plays(k)
       /\ holder' \in {k, None}
  /\ flight' = None
  /\ ClearLabel /\ MayLeaveBox
  /\ UNCHANGED <<guard, pass, shot, goalKick, goals>>

(* BallStepOutcome::Save and KeeperParry (resolve_keeper_save_at_plane):    *)
(* neither records a touch, so the double-touch guard stays.                *)
KeeperSave ==
  /\ holder = None /\ shot # None
  /\ \E k \in ShotKeepers :
       /\ Plays(k)
       /\ holder' \in {k, None}
  /\ shot' = None /\ flight' = None
  /\ ClearLabel /\ MayLeaveBox
  /\ UNCHANGED <<guard, pass, goalKick, goals>>

(* BallStepOutcome::ShotBlocked: a goal-bound deflection keeps the shot.    *)
ShotBlocked ==
  /\ holder = None /\ shot # None
  /\ \E b \in SquadOf(Other(Squad[shot])) : Plays(b)
  /\ shot' \in {shot, None}
  /\ pass' = None /\ flight' = None
  /\ ClearLabel /\ MayLeaveBox
  /\ UNCHANGED <<holder, guard, goalKick, goals>>

(* Mutant: the celebration hold is truncated to zero ticks. *)
ScoreGoalNoHold(t) ==
  /\ score' = [score EXCEPT ![t] = @ + 1]
  /\ celebration' = 0
  /\ kickoffTeam' = Other(t)
  /\ lastScorer' = t
  /\ UNCHANGED kickoffs

(* Mutant: the scorers kick off again. *)
ScoreGoalKeepsBall(t) ==
  /\ score' = [score EXCEPT ![t] = @ + 1]
  /\ celebration' = CelebrationTicks
  /\ kickoffTeam' = t
  /\ lastScorer' = t
  /\ UNCHANGED kickoffs

(* score_goal *)
ScoreGoal(t) ==
  /\ score' = [score EXCEPT ![t] = @ + 1]
  /\ celebration' = CelebrationTicks
  /\ kickoffTeam' = Other(t)
  /\ lastScorer' = t
  /\ UNCHANGED kickoffs

(* BallStepOutcome::Goal: any loose ball over the line between the posts.   *)
(* A struck shot that nobody deflected goes in at the far end.              *)
Goal ==
  /\ holder = None /\ Goals < MaxGoals
  /\ \E t \in Teams :
       /\ shot # None /\ toucher = shot => t = Squad[shot]
       /\ ScoreGoal(t)
  /\ lastTouch' \in IF shot = None THEN {lastTouch}
                    ELSE {lastTouch, Squad[shot]}
  /\ shot' = None /\ flight' = None
  /\ ClearLabel /\ MayLeaveBox
  /\ UNCHANGED <<holder, guard, pass, goalKick, toucher>>

(* BallStepOutcome::OutOfPlay over a sideline. *)
ThrowIn ==
  /\ holder = None
  /\ AwardRestart("throw-in", Other(lastTouch))
  /\ flight' = None
  /\ UNCHANGED goals

(* BallStepOutcome::OutOfPlay over the endline that d defends. *)
OverEndline ==
  /\ holder = None
  /\ \E d \in Teams : IF lastTouch = d THEN AwardRestart("corner-kick", Other(d))
                                       ELSE AwardRestart("goal-kick", d)
  /\ flight' = None
  /\ UNCHANGED goals

BallStep ==
  /\ phase = "field" /\ Ball \in todo
  /\ phase' = "stuck" /\ todo' = todo \ {Ball}
  /\ UNCHANGED <<tick, marked>>
  /\ \/ CarriedBall \/ Roll \/ OffsideInterference \/ OffsideAtControl
     \/ AerialHeader \/ Control \/ KeeperSave \/ ShotBlocked \/ Goal
     \/ ThrowIn \/ OverEndline

(* Mutant: the hoof does not record whose touch it was. *)
StuckBallWatchdogUncredited ==
  /\ phase = "stuck" /\ phase' = "livelock"
  /\ \/ UNCHANGED ballVars
     \/ /\ toucher' \in IF holder = None THEN Players ELSE {holder}
        /\ holder' = None /\ guard' = None
        /\ ClearLabel /\ MayLeaveBox
        /\ UNCHANGED <<lastTouch, pass, shot, flight, goalKick>>
  /\ UNCHANGED <<tick, todo, goals, marked>>

(* update_stuck_ball_recovery: the holder, or else the nearest player, hoofs *)
(* a ball that has not moved; a pending pass, shot or flight stays set.      *)
StuckBallWatchdog ==
  /\ phase = "stuck" /\ phase' = "livelock"
  /\ \/ UNCHANGED ballVars
     \/ /\ \E b \in IF holder = None THEN Players ELSE {holder} : Plays(b)
        /\ holder' = None /\ guard' = None
        /\ ClearLabel /\ MayLeaveBox
        /\ UNCHANGED <<pass, shot, flight, goalKick>>
  /\ UNCHANGED <<tick, todo, goals, marked>>

(* detect_and_break_possession_livelock: the ball squirts loose. *)
LivelockWatchdog ==
  /\ phase = "livelock" /\ phase' = "field"
  /\ \/ UNCHANGED ballVars
     \/ /\ holder' = None
        /\ pass' = None /\ shot' = None
        /\ ClearLabel /\ MayLeaveBox
        /\ UNCHANGED <<lastTouch, guard, flight, goalKick, toucher>>
  /\ UNCHANGED <<tick, todo, goals, marked>>

-----------------------------------------------------------------------------
(* The end of a tick. *)

(* Mutant: the tick waits until every scheduled player has played the ball. *)
FinishScheduleWaits ==
  /\ phase = "field" /\ todo = {}
  /\ phase' = "post"
  /\ \/ UNCHANGED ballVars
     \/ \E d \in Players : Dispossesses(d)
     \/ BeatsDefender
  /\ UNCHANGED <<tick, todo, goals, marked>>

(* The players left in todo do nothing to the ball;                         *)
(* resolve_dribble_hold_up_contests may then end in a steal or a beat.      *)
FinishSchedule ==
  /\ phase = "field" /\ Ball \notin todo
  /\ phase' = "post" /\ todo' = {}
  /\ \/ UNCHANGED ballVars
     \/ \E d \in Players : Dispossesses(d)
     \/ BeatsDefender
  /\ UNCHANGED <<tick, goals, marked>>

(* force_keeper_release: not a recorded touch. *)
ForcedRelease ==
  /\ holder \in {Keeper[t] : t \in Teams}
  /\ holder' = None /\ Plays(holder)
  /\ pass' = None /\ shot' = None
  /\ ClearLabel
  /\ UNCHANGED <<guard, flight>>

(* update_goal_kick_clearance, then the period or half boundary, then       *)
(* update_keeper_handling.  A boundary is handled even in the tick of a goal *)
(* and leaves the celebration pending.                                      *)
EndTick ==
  /\ phase = "post" /\ phase' = "idle"
  /\ tick' = tick + 1
  /\ goalKick' = IF inBox THEN goalKick ELSE None
  /\ IF IsBoundary(tick + 1)
     THEN Kickoff(BoundaryKickoffTeam(tick + 1)) /\ marked' = marked \union {tick + 1}
     ELSE /\ \/ ForcedRelease
             \/ UNCHANGED <<holder, lastTouch, guard, pass, shot, flight,
                            restart, atSpot, toucher>>
          /\ UNCHANGED <<inBox, marked>>
  /\ UNCHANGED <<todo, goals>>

-----------------------------------------------------------------------------
Next ==
  \/ BeginTick \/ CelebrationTick
  \/ PlayerStep \/ BallStep
  \/ StuckBallWatchdog \/ LivelockWatchdog
  \/ FinishSchedule \/ EndTick

\* Every driver steps the match until is_done.
Spec == Init /\ [][Next]_vars /\ WF_vars(Next)

-----------------------------------------------------------------------------
(* Properties *)

(* Every variable stays in its range; in particular tick never passes       *)
(* total_ticks and the in-box flag means something only for a goal kick.    *)
TypeOK ==
  /\ tick \in 0..TotalTicks
  /\ phase \in {"idle", "field", "stuck", "livelock", "post"}
  /\ phase # "idle" => tick < TotalTicks
  /\ todo \subseteq Players \union {Ball}
  /\ score \in [Teams -> Nat]
  /\ celebration \in 0..CelebrationTicks
  /\ kickoffTeam \in Teams \union {None}
  /\ holder \in Players \union {None}
  /\ lastTouch \in Teams
  /\ guard \in Players \union {None}
  /\ pass \in {None} \union SUBSET Players
  /\ shot \in Players \union {None}
  /\ flight \in {None} \union SUBSET Players
  /\ restart \in RestartKinds \union {NoRestart}
  /\ atSpot \in BOOLEAN
  /\ goalKick \in Teams \union {None}
  /\ inBox \in BOOLEAN
  /\ toucher \in Players
  /\ lastScorer \in Teams \union {None}
  /\ kickoffs \in Nat
  /\ marked \subseteq 1..TotalTicks

(* A held ball has nothing in flight: whoever gains the ball, by control,   *)
(* tackle, save or restart, ends the pass and the shot that were pending,   *)
(* so no stale pass is ever completed and no stale shot saved.              *)
HeldBallSettled == holder # None => pass = None /\ shot = None

(* The team a throw-in or corner is awarded against is the team of the      *)
(* player who really played the ball last (celebration freezes a shot that  *)
(* went in off a defender as the shooter's).                                *)
LastTouchTeamTrue == celebration = 0 => lastTouch = Squad[toucher]

(* Every goal leads to exactly one celebration and one kickoff, however the *)
(* goal tick coincides with a period boundary.                              *)
GoalKickoffLedger ==
  Goals = kickoffs + (IF celebration > 0 THEN 1 ELSE 0)

(* While a restart is held the double-touch guard is armed on its holder,   *)
(* who was the last to play the ball, or on nobody, as after an opponent    *)
(* has taken the ball from the taker: the guard of one restart never        *)
(* outlives it into the next one, where it would bar an innocent player.    *)
RestartGuardIsItsHolder ==
  holder # None /\ restart # NoRestart /\ guard # None =>
    guard = holder /\ toucher = holder

(* Law 16: until a goal kick has left the box nobody but the keeper who     *)
(* takes it holds the ball there.                                           *)
GoalKickOnlyTakerHolds ==
  goalKick # None /\ inBox /\ holder # None => holder = Keeper[goalKick]

(* Whoever holds the ball holds it by right: nothing of an earlier kick is  *)
(* left to be completed, the guard of a restart is its holder's or nobody's,*)
(* and a goal kick in the box is held by its keeper.                        *)
HeldBallIsRightful ==
  HeldBallSettled /\ RestartGuardIsItsHolder /\ GoalKickOnlyTakerHolds

(* The kickoff after a celebration goes to the side that conceded the last  *)
(* goal, to a guarded taker, with nothing in flight.                        *)
KickoffAfterGoal ==
  [][celebration > 0 /\ celebration' = 0 =>
       /\ holder' # None /\ Squad[holder'] # lastScorer
       /\ guard' = holder' /\ restart' = "kickoff"
       /\ pass' = None /\ shot' = None]_vars

(* A restart taker who was the last to play the ball does not get it back   *)
(* from a loose ball except through a new restart.                          *)
GuardedTakerNeverRegains ==
  [][guard # None /\ toucher = guard /\ holder = None /\ holder' = guard
       => restart' # NoRestart]_vars

(* The match ends: no restart, celebration or boundary stalls the clock.    *)
MatchEnds == <>(tick = TotalTicks)

-----------------------------------------------------------------------------
(* What comments and tests of the repository say and the code does not do.  *)

(* world.rs:1914: a held restart is released by a pass, not dribbled.       *)
HeldRestartStaysOnSpot == restart # NoRestart /\ holder = guard => atSpot

(* world.rs:31649: opponents are held at the line until the taker plays the *)
(* ball, so the ball of an offside restart stays with its taker.            *)
TakerKeepsRestart == holder # None /\ restart = "offside" => holder = guard

(* world.rs:1914: the double-touch guard is cleared once any other player   *)
(* touches the ball.                                                        *)
OtherTouchClearsGuard == guard # None => toucher = guard

(* world.rs:39199: the ball stays in the net for the celebration, and the   *)
(* kickoff is taken when it is over.                                        *)
BallStaysInNet == celebration > 0 => holder = None

(* Every boundary that the tick counter has passed stopped play.            *)
BoundariesMarked ==
  phase = "idle" => \A b \in 1..tick : IsBoundary(b) => b \in marked
=============================================================================
