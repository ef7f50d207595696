------------------------------ MODULE Lifecycle ------------------------------
(***************************************************************************)
(* The transport-agnostic match lifecycle of                               *)
(* src/src/des/general/soccer/lifecycle.rs: SoccerMatch::apply, one action *)
(* per lifecycle event.  An event that apply ignores in the current phase  *)
(* leaves the projection as it is, which is a stuttering step here.        *)
(* It is the abstract specification that MatchControl implements           *)
(* (MatchLifecycle.tla).                                                   *)
(***************************************************************************)
EXTENDS Integers

CONSTANTS
  MaxTicks,  \* SoccerMatch.max_ticks
  ScoreCap   \* SoccerMatch.score_cap

\* with_limits rejects zero limits; the theorems assume it.
LimitsAssumption ==
  /\ MaxTicks \in Nat \ {0}
  /\ ScoreCap \in Nat \ {0}

Sides == {"Home", "Away"}
Conceder(side) == IF side = "Home" THEN "Away" ELSE "Home"
Nobody == "None"  \* Possession::None

VARIABLES
  phase,        \* MatchPhase
  tick,
  score,        \* home_score, away_score
  possession,
  restartSide,
  lastScorer    \* history: the side that scored the last goal

vars == <<phase, tick, score, possession, restartSide, lastScorer>>

Init ==
  /\ phase = "PreKickoff" /\ tick = 0
  /\ score = [s \in Sides |-> 0]
  /\ possession = Nobody /\ restartSide = "Home"
  /\ lastScorer = Nobody

(* MatchAction::Start and MatchAction::Restart *)
KickOff(from) ==
  /\ phase = from /\ phase' = "InPlay"
  /\ possession' = restartSide
  /\ UNCHANGED <<tick, score, restartSide, lastScorer>>

Start == KickOff("PreKickoff")
Restart == KickOff("Stoppage")

(* MatchAction::Tick ends the match at the limit. *)
Tick ==
  /\ phase = "InPlay"
  /\ tick' = IF tick + 1 < MaxTicks THEN tick + 1 ELSE MaxTicks
  /\ phase' = IF tick' >= MaxTicks THEN "Finished" ELSE phase
  /\ possession' = IF phase' = "Finished" THEN Nobody ELSE possession
  /\ UNCHANGED <<score, restartSide, lastScorer>>

(* HomePossession, AwayPossession and LooseBall *)
Possess(who) ==
  /\ phase = "InPlay"
  /\ possession' = who
  /\ UNCHANGED <<phase, tick, score, restartSide, lastScorer>>

(* HomeGoal and AwayGoal; a goal at the cap is ignored. *)
Goal(side) ==
  /\ phase = "InPlay" /\ score[side] < ScoreCap
  /\ score' = [score EXCEPT ![side] = @ + 1]
  /\ phase' = "Stoppage" /\ possession' = Nobody
  /\ restartSide' = Conceder(side)
  /\ lastScorer' = side
  /\ UNCHANGED tick

(* MatchAction::Finish *)
Finish ==
  /\ phase # "Finished"
  /\ phase' = "Finished" /\ possession' = Nobody
  /\ UNCHANGED <<tick, score, restartSide, lastScorer>>

Next ==
  \/ Start \/ Restart \/ Tick \/ Finish
  \/ \E who \in Sides \union {Nobody} : Possess(who)
  \/ \E side \in Sides : Goal(side)

\* No fairness: which events arrive is up to the caller.
Spec == Init /\ [][Next]_vars

-----------------------------------------------------------------------------
(* Properties *)

(* Every variable stays in its range. *)
TypeOK ==
  /\ phase \in {"PreKickoff", "InPlay", "Stoppage", "Finished"}
  /\ tick \in Nat
  /\ score \in [Sides -> Nat]
  /\ possession \in Sides \union {Nobody}
  /\ restartSide \in Sides
  /\ lastScorer \in Sides \union {Nobody}

(* SoccerMatch::validate: the limits are respected and only a match in play *)
(* has a side in possession; and play never continues at the tick limit.    *)
Validate ==
  /\ tick <= MaxTicks
  /\ \A s \in Sides : score[s] <= ScoreCap
  /\ phase # "InPlay" => possession = Nobody
  /\ phase = "InPlay" => tick < MaxTicks

(* Finished is absorbing: no event changes a finished match. *)
FinishedIsAbsorbing == [][phase = "Finished" => UNCHANGED vars]_vars

(* After a goal play resumes with the side that conceded it, however long   *)
(* the stoppage and whatever events arrived during it.                      *)
ConcedingSideRestarts ==
  [][phase = "Stoppage" /\ phase' = "InPlay"
       => possession' = Conceder(lastScorer) /\ UNCHANGED score]_vars
=============================================================================
