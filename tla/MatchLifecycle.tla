--------------------------- MODULE MatchLifecycle ---------------------------
(***************************************************************************)
(* MatchControl implements Lifecycle: the projection that a lifecycle      *)
(* consumer would be given of a simulated match.                           *)
(*                                                                         *)
(* The two clocks cannot be identified.  The lifecycle clock ignores ticks *)
(* while play is stopped; SoccerMatch.tick counts the ticks of a           *)
(* celebration, and clock_seconds advances once more after the goal of the *)
(* tick.  The lifecycle clock is therefore hidden, and full time is the    *)
(* event Finish, which the lifecycle allows at any moment.                 *)
(***************************************************************************)
EXTENDS MatchControl

SideOf(t) == IF t = None THEN "None" ELSE t

ProjectedPhase ==
  IF tick = TotalTicks THEN "Finished"
  ELSE IF celebration > 0 THEN "Stoppage"
  ELSE IF tick = 0 /\ phase = "idle" THEN "PreKickoff"
  ELSE "InPlay"

ProjectedPossession ==
  IF ProjectedPhase = "InPlay" /\ holder # None THEN Squad[holder] ELSE "None"

ProjectedRestartSide ==
  IF lastScorer = None THEN "Home" ELSE Other(lastScorer)

\* The score cap of the lifecycle is the bound on the goals of a behaviour.
Envelope == INSTANCE Lifecycle WITH
  MaxTicks <- 1, ScoreCap <- MaxGoals,
  phase <- ProjectedPhase,
  tick <- 0,
  score <- score,
  possession <- ProjectedPossession,
  restartSide <- ProjectedRestartSide,
  lastScorer <- SideOf(lastScorer)

(* Whatever the physics, the decisions and the watchdogs do, an observer of *)
(* phase, score, possession and restart side sees only what the lifecycle   *)
(* contract allows: one goal per stoppage, kickoff to the side that         *)
(* conceded, no possession outside play and nothing after full time.        *)
ImplementsLifecycle == Envelope!Spec
=============================================================================
