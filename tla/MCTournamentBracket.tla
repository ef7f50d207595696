--------------------------- MODULE MCTournamentBracket ---------------------------
(* TournamentBracket on formats small enough to play every outcome.          *)
EXTENDS TournamentBracket

Format(groups, size, advancers, double, third) ==
  [groups |-> groups, size |-> size, advancers |-> advancers, double |-> double, third |-> third]

MCFormats ==
  {Format(1, 4, 2, FALSE, TRUE), Format(1, 4, 4, FALSE, TRUE), Format(2, 3, 2, FALSE, TRUE),
   Format(2, 2, 1, TRUE, TRUE), Format(1, 3, 2, TRUE, FALSE), Format(3, 2, 1, FALSE, FALSE)}

MCScores == {<<1, 0>>, <<0, 0>>, <<0, 1>>}
MCSeeds == <<3, 1, 2, 1, 5, 4>>
=============================================================================
