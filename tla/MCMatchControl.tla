--------------------------- MODULE MCMatchControl ---------------------------
(***************************************************************************)
(* A keeper and an outfielder against a keeper and two outfielders: the    *)
(* smallest match in which a restart has a taker, team mates to receive it *)
(* and opponents, and a pass can find one of two offside candidates.       *)
(***************************************************************************)
EXTENDS MatchLifecycle

CONSTANTS hk, hf, ak, af, ag

MCPlayers == {hk, hf, ak, af, ag}
MCSquad == [p \in MCPlayers |-> IF p \in {hk, hf} THEN "Home" ELSE "Away"]
MCKeeper == [t \in Teams |-> IF t = "Home" THEN hk ELSE ak]
=============================================================================
