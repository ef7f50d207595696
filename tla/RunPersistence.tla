--------------------------- MODULE RunPersistence ----------------------------
(***************************************************************************)
(* What the queue runner may rely on when it hands completed runs to its   *)
(* Postgres writer: batches are numbered as they are handed over, settled  *)
(* in that order with or without becoming durable, and the run ends well   *)
(* only when every batch is durable.  A batch that was settled without     *)
(* becoming durable is lost for good.                                      *)
(***************************************************************************)
EXTENDS Naturals

VARIABLES
  accepted,  \* batches handed over
  settled,   \* batches answered, in order
  durable,   \* the batches whose rows are in the store
  outcome    \* open, then ok or err

pvars == <<accepted, settled, durable, outcome>>

Init == accepted = 0 /\ settled = 0 /\ durable = {} /\ outcome = "open"

Accept ==
  /\ outcome = "open"
  /\ accepted' = accepted + 1
  /\ UNCHANGED <<settled, durable, outcome>>

\* A group of the oldest unsettled batches becomes durable, all of it at once.
Persist ==
  /\ \E upto \in settled + 1..accepted : durable' = durable \union (settled + 1..upto)
  /\ UNCHANGED <<accepted, settled, outcome>>

Settle ==
  /\ settled' \in settled + 1..accepted
  /\ UNCHANGED <<accepted, durable, outcome>>

Succeed ==
  /\ outcome = "open" /\ settled = accepted /\ durable = 1..accepted
  /\ outcome' = "ok"
  /\ UNCHANGED <<accepted, settled, durable>>

GiveUp ==
  /\ outcome = "open"
  /\ outcome' = "err"
  /\ UNCHANGED <<accepted, settled, durable>>

Next == Accept \/ Persist \/ Settle \/ Succeed \/ GiveUp

Spec == Init /\ [][Next]_pvars
=============================================================================
