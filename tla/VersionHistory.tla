--------------------------- MODULE VersionHistory ----------------------------
(***************************************************************************)
(* What everyone who reads the policy versions of an experiment may rely   *)
(* on: each version becomes a row in one step, after the row of its parent *)
(* and never again, a promotion archives the old head and makes the new    *)
(* one in the same step, and no other step touches a row.  A version is a  *)
(* row or lost, for good.                                                  *)
(***************************************************************************)
CONSTANTS
  Version,
  NoParent   \* the parent of a version that has none

VARIABLES
  rows,    \* the rows of the table: a version and its parent
  heads,   \* the active versions
  gone     \* the versions that will never be a row

hvars == <<rows, heads, gone>>

Inserted == {row.version : row \in rows}

Init == rows = {} /\ heads = {} /\ gone = {}

Insert(v, parent) ==
  /\ v \notin Inserted \union gone
  /\ parent \in Inserted \union {NoParent}
  /\ rows' = rows \union {[version |-> v, parent |-> parent]}
  /\ UNCHANGED gone

Archive(v, parent) == Insert(v, parent) /\ UNCHANGED heads

Promote(v, parent) == Insert(v, parent) /\ heads' = {v}

Lose ==
  /\ \E some \in SUBSET (Version \ Inserted) : gone' = gone \union some
  /\ UNCHANGED <<rows, heads>>

Next ==
  \/ \E v \in Version, parent \in Version \union {NoParent} : Archive(v, parent) \/ Promote(v, parent)
  \/ Lose

Spec == Init /\ [][Next]_hvars
=============================================================================
