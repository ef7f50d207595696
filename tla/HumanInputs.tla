----------------------------- MODULE HumanInputs -----------------------------
(***************************************************************************)
(* The way of a controller frame from an HTTP request to a player of a     *)
(* live match: the router that checks whom a slot controls, the mailbox    *)
(* and thread of each slot, the shared queue with its notifier, and the    *)
(* tick that waits for frames and drains them under the session mutex,     *)
(* beside assignments and resets under the same mutex.                     *)
(*                                                                         *)
(* A request carries one frame a slot (push_human_inputs merges what it    *)
(* has more of).  With one frame a slot in the queue the limit of 256 is   *)
(* out of reach, and the queue is a function.  Time is the choice to let a *)
(* queued frame pass its 250 ms or a wait its deadline.                    *)
(***************************************************************************)
EXTENDS Naturals, FiniteSets

CONSTANTS
  Slots, Players, None,
  MaxSeq,     \* highest sequence number a client sends
  MaxFrames,  \* frames accepted in all
  MaxAdmin    \* assignments and resets in all

\* moves: the axis is not zero; command: pass, shoot or action.
Frames == [id : 1..MaxFrames, slot : Slots, player : Players \union {None},
           seq : 1..MaxSeq, moves : BOOLEAN, command : BOOLEAN,
           owner : Players]  \* history: the player of the slot when accepted

ASSUME InputsAssumption ==
  /\ IsFiniteSet(Slots)
  /\ None \notin Slots \union Players \union Frames \union {"step", "admin"}
  /\ MaxSeq \in Nat /\ MaxFrames \in Nat /\ MaxAdmin \in Nat

VARIABLES
  lock,       \* who holds the session mutex: None, step or admin
  assigned,   \* controller_slot of the players, by slot
  routes,     \* SharedControllerAssignments
  accepted,   \* history: frames accepted so far
  http,       \* accepted frames not dispatched yet
  box, boxSeq,    \* the mailboxes: latest, latest_seq_seen
  hand,       \* the frame a controller thread has taken
  queue, old, queueSeq,   \* pending, whether it has expired, latest_seq_by_slot
  notifying,  \* slots pushed whose notification is still due
  version, slotVersion,   \* HumanInputNotifierState
  latched,    \* latched_human_inputs
  tick,       \* where the tick is: see TypeOK
  todo,       \* players whose turn has not come
  actor,      \* whose turn it is
  waitFor, seen,  \* slots and version of the wait
  driven,     \* history: the last frame that drove a player, and whom
  drivenSeq,  \* history: of each slot, the last frame since its assignment
  commands,   \* history: how often the command of a frame was executed
  clearing,   \* slots an assignment or reset has still to clear
  boxNext,    \* the slot whose queue is cleared and whose mailbox is not
  admins      \* assignments and resets so far

session == <<assigned, latched>>
router == <<routes, accepted, http>>
mailbox == <<box, boxSeq>>
shared == <<queue, old, queueSeq, notifying, version, slotVersion>>
ticking == <<tick, todo, actor, waitFor, seen>>
history == <<driven, drivenSeq, commands>>
admin == <<clearing, boxNext, admins>>
vars == <<lock, session, router, mailbox, hand, shared, ticking, history, admin>>

Nothing == [s \in Slots |-> None]
Zero == [s \in Slots |-> 0]

Init ==
  /\ lock = None /\ assigned = Nothing /\ latched = Nothing
  /\ routes = Nothing /\ accepted = 0 /\ http = {}
  /\ box = Nothing /\ boxSeq = Zero /\ hand = Nothing
  /\ queue = Nothing /\ old = {} /\ queueSeq = Zero
  /\ notifying = {} /\ version = 0 /\ slotVersion = Zero
  /\ tick = "idle" /\ todo = {} /\ actor = None /\ waitFor = {} /\ seen = 0
  /\ driven = None /\ drivenSeq = Zero /\ commands = [i \in 1..MaxFrames |-> 0]
  /\ clearing = {} /\ boxNext = None /\ admins = 0

-----------------------------------------------------------------------------
(* POST /api/input, without the session mutex *)

Accepts(slot, player) == routes[slot] # None /\ player \in {None, routes[slot]}

Accept ==
  /\ accepted < MaxFrames
  /\ \E s \in Slots, p \in Players \union {None}, n \in 1..MaxSeq, m, c \in BOOLEAN :
       /\ Accepts(s, p)
       /\ http' = http \union
            {[id |-> accepted + 1, slot |-> s, player |-> p, seq |-> n,
              moves |-> m, command |-> c, owner |-> routes[s]]}
  /\ accepted' = accepted + 1
  /\ UNCHANGED <<lock, session, routes, mailbox, hand, shared, ticking, history, admin>>

(* HumanControllerMailbox::send: the newest frame replaces the one before. *)
Dispatch(f) ==
  /\ f \in http /\ http' = http \ {f}
  /\ IF f.seq > boxSeq[f.slot]
       THEN box' = [box EXCEPT ![f.slot] = f] /\ boxSeq' = [boxSeq EXCEPT ![f.slot] = f.seq]
       ELSE UNCHANGED mailbox
  /\ UNCHANGED <<lock, session, routes, accepted, hand, shared, ticking, history, admin>>

-----------------------------------------------------------------------------
(* The controller thread of a slot *)

\* wait_for_debounced_input, once the mailbox has been quiet.
TakeFrame(s) ==
  /\ hand[s] = None /\ s \notin notifying /\ box[s] # None
  /\ hand' = [hand EXCEPT ![s] = box[s]]
  /\ box' = [box EXCEPT ![s] = None]
  /\ UNCHANGED <<lock, session, router, boxSeq, shared, ticking, history, admin>>

(* Mutant: the queue takes a frame whatever its sequence number. *)
PushAny(s) ==
  /\ hand[s] # None
  /\ hand' = [hand EXCEPT ![s] = None]
  /\ queue' = [queue EXCEPT ![s] = hand[s]] /\ old' = old \ {s}
  /\ queueSeq' = [queueSeq EXCEPT ![s] = hand[s].seq]
  /\ notifying' = notifying \union {s}
  /\ UNCHANGED <<lock, session, router, mailbox, version, slotVersion, ticking, history, admin>>

(* push: into the queue under its lock ... *)
Push(s) ==
  /\ hand[s] # None
  /\ hand' = [hand EXCEPT ![s] = None]
  /\ IF hand[s].seq > queueSeq[s]
       THEN /\ queue' = [queue EXCEPT ![s] = hand[s]] /\ old' = old \ {s}
            /\ queueSeq' = [queueSeq EXCEPT ![s] = hand[s].seq]
            /\ notifying' = notifying \union {s}
       ELSE UNCHANGED <<queue, old, queueSeq, notifying>>
  /\ UNCHANGED <<lock, session, router, mailbox, version, slotVersion, ticking, history, admin>>

(* Mutant: the slot is stamped before the version moves on. *)
NotifyStampsFirst(s) ==
  /\ s \in notifying /\ notifying' = notifying \ {s}
  /\ version' = version + 1
  /\ slotVersion' = [slotVersion EXCEPT ![s] = version]
  /\ UNCHANGED <<lock, session, router, mailbox, hand, queue, old, queueSeq,
                 ticking, history, admin>>

(* ... and then the notifier under its own. *)
Notify(s) ==
  /\ s \in notifying /\ notifying' = notifying \ {s}
  /\ version' = version + 1
  /\ slotVersion' = [slotVersion EXCEPT ![s] = version + 1]
  /\ UNCHANGED <<lock, session, router, mailbox, hand, queue, old, queueSeq,
                 ticking, history, admin>>

Expire(s) ==
  /\ queue[s] # None /\ s \notin old
  /\ old' = old \union {s}
  /\ UNCHANGED <<lock, session, router, mailbox, hand, queue, queueSeq, notifying,
                 version, slotVersion, ticking, history, admin>>

-----------------------------------------------------------------------------
(* A tick, under the session mutex *)

Controlled == {s \in Slots : assigned[s] # None}
Fresh(S) == {s \in S : queue[s] # None /\ s \notin old}

StepBegin ==
  /\ lock = None /\ lock' = "step"
  /\ todo' = Players /\ actor' = None /\ waitFor' = Controlled
  /\ tick' = IF waitFor' = {} THEN "turn" ELSE "version"
  /\ UNCHANGED <<seen, session, router, mailbox, hand, shared, history, admin>>

AfterWait == IF actor = None THEN "turn" ELSE "drain"

(* wait_for_pending_input_for_slots_result reads the version first. *)
ReadVersion ==
  /\ tick = "version"
  /\ seen' = version /\ tick' = "look"
  /\ UNCHANGED <<lock, session, router, mailbox, hand, shared, todo, actor, waitFor,
                 history, admin>>

Prune(S) ==
  /\ queue' = [s \in Slots |-> IF s \in S \intersect old THEN None ELSE queue[s]]
  /\ old' = old \ S
  /\ UNCHANGED <<queueSeq, notifying, version, slotVersion>>

Look ==
  /\ tick = "look"
  /\ Prune(waitFor)
  /\ tick' = IF Fresh(waitFor) # {} THEN AfterWait ELSE "sleep"
  /\ UNCHANGED <<lock, session, router, mailbox, hand, todo, actor, waitFor, seen,
                 history, admin>>

Changed == \E s \in waitFor : slotVersion[s] > seen

\* The condvar: woken when a slot it waits for has changed.
Wake ==
  /\ tick \in {"sleep", "coalesce"} /\ Changed
  /\ seen' = version /\ tick' = "more"
  /\ UNCHANGED <<lock, session, router, mailbox, hand, shared, todo, actor, waitFor,
                 history, admin>>

(* With a frame there, wait a little for those of the other slots. *)
LookAgain ==
  /\ tick = "more"
  /\ Prune(waitFor)
  /\ tick' = IF Fresh(waitFor) = {} THEN "sleep"
             ELSE IF Fresh(waitFor) = waitFor THEN AfterWait ELSE "coalesce"
  /\ UNCHANGED <<lock, session, router, mailbox, hand, todo, actor, waitFor, seen,
                 history, admin>>

Timeout ==
  /\ tick \in {"sleep", "coalesce"}
  /\ Prune(waitFor) /\ tick' = AfterWait
  /\ UNCHANGED <<lock, session, router, mailbox, hand, todo, actor, waitFor, seen,
                 history, admin>>

SlotsOf(p) == {s \in Slots : assigned[s] = p}

(* The players act in a random order; a slide tackle that missed costs the  *)
(* turn, and a controlled player may be waited for a little longer.         *)
Turn(p) ==
  /\ tick = "turn" /\ p \in todo
  /\ todo' = todo \ {p}
  /\ \/ UNCHANGED <<tick, actor, waitFor>>
     \/ /\ SlotsOf(p) # {} /\ actor' = p /\ waitFor' = SlotsOf(p)
        /\ \/ tick' = "drain"
           \/ tick' = "version" /\ \A s \in SlotsOf(p) : queue[s] = None
  /\ UNCHANGED <<lock, session, router, mailbox, hand, shared, seen, history, admin>>

Motion(f) == [f EXCEPT !.command = FALSE]

(* Mutant: the frame is latched with its command. *)
LatchAll(s) ==
  latched' = [latched EXCEPT ![s] = IF queue[s].moves THEN queue[s] ELSE None]

\* Movement is replayed on the ticks between frames, a release ends it.
Latch(s) ==
  latched' = [latched EXCEPT ![s] = IF queue[s].moves THEN Motion(queue[s]) ELSE None]

Drives(f, p) ==
  IF f # None /\ f.player \in {None, p}
    THEN /\ driven' = [player |-> p, frame |-> f]
         /\ commands' = [commands EXCEPT ![f.id] = @ + IF f.command THEN 1 ELSE 0]
    ELSE UNCHANGED <<driven, commands>>

DrainFresh(s) ==
  /\ queue[s] # None /\ s \notin old
  /\ Latch(s) /\ Drives(queue[s], actor)
  /\ drivenSeq' = [drivenSeq EXCEPT ![s] = queue[s].seq]

FollowLatched(s) ==
  /\ queue[s] = None \/ s \in old
  /\ Drives(latched[s], actor)
  /\ UNCHANGED <<latched, drivenSeq>>

(* drain_latest_for_slot_with_age and what the tick makes of its answer. *)
Drain(s) ==
  /\ tick = "drain" /\ s \in SlotsOf(actor)
  /\ DrainFresh(s) \/ FollowLatched(s)
  /\ queue' = [queue EXCEPT ![s] = None] /\ old' = old \ {s}
  /\ tick' = "turn" /\ actor' = None /\ waitFor' = {}
  /\ UNCHANGED <<lock, assigned, router, mailbox, hand, queueSeq, notifying, version,
                 slotVersion, todo, seen, admin>>

StepEnd ==
  /\ tick = "turn" /\ todo = {}
  /\ tick' = "idle" /\ lock' = None
  /\ UNCHANGED <<session, router, mailbox, hand, shared, todo, actor, waitFor, seen,
                 history, admin>>

Step ==
  \/ StepBegin \/ ReadVersion \/ Look \/ Wake \/ LookAgain \/ Timeout
  \/ (\E p \in Players : Turn(p)) \/ (\E s \in Slots : Drain(s)) \/ StepEnd

-----------------------------------------------------------------------------
(* Assignments and resets, under the session mutex *)

\* clear_slot of every slot in S, with a notification where it removed anything.
ClearQueue(S) ==
  LET cleared == {s \in S : queue[s] # None \/ queueSeq[s] > 0} IN
  /\ queue' = [s \in Slots |-> IF s \in S THEN None ELSE queue[s]]
  /\ old' = old \ S
  /\ queueSeq' = [s \in Slots |-> IF s \in S THEN 0 ELSE queueSeq[s]]
  /\ version' = version + Cardinality(cleared)
  /\ slotVersion' = [s \in Slots |-> IF s \in cleared THEN version' ELSE slotVersion[s]]
  /\ UNCHANGED notifying

Without(p) == [s \in Slots |-> IF assigned[s] = p THEN None ELSE assigned[s]]
\* The slot, and the slot the player had before.
Affected(s, p) == {s} \union {t \in Slots : p # None /\ assigned[t] = p}

(* Mutant: the latched input survives where the slot had a player before.  *)
AssignKeepsLatch(s, p) ==
  /\ lock = None /\ admins < MaxAdmin /\ assigned[s] # p
  /\ lock' = "admin" /\ admins' = admins + 1
  /\ assigned' = IF p = None THEN [assigned EXCEPT ![s] = None]
                 ELSE [Without(p) EXCEPT ![s] = p]
  /\ latched' = [t \in Slots |-> IF t \in Affected(s, p) /\ (t # s \/ p = None \/ assigned[s] = None)
                               THEN None ELSE latched[t]]
  /\ drivenSeq' = [t \in Slots |-> IF t \in Affected(s, p) THEN 0 ELSE drivenSeq[t]]
  /\ ClearQueue(Affected(s, p))
  /\ clearing' = Affected(s, p)
  /\ UNCHANGED <<router, mailbox, hand, ticking, driven, commands, boxNext>>

(* assign_controller_slot: the slot s, and the slot the player had before,  *)
(* lose what the match holds of them.                                       *)
Assign(s, p) ==
  /\ lock = None /\ admins < MaxAdmin /\ assigned[s] # p
  /\ lock' = "admin" /\ admins' = admins + 1
  /\ assigned' = IF p = None THEN [assigned EXCEPT ![s] = None]
                 ELSE [Without(p) EXCEPT ![s] = p]
  /\ latched' = [t \in Slots |-> IF t \in Affected(s, p) THEN None ELSE latched[t]]
  /\ drivenSeq' = [t \in Slots |-> IF t \in Affected(s, p) THEN 0 ELSE drivenSeq[t]]
  /\ ClearQueue(Affected(s, p))
  /\ clearing' = Affected(s, p)
  /\ UNCHANGED <<router, mailbox, hand, ticking, driven, commands, boxNext>>

(* reset_match: the new match has the same queue and may keep the slots. *)
Reset(keep) ==
  /\ lock = None /\ admins < MaxAdmin
  /\ lock' = "admin" /\ admins' = admins + 1
  /\ assigned' = IF keep THEN assigned ELSE Nothing
  /\ latched' = Nothing /\ drivenSeq' = Zero
  /\ ClearQueue(Slots)
  /\ clearing' = Slots
  /\ UNCHANGED <<router, mailbox, hand, ticking, driven, commands, boxNext>>

(* clear_pending_for_slot: first the queue of the slot ... *)
ClearPendingQueue(s) ==
  /\ s \in clearing /\ boxNext = None
  /\ ClearQueue({s}) /\ boxNext' = s
  /\ UNCHANGED <<lock, session, router, mailbox, hand, ticking, history, clearing, admins>>

(* ... then its mailbox. *)
ClearPendingBox(s) ==
  /\ boxNext = s
  /\ box' = [box EXCEPT ![s] = None] /\ boxSeq' = [boxSeq EXCEPT ![s] = 0]
  /\ clearing' = clearing \ {s} /\ boxNext' = None
  /\ UNCHANGED <<lock, session, router, hand, shared, ticking, history, admins>>

\* sync_controller_input_assignments
AdminEnd ==
  /\ lock = "admin" /\ clearing = {}
  /\ routes' = assigned /\ lock' = None
  /\ UNCHANGED <<session, accepted, http, mailbox, hand, shared, ticking, history, admin>>

Admin ==
  \/ \E s \in Slots, p \in Players \union {None} : Assign(s, p)
  \/ \E keep \in BOOLEAN : Reset(keep)
  \/ \E s \in Slots : ClearPendingQueue(s) \/ ClearPendingBox(s)
  \/ AdminEnd

Controller(s) == TakeFrame(s) \/ Push(s) \/ Notify(s)

Next ==
  \/ Accept \/ (\E f \in http : Dispatch(f))
  \/ \E s \in Slots : Controller(s) \/ Expire(s)
  \/ Step \/ Admin

Spec == Init /\ [][Next]_vars

-----------------------------------------------------------------------------
(* Properties *)

MaybeFrame == Frames \union {None}

(* Every variable stays in its range. *)
TypeOK ==
  /\ lock \in {None, "step", "admin"}
  /\ assigned \in [Slots -> Players \union {None}]
  /\ routes \in [Slots -> Players \union {None}]
  /\ accepted \in 0..MaxFrames /\ http \subseteq Frames
  /\ latched \in [Slots -> MaybeFrame] /\ box \in [Slots -> MaybeFrame]
  /\ hand \in [Slots -> MaybeFrame] /\ queue \in [Slots -> MaybeFrame]
  /\ boxSeq \in [Slots -> 0..MaxSeq] /\ queueSeq \in [Slots -> 0..MaxSeq]
  /\ version \in Nat /\ slotVersion \in [Slots -> Nat] /\ seen \in Nat
  /\ old \subseteq {s \in Slots : queue[s] # None} /\ notifying \subseteq Slots
  /\ tick \in {"idle", "version", "look", "sleep", "more", "coalesce", "turn", "drain"}
  /\ todo \subseteq Players /\ actor \in Players \union {None} /\ waitFor \subseteq Slots
  /\ drivenSeq \in [Slots -> 0..MaxSeq] /\ commands \in [1..MaxFrames -> Nat]
  /\ clearing \subseteq Slots /\ boxNext \in Slots \union {None} /\ admins \in 0..MaxAdmin

(* The wait of a tick misses no frame: while it sleeps, a frame that is in  *)
(* the queue for one of its slots has a notification it has not seen yet,   *)
(* or one that is about to come.                                            *)
NoLostWakeup ==
  tick = "sleep" => \A s \in Fresh(waitFor) : slotVersion[s] > seen \/ s \in notifying

(* Since the slot was assigned its player is driven by newer and newer      *)
(* frames: what waits in the queue is newer than all that came before,      *)
(* whatever threads and clears did meanwhile.                               *)
InputsInOrder == \A s \in Slots : queue[s] # None => queue[s].seq > drivenSeq[s]

(* A pass or shot sent once is executed at most once, although the movement *)
(* of its frame is replayed tick after tick.                                *)
CommandAtMostOnce == \A i \in DOMAIN commands : commands[i] <= 1

(* The movement that is replayed is that of the last frame a tick took for  *)
(* the slot since it got its present player: an assignment, from nobody or  *)
(* directly from another player, and a reset leave nothing to replay.       *)
(* (Whether that frame was meant for this player is another question: see   *)
(* StaleInputNotInherited.)                                                 *)
LatchFollowsAssignment ==
  /\ \A s, t \in Slots : assigned[s] # None /\ assigned[s] = assigned[t] => s = t
  /\ \A s \in Slots :
       latched[s] # None => assigned[s] # None /\ latched[s].seq = drivenSeq[s]

(* A frame accepted for one player never drives another one to whom the     *)
(* slot was assigned meanwhile.                                             *)
StaleInputNotInherited == driven # None => driven.frame.owner = driven.player
=============================================================================
