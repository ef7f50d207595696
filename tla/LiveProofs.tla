------------------------------ MODULE LiveProofs ------------------------------
(***************************************************************************)
(* The live play server: the inputs of a match, and the registry of its    *)
(* matches.                                                                *)
(*                                                                         *)
(* Inputs, for every number of slots, players, frames and assignments: the *)
(* wait of a tick misses no frame, the player of a slot is driven by newer *)
(* and newer frames, a command is executed at most once, and nothing       *)
(* latched outlives its assignment.  The registry is the second part.      *)
(***************************************************************************)
EXTENDS HumanInputs, LiveServer, FiniteSetTheorems, WellFoundedInduction, TLAPS

(* The session mutex: a tick has it from its first step to its last, an     *)
(* assignment until the slots it affects are cleared.                       *)
Locked ==
  /\ tick # "idle" <=> lock = "step"
  /\ clearing # {} => lock = "admin"
  /\ boxNext # None => boxNext \in clearing
  /\ tick = "drain" => actor # None

Waiting == tick \in {"look", "sleep", "more", "coalesce"}

(* What the tick has seen of the notifier is not from the future. *)
SeenIsPast == Waiting => seen <= version

(* The watermark of the queue never falls below what has driven the slot,   *)
(* and a slot being cleared has been driven by nothing.                     *)
Watermarks ==
  /\ \A s \in Slots : drivenSeq[s] <= queueSeq[s]
  /\ \A s \in Slots : queue[s] # None => queue[s].seq = queueSeq[s] /\ drivenSeq[s] < queueSeq[s]
  /\ \A s \in clearing : drivenSeq[s] = 0

Apart(f, g) == f # None /\ g # None => f.id # g.id

(* A frame on its way is in one place: accepted, or in the mailbox, the     *)
(* hand or the queue of one slot. *)
OnePlace ==
  /\ \A f, g \in http : f.id = g.id => f = g
  /\ \A f \in http, s \in Slots : Apart(f, box[s]) /\ Apart(f, hand[s]) /\ Apart(f, queue[s])
  /\ \A s, t \in Slots :
       s # t => Apart(box[s], box[t]) /\ Apart(hand[s], hand[t]) /\ Apart(queue[s], queue[t])
  /\ \A s, t \in Slots :
       Apart(box[s], hand[t]) /\ Apart(box[s], queue[t]) /\ Apart(hand[s], queue[t])

(* Frames are numbered in the order they are accepted. *)
Numbered ==
  /\ \A f \in http : f.id <= accepted
  /\ \A s \in Slots : \A f \in {box[s], hand[s], queue[s]} : f # None => f.id <= accepted

Gone(f, i) == f # None => f.id # i

(* A command that was executed is nowhere any more, and what is latched has *)
(* no command. *)
Spent ==
  /\ \A i \in 1..MaxFrames : commands[i] <= 1
  /\ \A i \in 1..MaxFrames : commands[i] # 0 =>
       /\ i <= accepted
       /\ \A f \in http : f.id # i
       /\ \A s \in Slots : Gone(box[s], i) /\ Gone(hand[s], i) /\ Gone(queue[s], i)
  /\ \A s \in Slots : latched[s] # None => ~latched[s].command

-----------------------------------------------------------------------------
(* What a frame is; the frame that is latched is the frame without its      *)
(* command. *)
LEMMA FrameFacts ==
  ASSUME NEW f \in Frames
  PROVE  /\ f # None /\ f.id \in 1..MaxFrames /\ f.slot \in Slots /\ f.seq \in 1..MaxSeq
         /\ f.command \in BOOLEAN
         /\ Motion(f) \in Frames /\ Motion(f).id = f.id /\ ~Motion(f).command
<1>1. None \notin Frames
  BY InputsAssumption
<1> QED
  BY <1>1 DEF Frames, Motion

(* Clearing slots moves the version on, if at all. *)
LEMMA ClearQueueFacts ==
  ASSUME TypeOK, NEW S \in SUBSET Slots, ClearQueue(S)
  PROVE  /\ version' \in Nat /\ version <= version'
         /\ slotVersion' \in [Slots -> Nat] /\ queue' \in [Slots -> MaybeFrame]
         /\ queueSeq' \in [Slots -> 0..MaxSeq]
         /\ old' \subseteq {s \in Slots : queue'[s] # None}
         /\ \A s \in Slots : queue'[s] # None => s \notin S /\ queue'[s] = queue[s]
         /\ \A s \in Slots \ S : queueSeq'[s] = queueSeq[s] /\ slotVersion'[s] = slotVersion[s]
         /\ \A s \in S : queueSeq'[s] = 0
<1> DEFINE cleared == {s \in S : queue[s] # None \/ queueSeq[s] > 0}
<1>1. cleared \in SUBSET Slots
  OBVIOUS
<1>2. Cardinality(cleared) \in Nat
  BY <1>1, InputsAssumption, FS_Subset, FS_CardinalityType
<1>3. version' = version + Cardinality(cleared)
      /\ slotVersion' = [s \in Slots |-> IF s \in cleared THEN version' ELSE slotVersion[s]]
  BY DEF ClearQueue
<1>4. version' \in Nat /\ version <= version'
  <2> HIDE DEF cleared
  <2> QED
    BY <1>2, <1>3 DEF TypeOK
<1>5. slotVersion' \in [Slots -> Nat]
      /\ \A s \in Slots \ S : slotVersion'[s] = slotVersion[s]
  BY <1>3, <1>4 DEF TypeOK
<1>6. queueSeq' \in [Slots -> 0..MaxSeq]
  BY InputsAssumption DEF ClearQueue, TypeOK, TypeOK
<1>7. /\ queue' \in [Slots -> MaybeFrame]
      /\ old' \subseteq {s \in Slots : queue'[s] # None}
      /\ \A s \in Slots : queue'[s] # None => s \notin S /\ queue'[s] = queue[s]
  <2>1. queue' = [s \in Slots |-> IF s \in S THEN None ELSE queue[s]] /\ old' = old \ S
    BY DEF ClearQueue
  <2>2. queue \in [Slots -> MaybeFrame] /\ old \subseteq {s \in Slots : queue[s] # None}
    BY DEF TypeOK
  <2> QED
    BY <2>1, <2>2 DEF MaybeFrame
<1>8. /\ \A s \in Slots \ S : queueSeq'[s] = queueSeq[s]
      /\ \A s \in S : queueSeq'[s] = 0
  BY DEF ClearQueue
<1> QED
  BY <1>4, <1>5, <1>6, <1>7, <1>8

-----------------------------------------------------------------------------
(* Type correctness *)

LEMMA TypeStep == ASSUME TypeOK, Locked, Next PROVE TypeOK'
<1> USE InputsAssumption DEF TypeOK, session, router, mailbox, shared, ticking, history, admin
<1>1. CASE Accept
  <2>1. PICK s \in Slots, p \in Players \union {None}, n \in 1..MaxSeq, m, c \in BOOLEAN :
          /\ Accepts(s, p)
          /\ http' = http \union
               {[id |-> accepted + 1, slot |-> s, player |-> p, seq |-> n,
                 moves |-> m, command |-> c, owner |-> routes[s]]}
    BY <1>1 DEF Accept
  <2>2. accepted' \in 0..MaxFrames /\ accepted + 1 \in 1..MaxFrames
    BY <1>1 DEF Accept
  <2>3. [id |-> accepted + 1, slot |-> s, player |-> p, seq |-> n,
         moves |-> m, command |-> c, owner |-> routes[s]] \in Frames
    BY <2>1, <2>2 DEF Accepts, Frames
  <2> QED
    BY <1>1, <2>1, <2>2, <2>3, ZenonT(60) DEF Accept
<1>2. ASSUME NEW f \in http, Dispatch(f) PROVE TypeOK'
  <2>1. f \in Frames /\ f.slot \in Slots /\ f.seq \in 0..MaxSeq
    BY <1>2, FrameFacts
  <2>2. box' \in [Slots -> MaybeFrame] /\ boxSeq' \in [Slots -> 0..MaxSeq]
    <3>1. \/ box' = [box EXCEPT ![f.slot] = f] /\ boxSeq' = [boxSeq EXCEPT ![f.slot] = f.seq]
          \/ box' = box /\ boxSeq' = boxSeq
      BY <1>2 DEF Dispatch
    <3>2. box \in [Slots -> MaybeFrame] /\ boxSeq \in [Slots -> 0..MaxSeq] /\ f \in MaybeFrame
      BY <2>1 DEF MaybeFrame
    <3> QED
      BY ONLY <2>1, <3>1, <3>2
  <2> QED
    BY <1>2, <2>2 DEF Dispatch, MaybeFrame
<1>3. ASSUME NEW s \in Slots, TakeFrame(s) PROVE TypeOK'
  BY <1>3 DEF TakeFrame, MaybeFrame
<1>4. ASSUME NEW s \in Slots, Push(s) PROVE TypeOK'
  <2>1. hand[s] \in Frames /\ hand[s].seq \in 0..MaxSeq
    BY <1>4, FrameFacts DEF Push, MaybeFrame
  <2>2. hand' \in [Slots -> MaybeFrame] /\ queue' \in [Slots -> MaybeFrame]
    BY <1>4, <2>1 DEF Push, MaybeFrame
  <2>3. queueSeq' \in [Slots -> 0..MaxSeq] /\ notifying' \subseteq Slots
    BY <1>4, <2>1, ZenonT(60) DEF Push
  <2>4. old' \subseteq {t \in Slots : queue'[t] # None}
    BY <1>4 DEF Push
  <2> QED
    BY <1>4, <2>2, <2>3, <2>4 DEF Push, MaybeFrame
<1>5. ASSUME NEW s \in Slots, Notify(s) \/ Expire(s) PROVE TypeOK'
  <2>1. CASE Notify(s)
    <3>1. version' \in Nat /\ slotVersion' \in [Slots -> Nat] /\ notifying' \subseteq Slots
      BY <2>1 DEF Notify
    <3> QED
      BY <2>1, <3>1 DEF Notify
  <2>2. CASE Expire(s)
    BY <2>2 DEF Expire
  <2> QED
    BY <1>5, <2>1, <2>2
<1>6. CASE StepBegin \/ ReadVersion \/ Wake \/ StepEnd
  BY <1>6, ZenonT(30) DEF StepBegin, ReadVersion, Wake, StepEnd, Controlled
<1>7. CASE Look \/ LookAgain \/ Timeout
  BY <1>7 DEF Look, LookAgain, Timeout, Prune, AfterWait, MaybeFrame
<1>8. ASSUME NEW p \in Players, Turn(p) PROVE TypeOK'
  BY <1>8 DEF Turn, SlotsOf
<1>9. ASSUME NEW s \in Slots, Drain(s) PROVE TypeOK'
  <2>1. latched' \in [Slots -> MaybeFrame] /\ drivenSeq' \in [Slots -> 0..MaxSeq]
    <3>1. CASE DrainFresh(s)
      <4>1. queue[s] \in Frames
        BY <3>1 DEF DrainFresh, MaybeFrame
      <4> QED
        BY <3>1, <4>1, FrameFacts DEF DrainFresh, Latch, MaybeFrame
    <3>2. CASE FollowLatched(s)
      BY <3>2 DEF FollowLatched
    <3> QED
      BY <1>9, <3>1, <3>2 DEF Drain
  <2>2. commands' \in [1..MaxFrames -> Nat]
    <3>1. ASSUME NEW f \in MaybeFrame, Drives(f, actor) PROVE commands' \in [1..MaxFrames -> Nat]
      <4>1. CASE f = None
        BY <3>1, <4>1 DEF Drives
      <4>2. CASE f # None
        <5>1. f.id \in 1..MaxFrames
          BY <4>2, FrameFacts DEF MaybeFrame
        <5>2. PICK k \in {0, 1} : \/ commands' = [commands EXCEPT ![f.id] = @ + k]
                                 \/ commands' = commands
          BY <3>1 DEF Drives
        <5>3. commands \in [1..MaxFrames -> Nat]
          OBVIOUS
        <5> QED
          BY ONLY <5>1, <5>2, <5>3
      <4> QED
        BY <4>1, <4>2
    <3> QED
      BY <1>9, <3>1 DEF Drain, DrainFresh, FollowLatched
  <2>3. queue' \in [Slots -> MaybeFrame] /\ old' \subseteq {t \in Slots : queue'[t] # None}
    BY <1>9 DEF Drain, MaybeFrame
  <2> QED
    BY <1>9, <2>1, <2>2, <2>3 DEF Drain, MaybeFrame
<1>10. ASSUME NEW s \in Slots, NEW p \in Players \union {None}, Assign(s, p) PROVE TypeOK'
  <2>1. Affected(s, p) \in SUBSET Slots
    BY DEF Affected
  <2>2. /\ version' \in Nat /\ slotVersion' \in [Slots -> Nat]
        /\ queue' \in [Slots -> MaybeFrame] /\ queueSeq' \in [Slots -> 0..MaxSeq]
        /\ old' \subseteq {t \in Slots : queue'[t] # None}
    BY <1>10, <2>1, ClearQueueFacts DEF Assign
  <2>3. assigned' \in [Slots -> Players \union {None}]
    BY <1>10 DEF Assign, Without
  <2>4. latched' \in [Slots -> MaybeFrame] /\ drivenSeq' \in [Slots -> 0..MaxSeq]
    BY <1>10 DEF Assign, MaybeFrame
  <2>5. /\ lock' = "admin" /\ admins' \in 0..MaxAdmin /\ clearing' \subseteq Slots
        /\ UNCHANGED <<router, mailbox, hand, ticking, driven, commands, boxNext, notifying>>
    BY <1>10, <2>1 DEF Assign, ClearQueue
  <2> QED
    BY <2>2, <2>3, <2>4, <2>5 DEF MaybeFrame
<1>11. ASSUME NEW keep \in BOOLEAN, Reset(keep) PROVE TypeOK'
  <2>1. /\ version' \in Nat /\ slotVersion' \in [Slots -> Nat]
        /\ queue' \in [Slots -> MaybeFrame] /\ queueSeq' \in [Slots -> 0..MaxSeq]
        /\ old' \subseteq {t \in Slots : queue'[t] # None}
    BY <1>11, ClearQueueFacts DEF Reset
  <2> QED
    BY <1>11, <2>1 DEF Reset, ClearQueue, Nothing, Zero, MaybeFrame
<1>12. ASSUME NEW s \in Slots, ClearPendingQueue(s) PROVE TypeOK'
  <2>1. /\ version' \in Nat /\ slotVersion' \in [Slots -> Nat]
        /\ queue' \in [Slots -> MaybeFrame] /\ queueSeq' \in [Slots -> 0..MaxSeq]
        /\ old' \subseteq {t \in Slots : queue'[t] # None}
    BY <1>12, ClearQueueFacts, ZenonT(60) DEF ClearPendingQueue
  <2> QED
    BY <1>12, <2>1 DEF ClearPendingQueue, ClearQueue, MaybeFrame
<1>13. ASSUME NEW s \in Slots, ClearPendingBox(s) PROVE TypeOK'
  BY <1>13, SMTT(30) DEF ClearPendingBox, MaybeFrame
<1>14. CASE AdminEnd
  BY <1>14 DEF AdminEnd
<1> QED
  BY <1>1, <1>2, <1>3, <1>4, <1>5, <1>6, <1>7, <1>8, <1>9, <1>10, <1>11, <1>12, <1>13, <1>14
  DEF Next, Controller, Step, Admin
-----------------------------------------------------------------------------
(* The session mutex *)

LEMMA LockStep == ASSUME TypeOK, Locked, Next PROVE Locked'
<1> USE InputsAssumption DEF TypeOK, Locked, session, router, mailbox, shared, ticking, history, admin
<1>1. CASE Accept
  BY <1>1 DEF Accept
<1>2. ASSUME NEW f \in http, Dispatch(f) PROVE Locked'
  BY <1>2 DEF Dispatch
<1>3. ASSUME NEW s \in Slots, Controller(s) \/ Expire(s) PROVE Locked'
  BY <1>3 DEF Controller, TakeFrame, Push, Notify, Expire
<1>4. CASE StepBegin \/ ReadVersion \/ Wake \/ StepEnd
  BY <1>4 DEF StepBegin, ReadVersion, Wake, StepEnd
<1>5. CASE Look \/ LookAgain \/ Timeout
  BY <1>5 DEF Look, LookAgain, Timeout, AfterWait
<1>6. ASSUME NEW p \in Players, Turn(p) PROVE Locked'
  BY <1>6 DEF Turn
<1>7. ASSUME NEW s \in Slots, Drain(s) PROVE Locked'
  BY <1>7 DEF Drain
<1>8. ASSUME NEW s \in Slots, NEW p \in Players \union {None}, Assign(s, p) PROVE Locked'
  BY <1>8 DEF Assign
<1>9. ASSUME NEW keep \in BOOLEAN, Reset(keep) PROVE Locked'
  BY <1>9 DEF Reset
<1>10. ASSUME NEW s \in Slots, ClearPendingQueue(s) \/ ClearPendingBox(s) PROVE Locked'
  BY <1>10 DEF ClearPendingQueue, ClearPendingBox
<1>11. CASE AdminEnd
  BY <1>11 DEF AdminEnd
<1> QED
  BY <1>1, <1>2, <1>3, <1>4, <1>5, <1>6, <1>7, <1>8, <1>9, <1>10, <1>11 DEF Next, Step, Admin

-----------------------------------------------------------------------------
(* The wait of a tick *)

(* The tick goes to sleep only when it has seen that nothing is there, a    *)
(* frame that is pushed then is announced, and the announcement is newer    *)
(* than what the tick has seen. *)
LEMMA WakeStep ==
  ASSUME TypeOK, TypeOK', Locked, SeenIsPast, NoLostWakeup, Next
  PROVE  SeenIsPast' /\ NoLostWakeup'
<1> USE InputsAssumption DEF TypeOK, SeenIsPast, NoLostWakeup, Fresh, Waiting, session, router,
                             mailbox, shared, ticking, history, admin
<1>1. CASE Accept
  BY <1>1 DEF Accept
<1>2. ASSUME NEW f \in http, Dispatch(f) PROVE SeenIsPast' /\ NoLostWakeup'
  BY <1>2 DEF Dispatch
<1>3. ASSUME NEW s \in Slots, TakeFrame(s) PROVE SeenIsPast' /\ NoLostWakeup'
  BY <1>3 DEF TakeFrame
<1>4. ASSUME NEW s \in Slots, Push(s) PROVE SeenIsPast' /\ NoLostWakeup'
  BY <1>4 DEF Push
<1>5. ASSUME NEW s \in Slots, Notify(s) PROVE SeenIsPast' /\ NoLostWakeup'
  BY <1>5 DEF Notify
<1>6. ASSUME NEW s \in Slots, Expire(s) PROVE SeenIsPast' /\ NoLostWakeup'
  BY <1>6 DEF Expire
<1>7. CASE StepBegin
  BY <1>7 DEF StepBegin
<1>8. CASE ReadVersion
  BY <1>8 DEF ReadVersion
<1>9. CASE Wake
  BY <1>9 DEF Wake
<1>10. CASE StepEnd
  BY <1>10 DEF StepEnd
<1>11. CASE Look
  BY <1>11 DEF Look, Prune, AfterWait
<1>12. CASE LookAgain
  BY <1>12 DEF LookAgain, Prune, AfterWait
<1>13. CASE Timeout
  BY <1>13 DEF Timeout, Prune, AfterWait
<1>14. ASSUME NEW p \in Players, Turn(p) PROVE SeenIsPast' /\ NoLostWakeup'
  BY <1>14 DEF Turn
<1>15. ASSUME NEW s \in Slots, Drain(s) PROVE SeenIsPast' /\ NoLostWakeup'
  BY <1>15 DEF Drain
<1>16. CASE Admin
  <2>1. UNCHANGED ticking
    BY <1>16 DEF Admin, Assign, Reset, ClearPendingQueue, ClearPendingBox, AdminEnd
  <2>2. lock \in {None, "admin"}
    <3>1. ASSUME NEW s \in Slots, ClearPendingQueue(s) \/ ClearPendingBox(s) PROVE lock = "admin"
      <4>1. s # None
        OBVIOUS
      <4> QED
        BY <3>1, <4>1 DEF ClearPendingQueue, ClearPendingBox, Locked
    <3> QED
      BY <1>16, <3>1 DEF Admin, Assign, Reset, AdminEnd
  <2>3. tick' = "idle"
    BY <2>1, <2>2 DEF Locked
  <2> QED
    BY <2>3
<1> QED
  BY <1>1, <1>2, <1>3, <1>4, <1>5, <1>6, <1>7, <1>8, <1>9, <1>10, <1>11, <1>12, <1>13, <1>14,
     <1>15, <1>16
  DEF Next, Controller, Step

-----------------------------------------------------------------------------
(* The order of frames *)

LEMMA OrderStep ==
  ASSUME TypeOK, TypeOK', Locked, Watermarks, Next
  PROVE  Watermarks'
<1> USE InputsAssumption DEF TypeOK, Watermarks, session, router, mailbox, shared, ticking, history, admin
<1>1. CASE Accept
  BY <1>1 DEF Accept
<1>2. ASSUME NEW f \in http, Dispatch(f) PROVE Watermarks'
  BY <1>2 DEF Dispatch
<1>3. ASSUME NEW s \in Slots, TakeFrame(s) PROVE Watermarks'
  BY <1>3 DEF TakeFrame
<1>4. ASSUME NEW s \in Slots, Push(s) PROVE Watermarks'
  <2>1. \A t \in Slots : queueSeq[t] \in Nat /\ drivenSeq[t] \in Nat
    OBVIOUS
  <2>2. hand[s].seq \in Nat
    BY <1>4, FrameFacts DEF Push, MaybeFrame
  <2> HIDE DEF TypeOK
  <2>3. /\ \A t \in Slots \ {s} : queue'[t] = queue[t] /\ queueSeq'[t] = queueSeq[t]
        /\ \/ queue'[s] = queue[s] /\ queueSeq'[s] = queueSeq[s]
           \/ hand[s].seq > queueSeq[s] /\ queue'[s] = hand[s] /\ queueSeq'[s] = hand[s].seq
        /\ UNCHANGED <<drivenSeq, clearing>>
    BY <1>4, SMTT(30) DEF Push, TypeOK
  <2> QED
    BY <2>1, <2>2, <2>3
<1>5. ASSUME NEW s \in Slots, Notify(s) \/ Expire(s) PROVE Watermarks'
  BY <1>5 DEF Notify, Expire
<1>6. CASE StepBegin \/ ReadVersion \/ Wake \/ StepEnd
  BY <1>6 DEF StepBegin, ReadVersion, Wake, StepEnd
<1>7. CASE Look \/ LookAgain \/ Timeout
  BY <1>7 DEF Look, LookAgain, Timeout, Prune
<1>8. ASSUME NEW p \in Players, Turn(p) PROVE Watermarks'
  BY <1>8 DEF Turn
<1>9. ASSUME NEW s \in Slots, Drain(s) PROVE Watermarks'
  <2>1. clearing' = {}
    BY <1>9 DEF Drain, Locked
  <2>2. CASE DrainFresh(s)
    BY <1>9, <2>1, <2>2 DEF Drain, DrainFresh
  <2>3. CASE FollowLatched(s)
    BY <1>9, <2>1, <2>3 DEF Drain, FollowLatched
  <2> QED
    BY <1>9, <2>2, <2>3 DEF Drain
<1>10. ASSUME NEW s \in Slots, NEW p \in Players \union {None}, Assign(s, p) PROVE Watermarks'
  <2>1. Affected(s, p) \in SUBSET Slots
    BY DEF Affected
  <2>2. /\ \A t \in Slots : queue'[t] # None => t \notin Affected(s, p) /\ queue'[t] = queue[t]
        /\ \A t \in Slots \ Affected(s, p) : queueSeq'[t] = queueSeq[t]
        /\ \A t \in Affected(s, p) : queueSeq'[t] = 0
    BY <1>10, <2>1, ClearQueueFacts DEF Assign
  <2>3. /\ \A t \in Slots \ Affected(s, p) : drivenSeq'[t] = drivenSeq[t]
        /\ \A t \in Affected(s, p) : drivenSeq'[t] = 0
        /\ clearing' = Affected(s, p)
    BY <1>10, <2>1 DEF Assign
  <2> HIDE DEF TypeOK
  <2> QED
    BY <2>1, <2>2, <2>3
<1>11. ASSUME NEW keep \in BOOLEAN, Reset(keep) PROVE Watermarks'
  BY <1>11 DEF Reset, ClearQueue, Zero
<1>12. ASSUME NEW s \in Slots, ClearPendingQueue(s) PROVE Watermarks'
  <2>1. /\ \A t \in Slots : queue'[t] # None => t \notin {s} /\ queue'[t] = queue[t]
        /\ \A t \in Slots \ {s} : queueSeq'[t] = queueSeq[t]
        /\ \A t \in {s} : queueSeq'[t] = 0
    BY <1>12, {s} \in SUBSET Slots, ClearQueueFacts DEF ClearPendingQueue
  <2>2. UNCHANGED <<drivenSeq, clearing>> /\ drivenSeq[s] = 0
    BY <1>12 DEF ClearPendingQueue
  <2> HIDE DEF TypeOK
  <2> QED
    BY <2>1, <2>2
<1>13. ASSUME NEW s \in Slots, ClearPendingBox(s) PROVE Watermarks'
  BY <1>13 DEF ClearPendingBox
<1>14. CASE AdminEnd
  BY <1>14 DEF AdminEnd
<1> QED
  BY <1>1, <1>2, <1>3, <1>4, <1>5, <1>6, <1>7, <1>8, <1>9, <1>10, <1>11, <1>12, <1>13, <1>14
  DEF Next, Controller, Step, Admin
-----------------------------------------------------------------------------
(* A command is executed once *)

LEMMA OnceStep ==
  ASSUME TypeOK, TypeOK', Locked, OnePlace, Numbered, Spent, Next
  PROVE  OnePlace' /\ Numbered' /\ Spent'
<1> DEFINE Goal == OnePlace' /\ Numbered' /\ Spent'
<1> USE DEF session, router, mailbox, shared, ticking, history, admin
<1>1. CASE Accept
  <2>1. PICK f \in Frames : f.id = accepted + 1 /\ http' = http \union {f}
    <3>1. PICK s \in Slots, p \in Players \union {None}, n \in 1..MaxSeq, m, c \in BOOLEAN :
            /\ Accepts(s, p)
            /\ http' = http \union
                 {[id |-> accepted + 1, slot |-> s, player |-> p, seq |-> n,
                   moves |-> m, command |-> c, owner |-> routes[s]]}
      BY <1>1 DEF Accept
    <3>2. accepted + 1 \in 1..MaxFrames
      BY <1>1, InputsAssumption DEF Accept, TypeOK
    <3>3. [id |-> accepted + 1, slot |-> s, player |-> p, seq |-> n,
           moves |-> m, command |-> c, owner |-> routes[s]] \in Frames
      BY <3>1, <3>2 DEF Accepts, Frames, TypeOK
    <3> QED
      BY <3>1, <3>3
  <2>2. /\ accepted' = accepted + 1 /\ accepted \in Nat
        /\ UNCHANGED <<box, hand, queue, commands, latched>>
    BY <1>1, InputsAssumption DEF Accept, TypeOK
  <2>3. /\ \A g \in http : g.id \in Nat
        /\ \A s \in Slots : \A g \in {box[s], hand[s], queue[s]} : g # None => g.id \in Nat
    <3>1. \A g \in Frames : g.id \in Nat
      BY FrameFacts, InputsAssumption
    <3> QED
      BY <3>1 DEF TypeOK, MaybeFrame
  <2>4. OnePlace'
    BY <2>1, <2>2, <2>3 DEF OnePlace, Numbered, Apart
  <2>5. Numbered'
    BY <2>1, <2>2, <2>3 DEF Numbered
  <2>6. Spent'
    BY <2>1, <2>2, <2>3 DEF Spent
  <2> QED
    BY <2>4, <2>5, <2>6
<1>2. ASSUME NEW f \in http, Dispatch(f) PROVE Goal
  <2>1. f \in Frames /\ f.slot \in Slots /\ f # None
    BY FrameFacts DEF TypeOK
  <2>2. /\ http' = http \ {f}
        /\ \A s \in Slots : box'[s] = box[s] \/ (s = f.slot /\ box'[s] = f)
        /\ UNCHANGED <<accepted, hand, queue, commands, latched>>
    BY <1>2, <2>1, ZenonT(30) DEF Dispatch, TypeOK
  <2>3. OnePlace'
    BY <2>1, <2>2 DEF OnePlace, Apart
  <2>4. Numbered'
    BY <2>1, <2>2 DEF Numbered
  <2>5. Spent'
    BY <2>1, <2>2 DEF Spent, Gone
  <2> QED
    BY <2>3, <2>4, <2>5
<1>3. ASSUME NEW s \in Slots, TakeFrame(s) PROVE Goal
  <2>1. /\ hand[s] = None /\ hand'[s] = box[s] /\ box'[s] = None
        /\ \A t \in Slots \ {s} : hand'[t] = hand[t] /\ box'[t] = box[t]
        /\ UNCHANGED <<accepted, http, queue, commands, latched>>
    BY <1>3 DEF TakeFrame, TypeOK
  <2>2. OnePlace'
    BY <2>1 DEF OnePlace, Apart
  <2>3. Numbered' /\ Spent'
    BY <2>1 DEF Numbered, Spent, Gone
  <2> QED
    BY <2>2, <2>3
<1>4. ASSUME NEW s \in Slots, Push(s) PROVE Goal
  <2>1. /\ hand'[s] = None /\ queue'[s] \in {hand[s], queue[s]}
        /\ \A t \in Slots \ {s} : hand'[t] = hand[t] /\ queue'[t] = queue[t]
        /\ UNCHANGED <<accepted, http, box, commands, latched>>
    BY <1>4 DEF Push, TypeOK
  <2>2. OnePlace'
    BY <2>1 DEF OnePlace, Apart
  <2>3. Numbered' /\ Spent'
    BY <2>1 DEF Numbered, Spent, Gone
  <2> QED
    BY <2>2, <2>3
<1>5. ASSUME UNCHANGED <<accepted, http, box, hand, queue, commands, latched>> PROVE Goal
  BY <1>5 DEF OnePlace, Numbered, Spent, Apart, Gone
(* Slots lose what they hold. *)
<1>6. ASSUME UNCHANGED <<accepted, http, hand, commands>>,
             \A s \in Slots : /\ queue'[s] \in {queue[s], None} /\ box'[s] \in {box[s], None}
                             /\ latched'[s] \in {latched[s], None}
      PROVE  Goal
  <2>1. OnePlace'
    BY <1>6 DEF OnePlace, Apart
  <2>2. Numbered' /\ Spent'
    BY <1>6 DEF Numbered, Spent, Gone
  <2> QED
    BY <2>1, <2>2
<1>7. ASSUME NEW s \in Slots, Notify(s) \/ Expire(s) PROVE Goal
  BY <1>7, <1>5 DEF Notify, Expire
<1>8. CASE StepBegin \/ ReadVersion \/ Wake \/ StepEnd
  BY <1>8, <1>5 DEF StepBegin, ReadVersion, Wake, StepEnd
<1>9. CASE Look \/ LookAgain \/ Timeout
  BY <1>9, <1>6 DEF Look, LookAgain, Timeout, Prune
<1>10. ASSUME NEW p \in Players, Turn(p) PROVE Goal
  BY <1>10, <1>5 DEF Turn
<1>11. ASSUME NEW s \in Slots, Drain(s) PROVE Goal
  <2>1. /\ queue'[s] = None /\ \A t \in Slots \ {s} : queue'[t] = queue[t]
        /\ UNCHANGED <<accepted, http, box, hand>>
    BY <1>11 DEF Drain, TypeOK
  <2>2. OnePlace' /\ Numbered'
    BY <2>1 DEF OnePlace, Numbered, Apart
  <2>3. CASE FollowLatched(s)
    <3>1. latched[s] # None => latched[s] \in Frames /\ ~latched[s].command
      BY DEF TypeOK, MaybeFrame, Spent
    <3>2. UNCHANGED <<commands, latched>>
      <4>1. CASE latched[s] = None
        BY <2>3, <4>1 DEF FollowLatched, Drives
      <4>2. CASE latched[s] # None
        <5>1. latched[s].id \in 1..MaxFrames /\ commands \in [1..MaxFrames -> Nat]
          BY <3>1, <4>2, FrameFacts DEF TypeOK
        <5>2. \/ commands' = [commands EXCEPT ![latched[s].id] = @ + 0]
              \/ commands' = commands
          BY <2>3, <3>1, <4>2 DEF FollowLatched, Drives
        <5>3. commands' = commands
          <6>1. commands[latched[s].id] + 0 = commands[latched[s].id]
            BY ONLY <5>1
          <6> QED
            BY ONLY <5>1, <5>2, <6>1
        <5> QED
          BY <2>3, <5>3 DEF FollowLatched
      <4> QED
        BY <4>1, <4>2
    <3> QED
      BY <2>1, <2>2, <3>2 DEF Spent, Gone
  <2>4. CASE DrainFresh(s)
    <3> DEFINE f == queue[s]
    <3>1. f \in Frames /\ f # None /\ f.id \in 1..MaxFrames /\ f.id <= accepted
      BY <2>4, FrameFacts DEF DrainFresh, TypeOK, MaybeFrame, Numbered
    <3>2. commands[f.id] = 0
      BY <3>1 DEF Spent, Gone, TypeOK
    <3>3. /\ commands'[f.id] \in {0, 1}
          /\ \A i \in 1..MaxFrames \ {f.id} : commands'[i] = commands[i]
      <4>1. \/ \E k \in {0, 1} : commands' = [commands EXCEPT ![f.id] = @ + k]
            \/ commands' = commands
        BY <2>4 DEF DrainFresh, Drives
      <4>2. commands \in [1..MaxFrames -> Nat]
        BY DEF TypeOK
      <4> HIDE DEF f
      <4>3. CASE commands' = commands
        BY <3>2, <4>3
      <4>4. ASSUME NEW k \in {0, 1}, commands' = [commands EXCEPT ![f.id] = @ + k]
            PROVE  /\ commands'[f.id] \in {0, 1}
                   /\ \A i \in 1..MaxFrames \ {f.id} : commands'[i] = commands[i]
        BY <3>1, <3>2, <4>2, <4>4
      <4> QED
        BY <4>1, <4>3, <4>4
    <3>4. \A t \in Slots : latched'[t] # None => ~latched'[t].command
      <4>1. \A t \in Slots \ {s} : latched'[t] = latched[t]
        BY <2>4 DEF DrainFresh, Latch, TypeOK
      <4>2. latched'[s] = None \/ latched'[s] = Motion(f)
        BY <2>4 DEF DrainFresh, Latch, TypeOK
      <4> QED
        BY <3>1, <4>1, <4>2, FrameFacts DEF Spent
    <3>5. /\ \A g \in http : g.id # f.id
          /\ \A t \in Slots : Gone(box[t], f.id) /\ Gone(hand[t], f.id) /\ Gone(queue'[t], f.id)
      <4>1. \A g \in http : g # None
        BY FrameFacts DEF TypeOK
      <4> QED
        BY <2>1, <3>1, <4>1 DEF OnePlace, Apart, Gone
    <3> HIDE DEF f
    <3>6. \A i \in 1..MaxFrames : commands'[i] <= 1
      BY <3>3 DEF Spent
    <3>7. \A i \in 1..MaxFrames : commands'[i] # 0 =>
            /\ i <= accepted
            /\ \A g \in http : g.id # i
            /\ \A t \in Slots : Gone(box[t], i) /\ Gone(hand[t], i) /\ Gone(queue'[t], i)
      <4> SUFFICES ASSUME NEW i \in 1..MaxFrames, commands'[i] # 0
                   PROVE  /\ i <= accepted
                          /\ \A g \in http : g.id # i
                          /\ \A t \in Slots : Gone(box[t], i) /\ Gone(hand[t], i) /\ Gone(queue'[t], i)
        OBVIOUS
      <4>1. CASE i = f.id
        BY <3>1, <3>5, <4>1
      <4>2. CASE i # f.id
        BY <2>1, <3>3, <4>2 DEF Spent, Gone
      <4> QED
        BY <4>1, <4>2
    <3> QED
      BY <2>1, <2>2, <3>4, <3>6, <3>7 DEF Spent
  <2> QED
    BY <1>11, <2>3, <2>4 DEF Drain
<1>12. ASSUME NEW s \in Slots, NEW p \in Players \union {None}, Assign(s, p) PROVE Goal
  BY <1>12, <1>6 DEF Assign, ClearQueue
<1>13. ASSUME NEW keep \in BOOLEAN, Reset(keep) PROVE Goal
  BY <1>13, <1>6 DEF Reset, ClearQueue, Nothing
<1>14. ASSUME NEW s \in Slots, ClearPendingQueue(s) PROVE Goal
  BY <1>14, <1>6 DEF ClearPendingQueue, ClearQueue
<1>15. ASSUME NEW s \in Slots, ClearPendingBox(s) PROVE Goal
  <2>1. box \in [Slots -> MaybeFrame]
    BY DEF TypeOK
  <2> QED
    BY <1>15, <1>6, <2>1 DEF ClearPendingBox
<1>16. CASE AdminEnd
  BY <1>16, <1>5 DEF AdminEnd
<1> QED
  BY <1>1, <1>2, <1>3, <1>4, <1>7, <1>8, <1>9, <1>10, <1>11, <1>12, <1>13, <1>14, <1>15, <1>16
  DEF Next, Controller, Step, Admin

-----------------------------------------------------------------------------
(* What is latched *)

LEMMA LatchStep ==
  ASSUME TypeOK, Locked, LatchFollowsAssignment, Next
  PROVE  LatchFollowsAssignment'
<1> USE InputsAssumption DEF LatchFollowsAssignment, session, router, mailbox, shared, ticking,
                             history, admin
<1>1. ASSUME UNCHANGED session, UNCHANGED drivenSeq PROVE LatchFollowsAssignment'
  BY <1>1
<1>2. CASE Accept \/ (\E f \in http : Dispatch(f))
  BY <1>1, <1>2 DEF Accept, Dispatch
<1>3. ASSUME NEW s \in Slots, Controller(s) \/ Expire(s) PROVE LatchFollowsAssignment'
  BY <1>1, <1>3 DEF Controller, TakeFrame, Push, Notify, Expire
<1>4. ASSUME Step, \A s \in Slots : ~Drain(s) PROVE LatchFollowsAssignment'
  BY <1>1, <1>4 DEF Step, StepBegin, ReadVersion, Look, Wake, LookAgain, Timeout, Turn, StepEnd
<1>5. ASSUME NEW s \in Slots, Drain(s) PROVE LatchFollowsAssignment'
  <2>1. assigned[s] # None /\ assigned' = assigned
    BY <1>5 DEF Drain, SlotsOf, Locked
  <2>2. \A t \in Slots \ {s} : latched'[t] = latched[t] /\ drivenSeq'[t] = drivenSeq[t]
    BY <1>5 DEF Drain, DrainFresh, FollowLatched, Latch, TypeOK
  <2>3. latched'[s] # None => latched'[s].seq = drivenSeq'[s]
    <3>1. CASE DrainFresh(s)
      <4>1. PICK f \in Frames : f = queue[s]
        BY <3>1 DEF DrainFresh, TypeOK, MaybeFrame
      <4>2. drivenSeq'[s] = f.seq
        BY <3>1, <4>1 DEF DrainFresh, TypeOK
      <4>3. latched'[s] = None \/ latched'[s] = Motion(f)
        BY <3>1, <4>1 DEF DrainFresh, Latch, TypeOK
      <4>4. Motion(f).seq = f.seq
        BY DEF Motion, Frames
      <4> QED
        BY <4>2, <4>3, <4>4
    <3>2. CASE FollowLatched(s)
      BY <3>2 DEF FollowLatched
    <3> QED
      BY <1>5, <3>1, <3>2 DEF Drain
  <2> QED
    BY <2>1, <2>2, <2>3
<1>6. ASSUME NEW s \in Slots, NEW p \in Players \union {None}, Assign(s, p)
      PROVE  LatchFollowsAssignment'
  <2>1. /\ assigned'[s] = p
        /\ \A t \in Slots \ {s} :
             assigned'[t] = IF p # None /\ assigned[t] = p THEN None ELSE assigned[t]
    BY <1>6 DEF Assign, Without, TypeOK
  <2>2. \A t \in Slots : /\ latched'[t] = IF t \in Affected(s, p) THEN None ELSE latched[t]
                         /\ t \notin Affected(s, p) => drivenSeq'[t] = drivenSeq[t]
    BY <1>6 DEF Assign
  <2> QED
    BY <2>1, <2>2 DEF Affected
<1>7. ASSUME NEW keep \in BOOLEAN, Reset(keep) PROVE LatchFollowsAssignment'
  BY <1>7 DEF Reset, Nothing
<1>8. ASSUME NEW s \in Slots, ClearPendingQueue(s) \/ ClearPendingBox(s)
      PROVE  LatchFollowsAssignment'
  BY <1>1, <1>8 DEF ClearPendingQueue, ClearPendingBox
<1>9. CASE AdminEnd
  BY <1>1, <1>9 DEF AdminEnd
<1> QED
  BY <1>2, <1>3, <1>4, <1>5, <1>6, <1>7, <1>8, <1>9 DEF Next, Step, Admin
-----------------------------------------------------------------------------
(* Theorems *)

IInv ==
  /\ TypeOK /\ Locked /\ SeenIsPast /\ NoLostWakeup /\ Watermarks
  /\ OnePlace /\ Numbered /\ Spent /\ LatchFollowsAssignment

LEMMA InitInv == Init => IInv
<1> SUFFICES ASSUME Init PROVE IInv
  OBVIOUS
<1> USE InputsAssumption DEF Init, Nothing, Zero
<1>1. TypeOK
  BY DEF TypeOK, MaybeFrame
<1>2. Locked /\ SeenIsPast /\ NoLostWakeup /\ Watermarks /\ LatchFollowsAssignment
  BY DEF Locked, SeenIsPast, Waiting, NoLostWakeup, Watermarks, LatchFollowsAssignment
<1>3. OnePlace /\ Numbered /\ Spent
  BY DEF OnePlace, Apart, Numbered, Spent
<1> QED
  BY <1>1, <1>2, <1>3 DEF IInv

LEMMA StutterInv == IInv /\ UNCHANGED vars => IInv'
<1> SUFFICES ASSUME IInv, UNCHANGED vars PROVE IInv'
  OBVIOUS
<1> USE DEF vars, session, router, mailbox, shared, ticking, history, admin, IInv
<1>1. TypeOK'
  BY DEF TypeOK
<1>2. Locked' /\ SeenIsPast' /\ NoLostWakeup' /\ Watermarks' /\ LatchFollowsAssignment'
  BY DEF Locked, SeenIsPast, Waiting, NoLostWakeup, Fresh, Watermarks, LatchFollowsAssignment
<1>3. OnePlace' /\ Numbered' /\ Spent'
  BY DEF OnePlace, Apart, Numbered, Spent, Gone
<1> QED
  BY <1>1, <1>2, <1>3

LEMMA Invariance == Spec => []IInv
<1>1. IInv /\ Next => IInv'
  <2> SUFFICES ASSUME IInv, Next PROVE IInv'
    OBVIOUS
  <2>1. TypeOK'
    BY TypeStep DEF IInv
  <2> QED
    BY <2>1, LockStep, WakeStep, OrderStep, OnceStep, LatchStep DEF IInv
<1>2. IInv /\ [Next]_vars => IInv'
  BY <1>1, StutterInv
<1> QED
  BY <1>2, InitInv, PTL DEF Spec

(* Every variable stays in its range: the watermarks never leave the        *)
(* sequence numbers, and only what is queued can be old. *)
THEOREM InputsTypeCorrect == Spec => []TypeOK
<1>1. IInv => TypeOK
  BY DEF IInv
<1> QED
  BY <1>1, Invariance, PTL

(* The wait of a tick misses no frame, however the push, its notification,  *)
(* the expiry of frames and other slots interleave with it. *)
THEOREM WakeupNotLost == Spec => []NoLostWakeup
<1>1. IInv => NoLostWakeup
  BY DEF IInv
<1> QED
  BY <1>1, Invariance, PTL

(* What waits in the queue of a slot is newer than all that has driven its  *)
(* player since the slot was assigned. *)
THEOREM InputsNeverGoBack == Spec => []InputsInOrder
<1>1. IInv => InputsInOrder
  BY DEF IInv, Watermarks, InputsInOrder
<1> QED
  BY <1>1, Invariance, PTL

(* However often its movement is replayed, the command of a frame is        *)
(* executed at most once. *)
THEOREM CommandOnce == Spec => []CommandAtMostOnce
<1>1. IInv => CommandAtMostOnce
  BY DEF IInv, Spent, TypeOK, CommandAtMostOnce
<1> QED
  BY <1>1, Invariance, PTL

(* A player has one slot, and what is latched for it is the movement of the *)
(* last frame a tick took since the player got the slot.                    *)
THEOREM LatchAssigned == Spec => []LatchFollowsAssignment
<1>1. IInv => LatchFollowsAssignment
  BY DEF IInv
<1> QED
  BY <1>1, Invariance, PTL

-----------------------------------------------------------------------------
(* The registry of the live server, for every number of games, workers,     *)
(* connections and every idle time: no race and no eviction takes the match *)
(* from under an open tab, and the registry outgrows its cap only by open   *)
(* tabs.                                                                    *)
(*                                                                          *)
(* Both rest on how far the clocks of a session can be apart: the stamp of  *)
(* its last request, taken before the lock, and the moment of the lock are  *)
(* at most Slowest apart (StampIsRecent).  That the stamp is not of a       *)
(* request for another game needs that no two games share a session, and    *)
(* for that every connection is in one place (OneConnection).               *)

\* A connection whose session has not been put into the registry.
Unresolved(w) == at[w] \in {"read", "resolve", "build", "insert"}

\* A connection is on its way in one place, and new until it is resolved.
OneConnection ==
  /\ \A w \in Workers :
       /\ at[w] # "idle" => stream[w] # Absent
       /\ Unresolved(w) => \A g \in Ids : games[g] # stream[w]
  /\ \A w, v \in Workers : stream[w] # Absent /\ stream[w] = stream[v] => w = v
  /\ \A i \in 1..Len(streams) :
       /\ \A w \in Workers : stream[w] # streams[i]
       /\ \A g \in Ids : games[g] # streams[i]
       /\ \A j \in 1..Len(streams) : streams[i] = streams[j] => i = j
       /\ accepting # streams[i]
  /\ accepting # Absent =>
       (\A w \in Workers : stream[w] # accepting) /\ (\A g \in Ids : games[g] # accepting)

OwnSession == \A g, h \in Ids : games[g] # Absent /\ games[g] = games[h] => g = h

\* A request names a game, and is resolved within Slowest.
InTime ==
  \A w \in Workers : Resolving(w) =>
    game[w] \in Ids /\ started[w] <= now /\ now <= started[w] + Slowest

Visits == [session : 0..sent, at : Nat]

\* The session of a game is the one last served, at about its stamp.
StampIsRecent ==
  \A g \in Registered :
    /\ served[g] \in Visits /\ served[g].session = games[g] /\ served[g].at <= now
    /\ lastAccess[games[g]] <= served[g].at
    /\ served[g].at <= lastAccess[games[g]] + Slowest

\* A game that is not in the registry was not asked for lately.
GoneIsStale ==
  \A g \in Ids \ Registered : served[g] # Absent => now - served[g].at + Slowest >= Idle

RegistrySound == Default \in Registered /\ IsFiniteSet(Registered)

ServerInv ==
  /\ ServerTypeOK /\ OneConnection /\ OwnSession /\ InTime /\ StampIsRecent /\ GoneIsStale
  /\ RegistrySound

(* A request still needs the session it has resolved. *)
Serves(w) == at[w] \in {"handle", "locked", "write"}

Reached(s) == (\E g \in Ids : games[g] = s) \/ (\E w \in Workers : s \in holds[w]) \/ s \in pinned

(* The threads of a match run exactly as long as the registry, a request or *)
(* its refresher can reach it: a request never works on a match whose       *)
(* threads were joined by an eviction or a lost race beside it, and when    *)
(* no request is under way no match but those of the registry is left.      *)
ThreadsFollowUse ==
  /\ \A s \in Sessions : s \in running <=> Reached(s)
  /\ \A w \in Workers : Serves(w) => inst[w] \in running
  /\ ~LocalRefresh /\ (\A w \in Workers : at[w] = "idle") =>
       running = {games[g] : g \in Registered}

\* What a worker holds at which point, and who has a refresher.
Held(w) ==
  /\ at[w] \in {"idle", "read", "resolve", "build"} => holds[w] = {}
  /\ at[w] = "insert" => stream[w] \in holds[w]
  /\ at[w] = "drop" \/ Serves(w) => inst[w] \in holds[w]

HoldsByStage == (\A w \in Workers : Held(w)) /\ (pinned # {} => LocalRefresh)

RunsWhileReached == \A s \in Sessions : s \in running <=> Reached(s)

Stages == {"idle", "read", "resolve", "build", "insert", "drop", "handle", "locked", "write", "finish"}

LEMMA ServerConstants ==
  Absent \notin Ids /\ Absent \notin Nat /\ Default \in Ids /\ 0 \in 0..Connections
  /\ MaxGames \in Nat /\ QueueCap \in Nat /\ Idle \in Nat /\ Slowest \in Nat /\ Connections \in Nat
BY ServerAssumption DEF Ids

LEMMA ElementsIn == ASSUME NEW S, NEW q \in Seq(S) PROVE \A i \in 1..Len(q) : q[i] \in S
OBVIOUS

LEMMA ServerStarts == ServerInit => ServerInv
<1> SUFFICES ASSUME ServerInit PROVE ServerInv
  OBVIOUS
<1> USE ServerConstants DEF ServerInit
<1>1. ServerTypeOK
  BY DEF ServerTypeOK, Sessions
<1>2. OneConnection
  BY DEF OneConnection, Unresolved
<1>3. OwnSession /\ InTime
  BY DEF OwnSession, InTime, Resolving
<1>4. Registered = {Default}
  BY DEF Registered
<1>5. StampIsRecent /\ GoneIsStale
  <2>1. served[Default] = [session |-> 0, at |-> 0] /\ games[Default] = 0 /\ lastAccess[0] = 0 /\ now = 0
    BY DEF Sessions
  <2>2. served[Default] \in Visits
    BY <2>1 DEF Visits
  <2>3. \A g \in Ids \ {Default} : served[g] = Absent
    OBVIOUS
  <2> QED
    BY <1>4, <2>1, <2>2, <2>3 DEF StampIsRecent, GoneIsStale
<1>6. RegistrySound
  BY <1>4, FS_Singleton DEF RegistrySound
<1> QED
  BY <1>1, <1>2, <1>3, <1>5, <1>6 DEF ServerInv

\* A step of workers that leaves registry, queue, requests and time alone.
LEMMA QuietKeeps ==
  ASSUME ServerInv, UNCHANGED <<now, network, request, registry>>,
         at' \in [Workers -> Stages], holds' \in [Workers -> SUBSET (0..sent)],
         running' \subseteq 0..sent, pinned' \subseteq 0..sent, done' \subseteq 1..sent,
         \A w \in Workers : /\ at'[w] # "idle" => at[w] # "idle"
                            /\ (Unresolved(w)' => Unresolved(w)) /\ (Resolving(w)' => Resolving(w))
  PROVE  ServerInv'
<1> USE DEF network, request, registry
<1>1. ServerTypeOK'
  BY DEF ServerInv, ServerTypeOK, Stages
<1>2. OneConnection'
  BY DEF ServerInv, OneConnection
<1>3. OwnSession' /\ InTime'
  BY DEF ServerInv, OwnSession, InTime
<1>4. Registered' = Registered
  BY DEF Registered
<1>5. StampIsRecent' /\ GoneIsStale' /\ RegistrySound'
  BY <1>4 DEF ServerInv, StampIsRecent, GoneIsStale, RegistrySound, Visits
<1> QED
  BY <1>1, <1>2, <1>3, <1>5 DEF ServerInv

LEMMA QuietSteps ==
  ASSUME ServerInv, NEW w \in Workers,
         ReadFails(w) \/ Build(w) \/ DropOther(w) \/ Enter(w) \/ Leave(w) \/ Panic(w) \/ Write(w)
         \/ (Resolve(w) /\ games[game[w]] = Absent)
  PROVE  ServerInv'
<1> USE DEF ServerTypeOK, Stages, Close
<1>0. /\ at \in [Workers -> Stages] /\ holds \in [Workers -> SUBSET (0..sent)]
      /\ running \subseteq 0..sent /\ pinned \subseteq 0..sent /\ done \subseteq 1..sent
      /\ stream[w] \in 1..sent \union {Absent} /\ (at[w] # "idle" => stream[w] # Absent)
      /\ sent \in Nat
  BY DEF ServerInv, OneConnection
<1>1. CASE ReadFails(w) \/ Panic(w) \/ Write(w)
  <2>1. at[w] \in {"read", "build", "locked", "write"}
        /\ at' = [at EXCEPT ![w] = "finish"] /\ done' = done \union {stream[w]}
        /\ UNCHANGED <<now, network, request, holds, registry, sessions>>
    BY <1>1 DEF ReadFails, Panic, Write
  <2>2. stream[w] \in 1..sent
    BY <1>0, <2>1
  <2> QED
    BY <1>0, <2>1, <2>2, QuietKeeps DEF Unresolved, Resolving, sessions
<1>2. CASE Build(w)
  <2>1. /\ at[w] = "build" /\ at' = [at EXCEPT ![w] = "insert"] /\ stream[w] \in 1..sent
        /\ holds' = [holds EXCEPT ![w] = {stream[w]}] /\ running' = running \union {stream[w]}
        /\ pinned' \in {pinned, pinned \union {stream[w]}}
        /\ UNCHANGED <<now, network, request, registry, done>>
    BY <1>0, <1>2 DEF Build, BuildWith
  <2>2. stream[w] \in 0..sent
    BY <1>0, <2>1
  <2>3. holds' \in [Workers -> SUBSET (0..sent)] /\ running' \subseteq 0..sent /\ pinned' \subseteq 0..sent
    BY <1>0, <2>1, <2>2
  <2>4. done' \subseteq 1..sent /\ at' \in [Workers -> Stages]
    BY <1>0, <2>1
  <2>5. \A v \in Workers : /\ at'[v] # "idle" => at[v] # "idle"
                          /\ (Unresolved(v)' => Unresolved(v)) /\ (Resolving(v)' => Resolving(v))
    BY <1>0, <2>1 DEF Unresolved, Resolving
  <2> QED
    BY <2>1, <2>3, <2>4, <2>5, QuietKeeps
<1>3. CASE DropOther(w)
  <2>1. /\ at[w] = "drop" /\ at' = [at EXCEPT ![w] = "handle"]
        /\ holds' = [holds EXCEPT ![w] = @ \ (holds[w] \ {inst[w]})]
        /\ running' \subseteq running /\ UNCHANGED pinned
        /\ UNCHANGED <<now, network, request, registry, done>>
    BY <1>3 DEF DropOther, Drop
  <2> QED
    BY <1>0, <2>1, QuietKeeps DEF Unresolved, Resolving
<1>4. CASE Enter(w) \/ Leave(w)
  <2>1. /\ at[w] \in {"handle", "locked"}
        /\ at' \in {[at EXCEPT ![w] = "locked"], [at EXCEPT ![w] = "write"]}
        /\ UNCHANGED <<now, network, request, holds, registry, sessions, done>>
    BY <1>4 DEF Enter, Leave
  <2> QED
    BY <1>0, <2>1, QuietKeeps DEF Unresolved, Resolving, sessions
<1>5. CASE Resolve(w) /\ games[game[w]] = Absent
  <2>1. /\ at[w] = "resolve" /\ at' = [at EXCEPT ![w] = "build"]
        /\ UNCHANGED <<now, network, request, holds, registry, sessions, done>>
    BY <1>5 DEF Resolve, Found, request
  <2> QED
    BY <1>0, <2>1, QuietKeeps DEF Unresolved, Resolving, sessions
<1> QED
  BY <1>1, <1>2, <1>3, <1>4, <1>5

-----------------------------------------------------------------------------
(* Connections *)

LEMMA AcceptKeeps == ASSUME ServerInv, AcceptStream PROVE ServerInv'
<1> USE DEF registry, request, sessions
<1>1. /\ accepting = Absent /\ sent' = sent + 1 /\ accepting' = sent + 1 /\ sent < Connections
      /\ sent \in Nat
      /\ UNCHANGED <<now, streams, at, request, holds, registry, sessions, done>>
  BY ServerConstants DEF AcceptStream, ServerInv, ServerTypeOK
<1>2. 1..sent \subseteq 1..sent + 1 /\ 0..sent \subseteq 0..sent + 1 /\ sent + 1 \in 0..Connections
  BY <1>1, ServerConstants
<1>3. ServerTypeOK'
  <2>1. streams \in Seq(1..sent + 1)
    BY <1>1, <1>2 DEF ServerInv, ServerTypeOK
  <2>2. /\ stream \in [Workers -> 1..sent + 1 \union {Absent}]
        /\ inst \in [Workers -> 0..sent + 1 \union {Absent}] /\ holds \in [Workers -> SUBSET (0..sent + 1)]
    BY <1>2 DEF ServerInv, ServerTypeOK
  <2>3. /\ games \in [Ids -> 0..sent + 1 \union {Absent}]
        /\ served \in [Ids -> [session : 0..sent + 1, at : Nat] \union {Absent}]
    BY <1>2 DEF ServerInv, ServerTypeOK
  <2> QED
    BY <1>1, <1>2, <2>1, <2>2, <2>3 DEF ServerInv, ServerTypeOK
<1>4. OneConnection'
  <2>1. /\ \A w \in Workers : stream[w] # sent + 1
        /\ \A g \in Ids : games[g] # sent + 1
        /\ \A i \in 1..Len(streams) : streams[i] # sent + 1
    BY <1>1, ServerConstants DEF ServerInv, ServerTypeOK
  <2> QED
    BY <1>1, <2>1 DEF ServerInv, OneConnection, Unresolved
<1>5. OwnSession' /\ InTime'
  BY <1>1 DEF ServerInv, OwnSession, InTime, Resolving
<1>6. Registered' = Registered
  BY <1>1 DEF Registered
<1>7. StampIsRecent' /\ GoneIsStale' /\ RegistrySound'
  BY <1>1, <1>2, <1>6 DEF ServerInv, StampIsRecent, GoneIsStale, RegistrySound, Visits
<1> QED
  BY <1>3, <1>4, <1>5, <1>7 DEF ServerInv

\* A step that moves a connection on and leaves the registry and time alone.
LEMMA MovesOn ==
  ASSUME ServerInv, ServerTypeOK', OneConnection', UNCHANGED <<now, sent, registry>>,
         \A w \in Workers : Resolving(w)' => Resolving(w) /\ game'[w] = game[w] /\ started'[w] = started[w]
  PROVE  ServerInv'
<1> USE DEF registry
<1>1. OwnSession' /\ InTime'
  BY DEF ServerInv, OwnSession, InTime
<1>2. Registered' = Registered
  BY DEF Registered
<1>3. StampIsRecent' /\ GoneIsStale' /\ RegistrySound'
  BY <1>2 DEF ServerInv, StampIsRecent, GoneIsStale, RegistrySound, Visits
<1> QED
  BY <1>1, <1>3 DEF ServerInv

LEMMA SendKeeps == ASSUME ServerInv, Send PROVE ServerInv'
<1> DEFINE n == Len(streams)
<1>1. /\ accepting # Absent /\ n < QueueCap /\ accepting' = Absent /\ streams' = Append(streams, accepting)
      /\ UNCHANGED <<now, sent, at, request, holds, registry, sessions, done>>
  BY DEF Send
<1>2. accepting \in 1..sent /\ streams \in Seq(1..sent) /\ n \in Nat
  BY <1>1 DEF ServerInv, ServerTypeOK
<1>3. streams' \in Seq(1..sent) /\ Len(streams') = n + 1 /\ streams'[n + 1] = accepting
      /\ \A i \in 1..n : streams'[i] = streams[i]
  BY <1>1, <1>2
<1>4. ServerTypeOK'
  BY <1>1, <1>2, <1>3, ServerConstants DEF ServerInv, ServerTypeOK, request, registry, sessions
<1>5. OneConnection'
  <2>1. ASSUME NEW i \in 1..n + 1
        PROVE  /\ \A w \in Workers : stream[w] # streams'[i]
               /\ \A g \in Ids : games[g] # streams'[i]
               /\ \A j \in 1..n + 1 : streams'[i] = streams'[j] => i = j
    <3>1. \A k \in 1..n + 1 : k \in 1..n \/ k = n + 1
      BY <1>2
    <3>2. \A k \in 1..n : streams[k] # accepting
      BY DEF ServerInv, OneConnection
    <3>3. CASE i = n + 1
      BY <1>1, <1>3, <3>1, <3>2, <3>3 DEF ServerInv, OneConnection
    <3>4. CASE i \in 1..n
      <4>1. streams'[i] = streams[i]
        BY <1>3, <3>4
      <4>2. (\A w \in Workers : stream[w] # streams[i]) /\ (\A g \in Ids : games[g] # streams[i])
        BY <3>4 DEF ServerInv, OneConnection
      <4>3. \A j \in 1..n : streams[i] = streams[j] => i = j
        BY <3>4 DEF ServerInv, OneConnection
      <4> QED
        BY <1>3, <3>1, <3>2, <3>4, <4>1, <4>2, <4>3
    <3> QED
      BY <3>1, <3>3, <3>4
  <2>2. \A i \in 1..n + 1 : streams'[i] # Absent
    <3>1. \A q \in Seq(1..sent) : \A i \in 1..Len(q) : q[i] \in 1..sent
      BY ElementsIn
    <3> QED
      BY <1>3, <3>1, ServerConstants
  <2> QED
    BY <1>1, <1>3, <2>1, <2>2 DEF ServerInv, OneConnection, Unresolved, request, registry
<1> QED
  BY <1>1, <1>4, <1>5, MovesOn DEF Resolving, request

LEMMA TakeKeeps == ASSUME ServerInv, NEW w \in Workers, TakeStream(w) PROVE ServerInv'
<1> DEFINE c == Head(streams)
           rest == Tail(streams)
<1>1. /\ at[w] = "idle" /\ streams # <<>> /\ stream' = [stream EXCEPT ![w] = c] /\ streams' = rest
      /\ at' = [at EXCEPT ![w] = "read"]
      /\ UNCHANGED <<now, sent, accepting, game, started, inst, holds, registry, sessions, done>>
  BY DEF TakeStream
<1>2. /\ streams \in Seq(1..sent) /\ rest \in Seq(1..sent) /\ Len(rest) \in Nat
      /\ Len(streams) = Len(rest) + 1
      /\ c \in 1..sent /\ c = streams[1] /\ 1 \in 1..Len(streams)
      /\ \A i \in 1..Len(rest) : rest[i] = streams[i + 1] /\ i + 1 \in 1..Len(streams) /\ i + 1 # 1
  BY <1>1 DEF ServerInv, ServerTypeOK
<1> HIDE DEF c, rest
<1>3. stream \in [Workers -> 1..sent \union {Absent}] /\ at \in [Workers -> Stages]
  BY DEF ServerInv, ServerTypeOK, Stages
<1>4. ServerTypeOK'
  <2>1. Len(rest) <= QueueCap
    BY <1>2, ServerConstants DEF ServerInv, ServerTypeOK
  <2> QED
    BY <1>1, <1>2, <1>3, <2>1 DEF ServerInv, ServerTypeOK, Stages, registry, sessions
<1>5. /\ \A v \in Workers : stream[v] # c
      /\ \A g \in Ids : games[g] # c
      /\ accepting # c /\ c # Absent
      /\ \A i \in 1..Len(rest) : rest[i] # c
  <2>1. /\ \A v \in Workers : stream[v] # streams[1]
        /\ \A g \in Ids : games[g] # streams[1]
        /\ accepting # streams[1]
        /\ \A k \in 1..Len(streams) : streams[1] = streams[k] => 1 = k
    BY <1>2 DEF ServerInv, OneConnection
  <2>2. \A i \in 1..Len(rest) : rest[i] # c
    BY <1>2, <2>1
  <2> QED
    BY <1>2, <2>1, <2>2, ServerConstants
<1>6. OneConnection'
  <2>1. \A v \in Workers : /\ at'[v] # "idle" => stream'[v] # Absent
                           /\ Unresolved(v)' => \A g \in Ids : games'[g] # stream'[v]
    BY <1>1, <1>3, <1>5 DEF ServerInv, OneConnection, Unresolved, registry
  <2>2. \A u, v \in Workers : stream'[u] # Absent /\ stream'[u] = stream'[v] => u = v
    BY <1>1, <1>3, <1>5 DEF ServerInv, OneConnection
  <2>3. ASSUME NEW i \in 1..Len(rest)
        PROVE  /\ \A v \in Workers : stream'[v] # rest[i]
               /\ \A g \in Ids : games'[g] # rest[i]
               /\ \A j \in 1..Len(rest) : rest[i] = rest[j] => i = j
               /\ accepting' # rest[i]
    <3>1. rest[i] = streams[i + 1] /\ i + 1 \in 1..Len(streams)
      BY <1>2
    <3>2. /\ \A v \in Workers : stream[v] # streams[i + 1]
          /\ \A g \in Ids : games[g] # streams[i + 1]
          /\ accepting # streams[i + 1]
          /\ \A k \in 1..Len(streams) : streams[i + 1] = streams[k] => i + 1 = k
      BY <3>1 DEF ServerInv, OneConnection
    <3>3. \A j \in 1..Len(rest) : rest[i] = rest[j] => i + 1 = j + 1
      BY <1>2, <3>1, <3>2
    <3> QED
      BY <1>1, <1>2, <1>3, <1>5, <3>1, <3>2, <3>3 DEF registry
  <2>4. accepting' # Absent =>
          (\A v \in Workers : stream'[v] # accepting') /\ (\A g \in Ids : games'[g] # accepting')
    BY <1>1, <1>3, <1>5 DEF ServerInv, OneConnection, registry
  <2> QED
    BY <1>1, <2>1, <2>2, <2>3, <2>4 DEF OneConnection
<1>7. \A v \in Workers : Resolving(v)' => Resolving(v) /\ game'[v] = game[v] /\ started'[v] = started[v]
  BY <1>1, <1>3 DEF Resolving
<1> QED
  BY <1>1, <1>4, <1>6, <1>7, MovesOn

LEMMA FinishKeeps == ASSUME ServerInv, NEW w \in Workers, Finish(w) PROVE ServerInv'
<1>1. /\ at[w] = "finish" /\ at' = [at EXCEPT ![w] = "idle"] /\ stream' = [stream EXCEPT ![w] = Absent]
      /\ game' = [game EXCEPT ![w] = Absent] /\ started' = [started EXCEPT ![w] = 0]
      /\ inst' = [inst EXCEPT ![w] = Absent]
      /\ holds' = [holds EXCEPT ![w] = @ \ holds[w]] /\ running' \subseteq running /\ UNCHANGED pinned
      /\ UNCHANGED <<now, network, registry, done>>
  BY DEF Finish, Drop
<1>2. ServerTypeOK'
  BY <1>1 DEF ServerInv, ServerTypeOK, network, registry
<1>3. stream \in [Workers -> 1..sent \union {Absent}] /\ at \in [Workers -> Stages]
  BY DEF ServerInv, ServerTypeOK, Stages
<1>4. /\ \A i \in 1..Len(streams) : streams[i] # Absent
      /\ UNCHANGED <<streams, accepting, games, sent>>
  <2>1. \A i \in 1..Len(streams) : streams[i] \in 1..sent
    BY DEF ServerInv, ServerTypeOK
  <2> QED
    BY <1>1, <2>1, ServerConstants DEF network, registry
<1>5. OneConnection'
  BY <1>1, <1>3, <1>4 DEF ServerInv, OneConnection, Unresolved
<1>6. \A v \in Workers : Resolving(v)' => Resolving(v) /\ game'[v] = game[v] /\ started'[v] = started[v]
  <2>1. game \in [Workers -> Ids \union {Absent}] /\ started \in [Workers -> Nat]
    BY DEF ServerInv, ServerTypeOK
  <2> QED
    BY <1>1, <1>3, <2>1 DEF Resolving
<1> QED
  BY <1>1, <1>2, <1>4, <1>5, <1>6, MovesOn

LEMMA ReadKeeps == ASSUME ServerInv, NEW w \in Workers, ReadRequest(w) PROVE ServerInv'
<1>1. PICK g \in Ids : game' = [game EXCEPT ![w] = g]
  BY DEF ReadRequest
<1>2. /\ at[w] = "read" /\ at' = [at EXCEPT ![w] = "resolve"] /\ started' = [started EXCEPT ![w] = now]
      /\ UNCHANGED <<now, network, stream, inst, holds, registry, sessions, done>>
  BY DEF ReadRequest
<1>3. /\ at \in [Workers -> Stages] /\ game \in [Workers -> Ids \union {Absent}]
      /\ started \in [Workers -> Nat] /\ now \in Nat
  BY DEF ServerInv, ServerTypeOK, Stages
<1> USE DEF network, registry, sessions
<1>4. ServerTypeOK'
  BY <1>1, <1>2, <1>3 DEF ServerInv, ServerTypeOK, Stages
<1>5. OneConnection'
  BY <1>2, <1>3 DEF ServerInv, OneConnection, Unresolved
<1>6. OwnSession'
  BY <1>2 DEF ServerInv, OwnSession
<1>7. InTime'
  BY <1>1, <1>2, <1>3, ServerConstants DEF ServerInv, InTime, Resolving
<1>8. Registered' = Registered
  BY <1>2 DEF Registered
<1>9. StampIsRecent' /\ GoneIsStale' /\ RegistrySound'
  BY <1>2, <1>8 DEF ServerInv, StampIsRecent, GoneIsStale, RegistrySound, Visits
<1> QED
  BY <1>4, <1>5, <1>6, <1>7, <1>9 DEF ServerInv

LEMMA ClockKeeps == ASSUME ServerInv, Clock PROVE ServerInv'
<1>1. /\ \A w \in Workers : Resolving(w) => now - started[w] < Slowest
      /\ now' = now + 1 /\ UNCHANGED <<network, at, request, holds, registry, sessions, done>>
  BY DEF Clock
<1> USE DEF network, request, registry, sessions
<1>2. now \in Nat /\ started \in [Workers -> Nat]
  BY DEF ServerInv, ServerTypeOK
<1>3. ServerTypeOK' /\ OneConnection' /\ OwnSession'
  BY <1>1, <1>2 DEF ServerInv, ServerTypeOK, OneConnection, OwnSession, Unresolved
<1>4. InTime'
  BY <1>1, <1>2, ServerConstants DEF ServerInv, InTime, Resolving
<1>5. Registered' = Registered
  BY <1>1 DEF Registered
<1>6. StampIsRecent'
  BY <1>1, <1>2, <1>5 DEF ServerInv, StampIsRecent, Visits
<1>7. GoneIsStale'
  <2>1. \A g \in Ids : served[g] # Absent => served[g].at \in Nat
    BY DEF ServerInv, ServerTypeOK
  <2> QED
    BY <1>1, <1>2, <1>5, <2>1, ServerConstants DEF ServerInv, GoneIsStale
<1>8. RegistrySound'
  BY <1>5 DEF ServerInv, RegistrySound
<1> QED
  BY <1>3, <1>4, <1>6, <1>7, <1>8 DEF ServerInv

-----------------------------------------------------------------------------
(* The registry *)

\* A session that is in the registry already is used by w.
LEMMA FoundKeeps ==
  ASSUME ServerInv, NEW w \in Workers, at[w] \in {"resolve", "insert"}, Found(w),
         at' \in {[at EXCEPT ![w] = "handle"], [at EXCEPT ![w] = "drop"]},
         holds' \in [Workers -> SUBSET (0..sent)],
         UNCHANGED <<now, network, stream, game, started, sessions, done>>
  PROVE  ServerInv'
<1> DEFINE g == game[w]
           s == games[g]
<1> USE DEF network, sessions
<1>1. /\ s # Absent /\ lastAccess' = [lastAccess EXCEPT ![s] = started[w]]
      /\ served' = [served EXCEPT ![g] = [session |-> s, at |-> now]]
      /\ inst' = [inst EXCEPT ![w] = s] /\ UNCHANGED games
  BY DEF Found, Touch
<1>2. g \in Ids /\ started[w] <= now /\ now <= started[w] + Slowest
  BY DEF ServerInv, InTime, Resolving
<1>3. /\ s \in 0..sent /\ s \in Sessions /\ lastAccess \in [Sessions -> Nat] /\ now \in Nat
      /\ started[w] \in Nat
      /\ games \in [Ids -> 0..sent \union {Absent}]
      /\ served \in [Ids -> [session : 0..sent, at : Nat] \union {Absent}]
      /\ at \in [Workers -> Stages] /\ sent \in 0..Connections
  BY <1>1, <1>2, ServerConstants DEF ServerInv, ServerTypeOK, Sessions, Stages
<1> HIDE DEF g, s
<1>4. ServerTypeOK'
  <2>1. [session |-> s, at |-> now] \in [session : 0..sent, at : Nat]
    BY <1>3
  <2>2. /\ served' \in [Ids -> [session : 0..sent, at : Nat] \union {Absent}]
        /\ lastAccess' \in [Sessions -> Nat]
    BY <1>1, <1>2, <1>3, <2>1
  <2>3. at' \in [Workers -> Stages] /\ inst' \in [Workers -> 0..sent \union {Absent}]
    BY <1>1, <1>3 DEF ServerInv, ServerTypeOK, Stages
  <2> QED
    BY <1>1, <2>2, <2>3 DEF ServerInv, ServerTypeOK, Stages
<1>5. OneConnection'
  BY <1>1, <1>3 DEF ServerInv, OneConnection, Unresolved
<1>6. OwnSession' /\ InTime'
  BY <1>1, <1>3 DEF ServerInv, OwnSession, InTime, Resolving
<1>7. Registered' = Registered /\ g \in Registered
  BY <1>1, <1>2 DEF Registered, s
<1>8. StampIsRecent'
  <2>1. ASSUME NEW h \in Registered
        PROVE  /\ served'[h] \in Visits /\ served'[h].session = games[h] /\ served'[h].at <= now
               /\ lastAccess'[games[h]] <= served'[h].at
               /\ served'[h].at <= lastAccess'[games[h]] + Slowest
    <3>1. h \in Ids /\ games[h] # Absent
      BY DEF Registered
    <3>2. CASE h = g
      <4>1. served'[g] = [session |-> s, at |-> now] /\ lastAccess'[s] = started[w] /\ games[g] = s
        BY <1>1, <1>2, <1>3 DEF s
      <4> QED
        BY <1>2, <1>3, <3>2, <4>1 DEF Visits
    <3>3. CASE h # g
      <4>1. games[h] # s
        BY <1>1, <1>2, <3>1, <3>3 DEF ServerInv, OwnSession, s
      <4>2. games[h] \in Sessions
        BY <1>3, <3>1, ServerConstants DEF Sessions
      <4>3. served'[h] = served[h] /\ lastAccess'[games[h]] = lastAccess[games[h]]
        BY <1>1, <1>3, <3>1, <3>3, <4>1, <4>2
      <4> QED
        BY <4>3 DEF ServerInv, StampIsRecent
    <3> QED
      BY <3>2, <3>3
  <2> QED
    BY <1>1, <1>7, <2>1 DEF StampIsRecent, Visits
<1>9. GoneIsStale'
  <2>1. \A h \in Ids \ Registered : served'[h] = served[h]
    BY <1>1, <1>3, <1>7
  <2> QED
    BY <1>7, <2>1 DEF ServerInv, GoneIsStale
<1>10. RegistrySound'
  BY <1>7 DEF ServerInv, RegistrySound
<1> QED
  BY <1>4, <1>5, <1>6, <1>8, <1>9, <1>10 DEF ServerInv

\* The session of an idle game may be evicted: it is not a game asked for lately.
LEMMA VictimIsStale ==
  ASSUME ServerInv, NEW w \in Workers, at[w] = "insert", NEW v \in Victims(w)
  PROVE  /\ v \in Registered \ {Default}
         /\ now - served[v].at + Slowest >= Idle
<1>1. v \in Registered \ {Default} /\ lastAccess[games[v]] + Idle <= started[w]
  BY DEF Victims, IdleGames
<1>2. /\ served[v] \in Visits /\ served[v].at <= lastAccess[games[v]] + Slowest
  BY <1>1 DEF ServerInv, StampIsRecent
<1>3. started[w] <= now /\ now \in Nat /\ started[w] \in Nat
  BY DEF ServerInv, InTime, Resolving, ServerTypeOK
<1>4. lastAccess[games[v]] \in Nat
  <2>1. games[v] \in 0..sent /\ sent \in 0..Connections
    BY <1>1 DEF ServerInv, ServerTypeOK, Registered
  <2> QED
    BY <2>1, ServerConstants DEF ServerInv, ServerTypeOK, Sessions
<1> QED
  BY <1>1, <1>2, <1>3, <1>4, ServerConstants DEF Visits

\* The session w has built takes its place, and that of the victim.
LEMMA InsertNewKeeps ==
  ASSUME ServerInv, NEW w \in Workers, at[w] = "insert", games[game[w]] = Absent,
         NEW victim \in Victims(w) \union {Absent},
         games' = [g \in Ids |-> CASE g = game[w] -> stream[w]
                                   [] g = victim -> Absent
                                   [] OTHER -> games[g]],
         holds' \in [Workers -> SUBSET (0..sent)],
         Touch(w, stream[w]), at' = [at EXCEPT ![w] = "drop"],
         UNCHANGED <<now, network, stream, game, started, sessions, done>>
  PROVE  ServerInv'
<1> DEFINE g == game[w]
           s == stream[w]
<1> USE DEF network, sessions
<1>1. /\ lastAccess' = [lastAccess EXCEPT ![s] = started[w]]
      /\ served' = [served EXCEPT ![g] = [session |-> s, at |-> now]]
      /\ inst' = [inst EXCEPT ![w] = s]
  BY DEF Touch
<1>2. g \in Ids /\ started[w] <= now /\ now <= started[w] + Slowest
  BY DEF ServerInv, InTime, Resolving
<1>3. /\ s \in 1..sent /\ s \in Sessions /\ lastAccess \in [Sessions -> Nat] /\ now \in Nat
      /\ started[w] \in Nat
      /\ games \in [Ids -> 0..sent \union {Absent}]
      /\ served \in [Ids -> [session : 0..sent, at : Nat] \union {Absent}]
      /\ at \in [Workers -> Stages] /\ sent \in 0..Connections
  <2>1. s \in 1..sent \union {Absent} /\ s # Absent
    BY DEF ServerInv, ServerTypeOK, OneConnection
  <2> QED
    BY <2>1, ServerConstants DEF ServerInv, ServerTypeOK, Sessions, Stages
<1>4. /\ victim = Absent \/ victim \in Registered \ {Default}
      /\ victim # Absent => now - served[victim].at + Slowest >= Idle
  BY VictimIsStale
<1>5. victim # g /\ (g # Default) /\ games[g] = Absent
  <2>1. games[g] = Absent
    OBVIOUS
  <2>2. Default \in Registered
    BY DEF ServerInv, RegistrySound
  <2> QED
    BY <1>2, <1>4, <2>1, <2>2, ServerConstants DEF Registered
<1>6. /\ games' \in [Ids -> 0..sent \union {Absent}] /\ games'[g] = s
      /\ \A h \in Ids \ {g} : games'[h] = IF h = victim THEN Absent ELSE games[h]
  <2>1. \A h \in Ids : games'[h] = IF h = g THEN s ELSE IF h = victim THEN Absent ELSE games[h]
    BY <1>5
  <2>2. DOMAIN games' = Ids
    OBVIOUS
  <2> QED
    BY <1>2, <1>3, <2>1, <2>2
<1>7. \A h \in Ids : games[h] # s
  BY DEF ServerInv, OneConnection, Unresolved
<1>8. s # Absent
  BY <1>3, ServerConstants
<1> HIDE DEF g, s
<1>9. ServerTypeOK'
  <2>1. [session |-> s, at |-> now] \in [session : 0..sent, at : Nat]
    BY <1>3
  <2>2. /\ served' \in [Ids -> [session : 0..sent, at : Nat] \union {Absent}]
        /\ lastAccess' \in [Sessions -> Nat]
    BY <1>1, <1>2, <1>3, <2>1
  <2>3. at' \in [Workers -> Stages] /\ inst' \in [Workers -> 0..sent \union {Absent}]
    BY <1>1, <1>3 DEF ServerInv, ServerTypeOK, Stages
  <2> QED
    BY <1>6, <2>2, <2>3 DEF ServerInv, ServerTypeOK, Stages
<1>10. OneConnection'
  <2>1. /\ \A v \in Workers \ {w} : stream[v] # s
        /\ \A i \in 1..Len(streams) : streams[i] # s
        /\ accepting # s
    BY <1>8 DEF ServerInv, OneConnection, s
  <2>2. /\ \A h \in Ids : games'[h] \in {games[h], s, Absent}
        /\ accepting' = accepting /\ streams' = streams /\ stream' = stream /\ sent' = sent
    BY <1>6
  <2>3. /\ \A i \in 1..Len(streams) : streams[i] # Absent
    <3>1. \A q \in Seq(1..sent) : \A i \in 1..Len(q) : q[i] \in 1..sent
      BY ElementsIn
    <3> QED
      BY <3>1, ServerConstants DEF ServerInv, ServerTypeOK
  <2>4. \A v \in Workers : /\ at'[v] # "idle" => stream[v] # Absent
                           /\ Unresolved(v)' => \A h \in Ids : games'[h] # stream[v]
    <3>1. \A v \in Workers : at'[v] = IF v = w THEN "drop" ELSE at[v]
      BY <1>3
    <3>2. \A v \in Workers : at[v] # "idle" => stream[v] # Absent
      BY DEF ServerInv, OneConnection
    <3>3. ASSUME NEW v \in Workers, Unresolved(v)' PROVE \A h \in Ids : games'[h] # stream[v]
      <4>1. v # w /\ Unresolved(v) /\ stream[v] # Absent
        BY <3>1, <3>2, <3>3 DEF Unresolved
      <4>2. \A h \in Ids : games[h] # stream[v]
        BY <4>1 DEF ServerInv, OneConnection
      <4> QED
        BY <2>1, <2>2, <4>1, <4>2
    <3> QED
      BY <3>1, <3>2, <3>3
  <2> QED
    BY <2>1, <2>2, <2>3, <2>4 DEF ServerInv, OneConnection
<1>11. OwnSession'
  BY <1>6, <1>7 DEF ServerInv, OwnSession
<1>12. InTime'
  BY <1>3 DEF ServerInv, InTime, Resolving
<1>13. Registered' = (Registered \ {victim}) \union {g}
  BY <1>2, <1>5, <1>6, <1>8 DEF Registered
<1>14. StampIsRecent'
  <2>1. ASSUME NEW h \in Registered'
        PROVE  /\ served'[h] \in Visits /\ served'[h].session = games'[h] /\ served'[h].at <= now
               /\ lastAccess'[games'[h]] <= served'[h].at
               /\ served'[h].at <= lastAccess'[games'[h]] + Slowest
    <3>1. CASE h = g
      <4>1. served'[g] = [session |-> s, at |-> now] /\ lastAccess'[s] = started[w] /\ games'[g] = s
        BY <1>1, <1>2, <1>3, <1>6
      <4> QED
        BY <1>2, <1>3, <3>1, <4>1 DEF Visits
    <3>2. CASE h # g
      <4>1. h \in Registered /\ h \in Ids /\ games'[h] = games[h] /\ games[h] # s /\ games[h] # Absent
        BY <1>6, <1>7, <1>13, <3>2 DEF Registered
      <4>2. games[h] \in Sessions
        BY <1>3, <4>1, ServerConstants DEF Sessions
      <4>3. served'[h] = served[h] /\ lastAccess'[games[h]] = lastAccess[games[h]]
        BY <1>1, <1>3, <3>2, <4>1, <4>2
      <4> QED
        BY <4>1, <4>3 DEF ServerInv, StampIsRecent
    <3> QED
      BY <3>1, <3>2
  <2> QED
    BY <2>1 DEF StampIsRecent, Visits
<1>15. GoneIsStale'
  <2>1. ASSUME NEW h \in Ids \ Registered', served'[h] # Absent
        PROVE  now - served'[h].at + Slowest >= Idle
    <3>1. h # g /\ served'[h] = served[h]
      BY <1>1, <1>3, <1>13, <2>1
    <3>2. CASE h = victim
      BY <1>4, <3>1, <3>2, <2>1, ServerConstants
    <3>3. CASE h # victim
      BY <1>13, <2>1, <3>1, <3>3 DEF ServerInv, GoneIsStale
    <3> QED
      BY <3>2, <3>3
  <2> QED
    BY <2>1 DEF GoneIsStale
<1>16. RegistrySound'
  <2>1. IsFiniteSet(Registered \ {victim})
    BY FS_Subset DEF ServerInv, RegistrySound
  <2>2. IsFiniteSet(Registered')
    BY <1>13, <2>1, FS_AddElement
  <2> QED
    BY <1>4, <1>13, <2>2, ServerConstants DEF ServerInv, RegistrySound
<1> QED
  BY <1>9, <1>10, <1>11, <1>12, <1>14, <1>15, <1>16 DEF ServerInv

LEMMA RegistryKeeps ==
  ASSUME ServerInv, NEW w \in Workers, Insert(w) \/ (Resolve(w) /\ games[game[w]] # Absent)
  PROVE  ServerInv'
<1>1. /\ holds \in [Workers -> SUBSET (0..sent)] /\ games \in [Ids -> 0..sent \union {Absent}]
      /\ game[w] \in Ids
  BY DEF ServerInv, ServerTypeOK, InTime, Resolving, Insert, Resolve
<1>2. CASE Resolve(w) /\ games[game[w]] # Absent
  <2>1. /\ at[w] = "resolve" /\ Found(w) /\ at' = [at EXCEPT ![w] = "handle"]
        /\ holds' = [holds EXCEPT ![w] = {games[game[w]]}]
        /\ UNCHANGED <<now, network, stream, game, started, sessions, done>>
    BY <1>2 DEF Resolve
  <2>2. games[game[w]] \in 0..sent
    BY <1>1, <1>2
  <2> QED
    BY <1>1, <2>1, <2>2, FoundKeeps
<1>3. CASE Insert(w) /\ games[game[w]] # Absent
  <2>1. /\ at[w] = "insert" /\ Found(w) /\ at' = [at EXCEPT ![w] = "drop"]
        /\ holds' = [holds EXCEPT ![w] = @ \union {games[game[w]]}]
        /\ UNCHANGED <<now, network, stream, game, started, sessions, done>>
    BY <1>3 DEF Insert
  <2>2. games[game[w]] \in 0..sent
    BY <1>1, <1>3
  <2> QED
    BY <1>1, <2>1, <2>2, FoundKeeps
<1>4. CASE Insert(w) /\ games[game[w]] = Absent
  <2>1. /\ at[w] = "insert" /\ Touch(w, stream[w]) /\ at' = [at EXCEPT ![w] = "drop"]
        /\ UNCHANGED <<now, network, stream, game, started, sessions, done>>
    BY <1>4 DEF Insert, Found
  <2>2. PICK victim \in Victims(w) \union {Absent} :
          /\ games' = [g \in Ids |-> CASE g = game[w] -> stream[w]
                                       [] g = victim -> Absent
                                       [] OTHER -> games[g]]
          /\ holds' = [holds EXCEPT ![w] =
                         @ \union (IF victim = Absent THEN {} ELSE {games[victim]})]
    BY <1>4 DEF Insert, Found
  <2>3. victim = Absent \/ games[victim] \in 0..sent
    BY <1>1, <2>1, VictimIsStale DEF Registered
  <2>4. holds' \in [Workers -> SUBSET (0..sent)]
    BY <1>1, <2>2, <2>3
  <2> QED
    BY <1>4, <2>1, <2>2, <2>4, InsertNewKeeps
<1> QED
  BY <1>2, <1>3, <1>4

LEMMA ServerInvariance == ServerSpec => []ServerInv
<1>1. ASSUME ServerInv, [ServerNext]_serverVars PROVE ServerInv'
  <2>1. CASE AcceptStream \/ Send \/ Clock
    BY <1>1, <2>1, AcceptKeeps, SendKeeps, ClockKeeps
  <2>2. ASSUME NEW w \in Workers, Worker(w) PROVE ServerInv'
    BY <1>1, <2>2, TakeKeeps, ReadKeeps, FinishKeeps, QuietSteps, RegistryKeeps DEF Worker
  <2>3. CASE UNCHANGED serverVars
    <3>1. /\ UNCHANGED <<now, network, request, registry>> /\ at' = at /\ holds' = holds
          /\ running' = running /\ pinned' = pinned /\ done' = done
      BY <2>3 DEF serverVars, sessions
    <3>2. /\ at \in [Workers -> Stages] /\ holds \in [Workers -> SUBSET (0..sent)]
          /\ running \subseteq 0..sent /\ pinned \subseteq 0..sent /\ done \subseteq 1..sent
      BY <1>1 DEF ServerInv, ServerTypeOK, Stages
    <3> QED
      BY <1>1, <3>1, <3>2, QuietKeeps DEF Unresolved, Resolving
  <2> QED
    BY <1>1, <2>1, <2>2, <2>3 DEF ServerNext
<1> QED
  BY <1>1, ServerStarts, PTL DEF ServerSpec

-----------------------------------------------------------------------------

(* Every variable stays in its range, whatever requests race and panic.     *)
THEOREM ServerTypeCorrect == ServerSpec => []ServerTypeOK
<1>1. ServerInv => ServerTypeOK
  BY DEF ServerInv
<1> QED
  BY <1>1, ServerInvariance, PTL

\* Where a step changes what was served last.
LEMMA ServedChanges ==
  ASSUME [ServerNext]_serverVars PROVE served' = served \/ \E w \in Workers : Resolve(w) \/ Insert(w)
BY DEF ServerNext, serverVars, AcceptStream, Send, Clock, Worker, TakeStream, ReadRequest, ReadFails,
   Build, BuildWith,
       DropOther, Enter, Leave, Panic, Write, Finish, registry

(* No race of builds and no eviction gives an open tab another match, and   *)
(* the default game is never replaced.                                      *)
THEOREM TabsKeepTheirMatch == ServerSpec => TabKeepsItsMatch
<1>1. ASSUME ServerInv, [ServerNext]_serverVars, NEW g \in Ids, served[g] # Absent,
             g = Default \/ now - served[g].at + Slowest < Idle
      PROVE  served'[g] = served[g] \/ served'[g].session = served[g].session
  <2>1. g \in Registered
    <3>1. CASE g = Default
      BY <1>1, <3>1 DEF ServerInv, RegistrySound
    <3>2. CASE g # Default /\ g \notin Registered
      <4>1. now - served[g].at + Slowest >= Idle
        BY <1>1, <3>2 DEF ServerInv, GoneIsStale
      <4>2. served[g].at \in Nat /\ now \in Nat
        BY <1>1 DEF ServerInv, ServerTypeOK
      <4> QED
        BY <1>1, <3>2, <4>1, <4>2, ServerConstants
    <3> QED
      BY <3>1, <3>2
  <2>2. /\ served[g].session = games[g] /\ games[g] # Absent
        /\ served \in [Ids -> [session : 0..sent, at : Nat] \union {Absent}]
    BY <1>1, <2>1 DEF ServerInv, StampIsRecent, Registered, ServerTypeOK
  <2>3. CASE served' = served
    BY <2>3
  <2>4. ASSUME NEW w \in Workers, Resolve(w) \/ Insert(w)
        PROVE  served'[g] = served[g] \/ served'[g].session = served[g].session
    <3>1. CASE game[w] = g
      <4>1. Found(w) \/ UNCHANGED served
        BY <2>2, <2>4, <3>1 DEF Resolve, Insert, registry
      <4> QED
        BY <2>2, <3>1, <4>1 DEF Found, Touch
    <3>2. CASE game[w] # g
      <4>1. UNCHANGED served \/ \E s : Touch(w, s)
        BY <2>4 DEF Resolve, Insert, Found, registry
      <4> QED
        BY <2>2, <3>2, <4>1 DEF Touch
    <3> QED
      BY <3>1, <3>2
  <2> QED
    BY <1>1, <2>3, <2>4, ServedChanges
<1>2. ServerInv /\ [ServerNext]_serverVars =>
        [\A g \in Ids :
           served[g] # Absent /\ (g = Default \/ now - served[g].at + Slowest < Idle)
             => served'[g] = served[g] \/ served'[g].session = served[g].session]_serverVars
  BY <1>1
<1> QED
  BY <1>2, ServerInvariance, PTL DEF ServerSpec, TabKeepsItsMatch

\* Every set of natural numbers with an element has a least one.
LEMMA LeastNumber ==
  ASSUME NEW T \in SUBSET Nat, T # {}
  PROVE  \E n \in T : \A m \in T : n <= m
<1> DEFINE Less == {ss \in Nat \X Nat : ss[1] < ss[2]}
<1>1. IsWellFoundedOn(Less, Nat)
  BY NatLessThanWellFounded DEF OpToRel
<1>2. PICK x \in T : \A y \in T : <<y, x>> \notin Less
  <2> HIDE DEF Less
  <2> QED
    BY <1>1, WFMin
<1>3. ASSUME NEW y \in T PROVE x <= y
  <2>1. x \in Nat /\ y \in Nat /\ <<y, x>> \notin Less
    BY <1>2
  <2>2. <<y, x>> \in Less <=> y < x
    BY <2>1
  <2> QED
    BY <2>1, <2>2
<1> QED
  BY <1>3

\* Where a step changes the registry.
LEMMA GamesChange ==
  ASSUME [ServerNext]_serverVars, games' # games
  PROVE  \E w \in Workers : Insert(w) /\ games[game[w]] = Absent
<1>1. \E w \in Workers : Insert(w)
  BY DEF ServerNext, serverVars, AcceptStream, Send, Clock, Worker, TakeStream, ReadRequest, ReadFails,
     Build, BuildWith,
         DropOther, Enter, Leave, Panic, Write, Finish, registry, Resolve, Found
<1> QED
  BY <1>1 DEF Insert, Found

\* An idle game that is the stalest of them exists if any does.
LEMMA SomeVictim ==
  ASSUME ServerInv, NEW w \in Workers, Victims(w) = {}, Cardinality(Registered) >= MaxGames
  PROVE  IdleGames(w) = {}
<1> SUFFICES ASSUME IdleGames(w) # {} PROVE FALSE
  OBVIOUS
<1> DEFINE T == {lastAccess[games[g]] : g \in IdleGames(w)}
<1>1. T \in SUBSET Nat /\ T # {}
  <2>1. ASSUME NEW g \in IdleGames(w) PROVE lastAccess[games[g]] \in Nat
    <3>1. games[g] \in 0..sent /\ sent \in 0..Connections
      BY DEF ServerInv, ServerTypeOK, Registered, IdleGames
    <3> QED
      BY <3>1, ServerConstants DEF ServerInv, ServerTypeOK, Sessions
  <2> QED
    BY <2>1
<1>2. PICK n \in T : \A m \in T : n <= m
  <2> HIDE DEF T
  <2> QED
    BY <1>1, LeastNumber
<1>3. PICK v \in IdleGames(w) : lastAccess[games[v]] = n
  OBVIOUS
<1>4. \A h \in IdleGames(w) : lastAccess[games[v]] <= lastAccess[games[h]]
  BY <1>2, <1>3
<1>5. ~(Cardinality(Registered) < MaxGames)
  BY FS_CardinalityType, ServerConstants DEF ServerInv, RegistrySound
<1>6. v \in Victims(w)
  BY <1>3, <1>4, <1>5 DEF Victims
<1> QED
  BY <1>6

(* The registry grows beyond its cap only while every named match in it was *)
(* asked for within the idle time and the time of a resolve.                *)
THEOREM CapHoldsButForOpenTabs == ServerSpec => CapExceededOnlyByOpenTabs
<1>1. ASSUME ServerInv, [ServerNext]_serverVars, ServerInv',
             Cardinality(Registered') > MaxGames, Cardinality(Registered') > Cardinality(Registered),
             NEW g \in Registered \ {Default}
      PROVE  now - served[g].at < Idle + Slowest
  <2>1. IsFiniteSet(Registered) /\ Cardinality(Registered) \in Nat
    BY <1>1, FS_CardinalityType DEF ServerInv, RegistrySound
  <2>2. PICK w \in Workers : Insert(w) /\ games[game[w]] = Absent
    <3>1. \E w \in Workers : Insert(w) /\ games[game[w]] = Absent
      <4>1. CASE games' = games
        <5>1. Registered' = Registered
          BY <4>1 DEF Registered
        <5> QED
          BY <1>1, <2>1, <5>1
      <4>2. CASE games' # games
        BY <1>1, <4>2, GamesChange
      <4> QED
        BY <4>1, <4>2
    <3> QED
      BY <3>1
  <2>3. PICK victim \in IF Victims(w) = {} THEN {Absent} ELSE Victims(w) :
          games' = [h \in Ids |-> CASE h = game[w] -> stream[w]
                                   [] h = victim -> Absent
                                   [] OTHER -> games[h]]
    BY <2>2 DEF Insert, Found
  <2>4. at[w] = "insert" /\ game[w] \in Ids /\ game[w] \notin Registered
        /\ started[w] \in Nat /\ now \in Nat /\ now <= started[w] + Slowest
    BY <1>1, <2>2 DEF Insert, Registered, ServerInv, ServerTypeOK, InTime, Resolving
  <2>5. Registered' \subseteq Registered \union {game[w]}
    BY <2>3, <2>4 DEF Registered
  <2>6. /\ Cardinality(Registered \union {game[w]}) = Cardinality(Registered) + 1
        /\ IsFiniteSet(Registered \union {game[w]})
    BY <2>1, <2>4, FS_AddElement
  <2>7. Victims(w) = {}
    <3>1. SUFFICES ASSUME Victims(w) # {} PROVE FALSE
      OBVIOUS
    <3>2. victim \in Registered
      BY <1>1, <2>3, <2>4, <3>1, VictimIsStale
    <3>3. victim \notin Registered'
      BY <2>3, <2>4, <3>2 DEF Registered
    <3>4. Cardinality(Registered') < Cardinality(Registered \union {game[w]})
      <4>1. Registered' # Registered \union {game[w]}
        BY <3>2, <3>3
      <4> QED
        BY <2>5, <2>6, <4>1, FS_Subset, FS_CardinalityType
    <3>5. Cardinality(Registered') \in Nat
      BY <2>5, <2>6, FS_Subset, FS_CardinalityType
    <3> QED
      BY <1>1, <2>1, <2>6, <3>4, <3>5
  <2>8. Cardinality(Registered') <= Cardinality(Registered) + 1 /\ Cardinality(Registered') \in Nat
    BY <2>5, <2>6, FS_Subset, FS_CardinalityType
  <2>9. Cardinality(Registered) >= MaxGames
    BY <1>1, <2>1, <2>8, ServerConstants
  <2>10. IdleGames(w) = {}
    BY <1>1, <2>7, <2>9, SomeVictim
  <2>11. /\ served[g] \in Visits /\ lastAccess[games[g]] <= served[g].at
    BY <1>1 DEF ServerInv, StampIsRecent
  <2>12. ~(lastAccess[games[g]] + Idle <= started[w])
    BY <1>1, <2>10 DEF IdleGames
  <2>13. lastAccess[games[g]] \in Nat
    <3>1. games[g] \in 0..sent /\ sent \in 0..Connections
      BY <1>1 DEF ServerInv, ServerTypeOK, Registered
    <3>2. lastAccess \in [Sessions -> Nat]
      BY <1>1 DEF ServerInv, ServerTypeOK
    <3>3. games[g] \in Sessions
      BY <3>1, ServerConstants DEF Sessions
    <3> QED
      BY <3>2, <3>3
  <2> QED
    BY <2>4, <2>11, <2>12, <2>13, ServerConstants DEF Visits
<1>2. ServerInv /\ ServerInv' /\ [ServerNext]_serverVars =>
        [Cardinality(Registered') > MaxGames /\ Cardinality(Registered') > Cardinality(Registered)
           => \A g \in Registered \ {Default} : now - served[g].at < Idle + Slowest]_serverVars
  BY <1>1
<1> QED
  BY <1>2, ServerInvariance, PTL DEF ServerSpec, CapExceededOnlyByOpenTabs
-----------------------------------------------------------------------------
(* The threads of the matches *)

\* The part of the type invariant that is about sessions.
LEMMA SessionTypes ==
  ASSUME ServerInv
  PROVE  /\ at \in [Workers -> Stages] /\ holds \in [Workers -> SUBSET Sessions]
         /\ stream \in [Workers -> Sessions \union {Absent}]
         /\ inst \in [Workers -> Sessions \union {Absent}]
         /\ games \in [Ids -> Sessions \union {Absent}]
         /\ running \subseteq Sessions /\ Absent \notin Sessions
<1>1. sent \in 0..Connections /\ Connections \in Nat
  BY ServerConstants, ServerAssumption DEF ServerInv, ServerTypeOK
<1>2. 0..sent \subseteq Sessions /\ 1..sent \subseteq Sessions /\ Sessions \subseteq Nat
  BY <1>1 DEF Sessions
<1>3. Absent \notin Sessions
  BY <1>2, ServerAssumption
<1> QED
  BY <1>2, <1>3 DEF ServerInv, ServerTypeOK, Stages

(* A step that changes neither registry nor holds nor threads. *)
LEMMA SameReach ==
  ASSUME RunsWhileReached, UNCHANGED <<games, holds, running, pinned>>
  PROVE  RunsWhileReached'
BY DEF RunsWhileReached, Reached

(* Giving up some of what a worker holds ends exactly the matches that      *)
(* nobody else can reach. *)
LEMMA DropKeeps ==
  ASSUME ServerInv, RunsWhileReached, NEW w \in Workers, NEW S \in SUBSET holds[w],
         Drop(w, S), UNCHANGED games
  PROVE  RunsWhileReached'
<1>1. /\ holds'[w] = holds[w] \ S /\ \A v \in Workers : v # w => holds'[v] = holds[v]
      /\ pinned' = pinned
      /\ \A s : s \in running' <=>
           /\ s \in running
           /\ ~(s \in S /\ s \notin pinned /\ (\A g \in Ids : games[g] # s)
                /\ \A v \in Workers \ {w} : s \notin holds[v])
  BY SessionTypes DEF Drop
<1>2. ASSUME NEW s \in Sessions PROVE s \in running' <=> Reached(s)'
  <2> DEFINE others == (\E g \in Ids : games[g] = s) \/ s \in pinned
                       \/ \E v \in Workers \ {w} : s \in holds[v]
  <2>1. Reached(s) <=> others \/ s \in holds[w]
    BY DEF Reached
  <2>2. Reached(s)' <=> others \/ s \in holds[w] \ S
    BY <1>1 DEF Reached
  <2>3. s \in running <=> Reached(s)
    BY DEF RunsWhileReached
  <2>4. s \in running' <=> s \in running /\ (s \in S => others)
    BY <1>1
  <2>5. s \in S => s \in holds[w]
    OBVIOUS
  <2> HIDE DEF others
  <2> QED
    BY <2>1, <2>2, <2>3, <2>4, <2>5
<1> QED
  BY <1>2 DEF RunsWhileReached

(* Holding a match that is registered makes no new one reachable. *)
LEMMA FoundKeepsReach ==
  ASSUME ServerInv, RunsWhileReached, NEW w \in Workers, NEW g \in Ids, games[g] # Absent,
         holds' = [holds EXCEPT ![w] = @ \union {games[g]}],
         UNCHANGED <<games, running, pinned>>
  PROVE  RunsWhileReached'
<1>1. holds'[w] = holds[w] \union {games[g]} /\ \A v \in Workers : v # w => holds'[v] = holds[v]
  BY SessionTypes
<1>2. ASSUME NEW s \in Sessions PROVE Reached(s)' <=> Reached(s)
  BY <1>1 DEF Reached
<1> QED
  BY <1>2 DEF RunsWhileReached

(* A build starts the threads of a match that only its worker can reach. *)
LEMMA BuildReaches ==
  ASSUME ServerInv, RunsWhileReached, HoldsByStage, NEW w \in Workers, Build(w)
  PROVE  RunsWhileReached'
<1>1. /\ holds[w] = {} /\ holds'[w] = {stream[w]}
      /\ \A v \in Workers : v # w => holds'[v] = holds[v]
      /\ running' = running \union {stream[w]} /\ UNCHANGED games
      /\ pinned' = pinned \/ pinned' = pinned \union {stream[w]}
  BY SessionTypes DEF Build, BuildWith, HoldsByStage, Held, registry
<1>2. ASSUME NEW s \in Sessions PROVE s \in running' <=> Reached(s)'
  <2>1. CASE s = stream[w]
    BY <1>1, <2>1 DEF Reached
  <2>2. CASE s # stream[w]
    <3>1. Reached(s)' <=> Reached(s)
      BY <1>1, <2>2 DEF Reached
    <3> QED
      BY <1>1, <2>2, <3>1 DEF RunsWhileReached
  <2> QED
    BY <2>1, <2>2
<1> QED
  BY <1>2 DEF RunsWhileReached

(* An insert registers a match its worker holds, and holds the evicted one. *)
LEMMA InsertKeepsReach ==
  ASSUME ServerInv, RunsWhileReached, HoldsByStage, NEW w \in Workers, Insert(w)
  PROVE  RunsWhileReached'
<1>1. UNCHANGED <<running, pinned>> /\ game[w] \in Ids /\ stream[w] \in holds[w]
  <2>1. game[w] \in Ids
    BY DEF Insert, ServerInv, InTime, Resolving
  <2> QED
    BY <2>1 DEF Insert, HoldsByStage, Held, sessions
<1>2. CASE Found(w) /\ holds' = [holds EXCEPT ![w] = @ \union {games[game[w]]}]
  BY <1>1, <1>2, FoundKeepsReach DEF Found
<1>3. CASE games[game[w]] = Absent
  <2>1. PICK victim :
          /\ victim \in Registered \union {Absent}
          /\ games' = [g \in Ids |-> CASE g = game[w] -> stream[w]
                                       [] g = victim -> Absent
                                       [] OTHER -> games[g]]
          /\ holds' = [holds EXCEPT ![w] =
                         @ \union (IF victim = Absent THEN {} ELSE {games[victim]})]
    BY <1>3 DEF Insert, Found, Victims, IdleGames, Registered
  <2>2. /\ \A v \in Workers : v # w => holds'[v] = holds[v]
        /\ holds'[w] = holds[w] \union (IF victim = Absent THEN {} ELSE {games[victim]})
        /\ games'[game[w]] = stream[w]
        /\ \A g \in Ids : g # game[w] /\ g # victim => games'[g] = games[g]
        /\ victim \in Ids /\ victim # game[w] => games'[victim] = Absent
        /\ Absent \notin Ids /\ Absent \notin Sessions
    <3>1. Absent \notin Ids /\ Absent \notin Sessions
      BY ServerConstants, SessionTypes
    <3>2. /\ \A v \in Workers : v # w => holds'[v] = holds[v]
          /\ holds'[w] = holds[w] \union (IF victim = Absent THEN {} ELSE {games[victim]})
      BY <2>1, SessionTypes
    <3>3. games'[game[w]] = stream[w]
      BY <1>1, <1>3, <2>1, <3>1 DEF Registered
    <3>4. ASSUME NEW g \in Ids, g # game[w]
          PROVE  games'[g] = IF g = victim THEN Absent ELSE games[g]
      BY <2>1, <3>4
    <3>5. /\ \A g \in Ids : g # game[w] /\ g # victim => games'[g] = games[g]
          /\ victim \in Ids /\ victim # game[w] => games'[victim] = Absent
      BY <3>4
    <3> QED
      BY <3>1, <3>2, <3>3, <3>5
  <2>3. ASSUME NEW s \in Sessions, Reached(s)' PROVE Reached(s)
    <3>1. CASE \E g \in Ids : games'[g] = s
      BY <1>1, <2>2, <3>1 DEF Reached
    <3>2. CASE \E v \in Workers : s \in holds'[v]
      <4>1. (\E v \in Workers : s \in holds[v]) \/ (victim \in Ids /\ s = games[victim])
        <5>1. PICK v \in Workers : s \in holds'[v]
          BY <3>2
        <5>2. victim = Absent \/ victim \in Ids
          BY <2>1 DEF Registered
        <5> QED
          BY <2>2, <5>1, <5>2
      <4> QED
        BY <4>1 DEF Reached
    <3>3. CASE s \in pinned'
      BY <1>1, <3>3 DEF Reached
    <3> QED
      BY <2>3, <3>1, <3>2, <3>3 DEF Reached
  <2>4. ASSUME NEW s \in Sessions, Reached(s) PROVE Reached(s)'
    <3>1. ASSUME NEW g \in Ids, games[g] = s PROVE Reached(s)'
      <4>1. g # game[w]
        BY <1>3, <2>2, <3>1
      <4>2. CASE g = victim
        BY <2>2, <3>1, <4>2 DEF Reached
      <4>3. CASE g # victim
        BY <2>2, <3>1, <4>1, <4>3 DEF Reached
      <4> QED
        BY <4>2, <4>3
    <3>2. ASSUME NEW v \in Workers, s \in holds[v] PROVE Reached(s)'
      <4>1. s \in holds'[v]
        BY <2>2, <3>2
      <4> QED
        BY <4>1 DEF Reached
    <3>3. CASE s \in pinned
      BY <1>1, <3>3 DEF Reached
    <3> QED
      BY <2>4, <3>1, <3>2, <3>3 DEF Reached
  <2> QED
    BY <1>1, <2>3, <2>4 DEF RunsWhileReached
<1> QED
  BY <1>2, <1>3 DEF Insert

\* What a step of one worker leaves of the others.
OthersStay(w) ==
  \A v \in Workers \ {w} :
    at'[v] = at[v] /\ holds'[v] = holds[v] /\ stream'[v] = stream[v] /\ inst'[v] = inst[v]

LEMMA OwnStage ==
  ASSUME HoldsByStage, NEW w \in Workers, OthersStay(w), Held(w)', pinned' # {} => LocalRefresh
  PROVE  HoldsByStage'
<1>1. ASSUME NEW v \in Workers, v # w PROVE Held(v)'
  BY <1>1 DEF OthersStay, HoldsByStage, Held, Serves
<1> QED
  BY <1>1 DEF HoldsByStage

(* What a worker holds follows its place, in each of its steps. *)
LEMMA StageStep ==
  ASSUME ServerInv, HoldsByStage, NEW w \in Workers, Worker(w)
  PROVE  HoldsByStage'
<1>1. Held(w) /\ (pinned # {} => LocalRefresh)
  BY DEF HoldsByStage
<1>2. CASE TakeStream(w) \/ ReadRequest(w) \/ ReadFails(w) \/ Enter(w) \/ Leave(w) \/ Panic(w) \/ Write(w)
  <2>1. OthersStay(w) /\ Held(w)' /\ UNCHANGED pinned
    BY <1>1, <1>2, SessionTypes
    DEF TakeStream, ReadRequest, ReadFails, Enter, Leave, Panic, Write, Close, OthersStay, Held, Serves,
        sessions, request
  <2> QED
    BY <1>1, <2>1, OwnStage
<1>3. CASE Resolve(w)
  <2>1. OthersStay(w) /\ Held(w)' /\ UNCHANGED pinned
    BY <1>1, <1>3, SessionTypes DEF Resolve, Found, Touch, OthersStay, Held, Serves, sessions
  <2> QED
    BY <1>1, <2>1, OwnStage
<1>4. CASE Build(w)
  <2>1. OthersStay(w) /\ Held(w)' /\ (pinned' # {} => LocalRefresh)
    BY <1>1, <1>4, SessionTypes DEF Build, BuildWith, OthersStay, Held, Serves, request
  <2> QED
    BY <2>1, OwnStage
<1>5. CASE Insert(w)
  <2>1. /\ at[w] = "insert" /\ at' = [at EXCEPT ![w] = "drop"] /\ UNCHANGED <<stream, pinned>>
        /\ \E s : Touch(w, s) /\ s \in holds'[w]
        /\ \A v \in Workers \ {w} : holds'[v] = holds[v]
    BY <1>1, <1>5, SessionTypes DEF Insert, Found, Held, sessions
  <2>2. OthersStay(w) /\ Held(w)'
    BY <2>1, SessionTypes DEF Touch, OthersStay, Held, Serves
  <2> QED
    BY <1>1, <2>1, <2>2, OwnStage
<1>6. CASE DropOther(w)
  <2>1. OthersStay(w) /\ Held(w)' /\ UNCHANGED pinned
    BY <1>1, <1>6, SessionTypes DEF DropOther, Drop, OthersStay, Held, Serves, request
  <2> QED
    BY <1>1, <2>1, OwnStage
<1>7. CASE Finish(w)
  <2>1. OthersStay(w) /\ Held(w)' /\ UNCHANGED pinned
    BY <1>1, <1>7, SessionTypes DEF Finish, Drop, OthersStay, Held, Serves
  <2> QED
    BY <1>1, <2>1, OwnStage
<1> QED
  BY <1>2, <1>3, <1>4, <1>5, <1>6, <1>7 DEF Worker

LEMMA ReachStep ==
  ASSUME ServerInv, HoldsByStage, RunsWhileReached, NEW w \in Workers, Worker(w)
  PROVE  RunsWhileReached'
<1>1. CASE TakeStream(w) \/ ReadRequest(w) \/ ReadFails(w) \/ Enter(w) \/ Leave(w) \/ Panic(w) \/ Write(w)
           \/ (Resolve(w) /\ games[game[w]] = Absent)
  BY <1>1, SameReach
  DEF TakeStream, ReadRequest, ReadFails, Enter, Leave, Panic, Write, Close, Resolve, Found,
      sessions, registry
<1>2. CASE Resolve(w) /\ games[game[w]] # Absent
  <2>1. /\ game[w] \in Ids /\ holds[w] = {} /\ UNCHANGED <<games, running, pinned>>
        /\ holds' = [holds EXCEPT ![w] = {games[game[w]]}]
    BY <1>2 DEF Resolve, Found, ServerInv, InTime, Resolving, HoldsByStage, Held, sessions
  <2>2. holds' = [holds EXCEPT ![w] = @ \union {games[game[w]]}]
    BY <2>1, SessionTypes
  <2> QED
    BY <1>2, <2>1, <2>2, FoundKeepsReach
<1>3. CASE Build(w) \/ Insert(w)
  BY <1>3, BuildReaches, InsertKeepsReach
<1>4. CASE DropOther(w) \/ Finish(w)
  <2>1. UNCHANGED games /\ \E S \in SUBSET holds[w] : Drop(w, S)
    BY <1>4 DEF DropOther, Finish, registry
  <2> QED
    BY <2>1, DropKeeps
<1> QED
  BY <1>1, <1>2, <1>3, <1>4 DEF Worker

LEMMA ThreadsStart == ServerInit => HoldsByStage /\ RunsWhileReached
<1> SUFFICES ASSUME ServerInit PROVE HoldsByStage /\ RunsWhileReached
  OBVIOUS
<1>1. /\ \A w \in Workers : at[w] = "idle" /\ holds[w] = {}
      /\ games[Default] = 0 /\ \A g \in Ids \ {Default} : games[g] = Absent
      /\ running = {0} /\ pinned \subseteq {0} /\ (pinned # {} => LocalRefresh)
  BY ServerConstants DEF ServerInit
<1>2. HoldsByStage
  BY <1>1 DEF HoldsByStage, Held, Serves
<1>3. ASSUME NEW s \in Sessions PROVE s \in running <=> Reached(s)
  BY <1>1, SessionTypes, ServerStarts, ServerConstants DEF Reached
<1> QED
  BY <1>2, <1>3 DEF RunsWhileReached

(* A request never works on a match whose threads were joined beside it,    *)
(* and a match that nobody can reach any more has no threads left.          *)
THEOREM ThreadsRunWhileReached == ServerSpec => []ThreadsFollowUse
<1>1. ASSUME ServerInv, HoldsByStage, RunsWhileReached, [ServerNext]_serverVars
      PROVE  HoldsByStage' /\ RunsWhileReached'
  <2>1. CASE AcceptStream \/ Send \/ Clock \/ UNCHANGED serverVars
    <3>1. UNCHANGED <<at, request, holds, games, running, pinned>>
      BY <2>1 DEF AcceptStream, Send, Clock, serverVars, registry, sessions
    <3>2. HoldsByStage'
      BY <1>1, <3>1 DEF HoldsByStage, Held, Serves, request
    <3> QED
      BY <1>1, <3>1, <3>2, SameReach
  <2>2. ASSUME NEW w \in Workers, Worker(w) PROVE HoldsByStage' /\ RunsWhileReached'
    BY <1>1, <2>2, StageStep, ReachStep
  <2> QED
    BY <1>1, <2>1, <2>2 DEF ServerNext
<1>2. ASSUME ServerInv, HoldsByStage, RunsWhileReached PROVE ThreadsFollowUse
  <2>1. ASSUME NEW w \in Workers, Serves(w) PROVE inst[w] \in running
    <3>1. inst[w] \in holds[w] /\ holds[w] \subseteq Sessions
      BY <1>2, <2>1, SessionTypes DEF HoldsByStage, Held
    <3> QED
      BY <1>2, <3>1 DEF RunsWhileReached, Reached
  <2>2. ASSUME ~LocalRefresh, \A w \in Workers : at[w] = "idle"
        PROVE  running = {games[g] : g \in Registered}
    <3>1. pinned = {} /\ \A w \in Workers : holds[w] = {}
      BY <1>2, <2>2 DEF HoldsByStage, Held
    <3>2. \A s \in Sessions : s \in running <=> \E g \in Ids : games[g] = s
      BY <1>2, <3>1 DEF RunsWhileReached, Reached
    <3>3. \A g \in Registered : games[g] \in Sessions
      BY <1>2, SessionTypes DEF Registered
    <3>4. \A s \in Sessions : (\E g \in Ids : games[g] = s) <=> \E g \in Registered : games[g] = s
      BY <1>2, SessionTypes DEF Registered
    <3> QED
      BY <1>2, <3>2, <3>3, <3>4, SessionTypes
  <2> QED
    BY <1>2, <2>1, <2>2 DEF ThreadsFollowUse, RunsWhileReached
<1> QED
  BY <1>1, <1>2, ThreadsStart, ServerInvariance, PTL DEF ServerSpec
=============================================================================
