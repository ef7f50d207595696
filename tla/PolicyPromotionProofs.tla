------------------------ MODULE PolicyPromotionProofs ------------------------
(***************************************************************************)
(* The active row is unique and never lost.  AtMostOneActive alone is not  *)
(* inductive: a commit could archive an out-of-date set of rows, or turn a *)
(* row that is already active into a second one.  The strengthening says   *)
(* that the lock admits one promotion at a time, that what it is about to  *)
(* archive is exactly the active rows, and that a version in memory is     *)
(* pending, in one place only, and in order of creation.                   *)
(***************************************************************************)
EXTENDS PolicyPromotion, TLAPS

Increasing(s) == \A i, j \in DOMAIN s : i < j => s[i] < s[j]

OnePromotion ==
  \A p, q \in Promoters : tx[p] # "idle" /\ tx[q] # "idle" => p = q

DoomedIsActive ==
  \A p \in Promoters :
    /\ tx[p] # "idle" => queue[p] # <<>>
    /\ tx[p] = "archived" => doomed[p] = Active

PendingInMemory ==
  /\ \A p \in Promoters : \A v \in InMemory(p) : status[v] = "pending"
  /\ \A v \in Versions : v > created => status[v] = "none"

OneOwner ==
  \A p, q \in Promoters : p # q => InMemory(p) \intersect InMemory(q) = {}

InOrder ==
  \A p \in Promoters :
    /\ Increasing(queue[p]) /\ Increasing(buffer[p])
    /\ \A i \in DOMAIN queue[p], j \in DOMAIN buffer[p] : queue[p][i] < buffer[p][j]
    /\ p \in Tournaments => buffer[p] = <<>>

Bookkeeping == OnePromotion /\ DoomedIsActive /\ PendingInMemory /\ OneOwner /\ InOrder

IInv == TypeOK /\ AtMostOneActive /\ Bookkeeping

-----------------------------------------------------------------------------
(* Types *)

(* The head is an active version when there is one. *)
LEMMA HeadIsActive ==
  ASSUME TypeOK, AtMostOneActive
  PROVE  IF Active = {} THEN ActiveHead = None ELSE ActiveHead \in Active
<1>1. CASE Active = {} BY <1>1 DEF ActiveHead
<1>2. CASE Active # {}
  <2>1. PICK v \in Active : TRUE BY <1>2
  <2>2. \A w \in Active : gen[w] <= gen[v]
    BY <2>1 DEF AtMostOneActive, Active, TypeOK
  <2>3. QED BY <1>2, <2>1, <2>2 DEF ActiveHead
<1>3. QED BY <1>1, <1>2

(* Hence it is a version of some generation. *)
LEMMA HeadTyped ==
  ASSUME TypeOK, AtMostOneActive
  PROVE  /\ ActiveHead \in Versions \union {None}
         /\ ActiveHead # None => gen[ActiveHead] \in Nat
         /\ Generation(ActiveHead) \in Nat
BY HeadIsActive DEF Active, TypeOK, Generation

(* A new version is well typed. *)
LEMMA CreateTyped ==
  ASSUME TypeOK, NEW from \in Versions \union {None}, NEW g \in Nat, NEW f \in Int,
         NEW h \in Versions \union {None}, Create(from, g, f, h)
  PROVE  /\ created' \in 0..MaxVersions /\ created' \in Versions
         /\ gen'[created'] = g
         /\ parent' \in [Versions -> Versions \union {None}]
         /\ gen' \in [Versions -> Nat] /\ fit' \in [Versions -> Int]
         /\ began' \in [Versions -> Versions \union {None}]
         /\ status' \in [Versions -> {"none", "pending", "lost", "active", "archived"}]
<1>1. created' = created + 1 /\ created' \in Versions /\ created' \in 0..MaxVersions
  BY PromotionAssumption DEF Create, TypeOK, Versions
<1>2. QED BY <1>1 DEF Create, TypeOK

(* Every step keeps the types. *)
LEMMA TypeStep ==
  ASSUME TypeOK, AtMostOneActive, [Next]_vars, \A p \in Promoters : tx[p] # "idle" => queue[p] # <<>>
  PROVE  TypeOK'
<1> USE PromotionAssumption
<1>h. /\ ActiveHead \in Versions \union {None}
      /\ ActiveHead # None => gen[ActiveHead] \in Nat
      /\ Generation(ActiveHead) \in Nat
  BY HeadTyped
<1>1. ASSUME NEW r \in Runners, NEW s \in Slots, StartGame(r, s) PROVE TypeOK'
  <2>1. CASE RefreshPolicy(r)
    BY <1>1, <2>1 DEF StartGame, TypeOK, table, insert, Promoters
  <2>2. CASE ~RefreshPolicy(r)
    <3>1. base[r] \in Versions \union {None} /\ local[r] \in Int
      BY DEF TypeOK, Promoters
    <3>2. Game(r) \in Games
      BY <1>1, <2>2, <3>1, <1>h DEF StartGame, Game, Games
    <3>3. games' \in [Promoters -> [Slots -> {NoGame} \union Games]]
      <4>1. r \in Promoters /\ games \in [Promoters -> [Slots -> {NoGame} \union Games]]
        BY DEF Promoters, TypeOK
      <4>2. games' = [games EXCEPT ![r][s] = Game(r)] BY <1>1, <2>2 DEF StartGame
      <4>3. QED BY <3>2, <4>1, <4>2
    <3>4. QED BY <1>1, <2>2, <3>3 DEF StartGame, TypeOK, table, insert
  <2>3. QED BY <2>1, <2>2
<1>2. ASSUME NEW r \in Runners, NEW s \in Slots, LoadHead(r, s) PROVE TypeOK'
  <2>1. /\ base' \in [Promoters -> Versions \union {None}]
        /\ local' \in [Promoters -> Nat \union {-1}] /\ \A q \in Runners : local'[q] \in Nat
    BY <1>2, <1>h DEF LoadHead, TypeOK, Promoters
  <2>2. Game(r) \in Games BY <2>1, <1>h DEF Game, Games, Promoters
  <2>3. games' \in [Promoters -> [Slots -> {NoGame} \union Games]]
    BY <1>2, <2>2 DEF LoadHead, TypeOK
  <2>4. QED BY <1>2, <2>1, <2>3 DEF LoadHead, TypeOK, table, insert
<1>3. ASSUME NEW r \in Runners, NEW s \in Slots, CompleteGame(r, s) PROVE TypeOK'
  BY <1>3 DEF CompleteGame, TypeOK, table, insert
<1>4. ASSUME NEW r \in Runners, NEW s \in Slots, NEW f \in Fitnesses, Learn(r, s, f) PROVE TypeOK'
  <2> DEFINE game == games[r][s]
             g == Higher(local[r], game.gen) + 1
  <2>1. game \in Games BY <1>4 DEF Learn, TypeOK, Promoters
  <2>2. g \in Nat
    <3>1. local[r] \in Nat /\ game.gen \in Int BY <2>1 DEF TypeOK, Games
    <3>2. QED BY <3>1 DEF Higher
  <2>3. game.base \in Versions \union {None} /\ game.head \in Versions \union {None} /\ f \in Int
    BY <2>1 DEF Games
  <2>4. Create(game.base, g, f, game.head) BY <1>4 DEF Learn
  <2> HIDE DEF game, g
  <2>5. /\ created' \in 0..MaxVersions /\ created' \in Versions
        /\ gen'[created'] = g
        /\ parent' \in [Versions -> Versions \union {None}]
        /\ gen' \in [Versions -> Nat] /\ fit' \in [Versions -> Int]
        /\ began' \in [Versions -> Versions \union {None}]
        /\ status' \in [Versions -> {"none", "pending", "lost", "active", "archived"}]
    BY <2>2, <2>3, <2>4, CreateTyped
  <2>6. buffer' \in [Promoters -> Seq(Versions)]
    <3>1. r \in Promoters /\ buffer[r] \in Seq(Versions) BY DEF TypeOK, Promoters
    <3>2. Append(buffer[r], created') \in Seq(Versions) BY <2>5, <3>1
    <3>3. QED BY <1>4, <3>2 DEF Learn, TypeOK
  <2>7. /\ base' \in [Promoters -> Versions \union {None}]
        /\ local' \in [Promoters -> Nat \union {-1}] /\ \A q \in Runners : local'[q] \in Nat
        /\ games' \in [Promoters -> [Slots -> {NoGame} \union Games]]
    BY <1>4, <2>2, <2>5 DEF Learn, TypeOK, Promoters
  <2>8. QED BY <1>4, <2>5, <2>6, <2>7 DEF Learn, TypeOK, insert
<1>5. ASSUME NEW r \in Runners, Flush(r) PROVE TypeOK'
  BY <1>5 DEF Flush, TypeOK, table, runner, insert, Promoters
<1>6. ASSUME NEW r \in Runners, ReadHead(r) PROVE TypeOK'
  BY <1>6, <1>h DEF ReadHead, TypeOK, table, runner
<1>7. ASSUME NEW t \in Tournaments, Seed(t) PROVE TypeOK'
  <2>1. /\ base' \in [Promoters -> Versions \union {None}]
        /\ local' \in [Promoters -> Nat \union {-1}] /\ \A q \in Runners : local'[q] \in Nat
    BY <1>7, <1>h DEF Seed, TypeOK, Promoters
  <2>2. Game(t) \in Games BY <2>1, <1>h DEF Game, Games, Promoters
  <2>3. games' \in [Promoters -> [Slots -> {NoGame} \union Games]]
    BY <1>7, <2>2 DEF Seed, TypeOK
  <2>4. QED BY <1>7, <2>1, <2>3 DEF Seed, TypeOK, table, insert
<1>8. ASSUME NEW t \in Tournaments, NEW f \in Fitnesses, Champion(t, f) PROVE TypeOK'
  <2>1. 1 \in Slots /\ t \in Promoters BY DEF Slots, Promoters
  <2>2. games[t][1] \in Games BY <1>8, <2>1 DEF Champion, TypeOK
  <2>3. games[t][1].head \in Versions \union {None} BY <2>2 DEF Games
  <2>4. base[t] \in Versions \union {None} /\ local[t] + 1 \in Nat /\ f \in Int
    <3>1. base[t] \in Versions \union {None} /\ local[t] \in Nat \union {-1} BY <2>1 DEF TypeOK
    <3>2. local[t] + 1 \in Nat BY <3>1
    <3>3. QED BY <3>1, <3>2
  <2>5. Create(base[t], local[t] + 1, f, games[t][1].head) BY <1>8 DEF Champion
  <2>6. /\ created' \in 0..MaxVersions /\ created' \in Versions
        /\ parent' \in [Versions -> Versions \union {None}]
        /\ gen' \in [Versions -> Nat] /\ fit' \in [Versions -> Int]
        /\ began' \in [Versions -> Versions \union {None}]
        /\ status' \in [Versions -> {"none", "pending", "lost", "active", "archived"}]
    BY <2>3, <2>4, <2>5, CreateTyped
  <2>7. queue' \in [Promoters -> Seq(Versions)]
        /\ games' \in [Promoters -> [Slots -> {NoGame} \union Games]]
    <3>1. queue[t] \in Seq(Versions) BY <2>1 DEF TypeOK
    <3>2. Append(queue[t], created') \in Seq(Versions) BY <2>6, <3>1
    <3>3. queue' \in [Promoters -> Seq(Versions)] BY <1>8, <3>2 DEF Champion, TypeOK
    <3>4. QED BY <1>8, <2>1, <3>3 DEF Champion, TypeOK
  <2>8. QED BY <1>8, <2>6, <2>7 DEF Champion, TypeOK, insert
<1>9. ASSUME NEW p \in Promoters, InsertArchived(p) PROVE TypeOK'
  <2>1. queue[p] \in Seq(Versions) /\ queue[p] # <<>>
    BY <1>9 DEF InsertArchived, Ready, TypeOK
  <2>2. Tail(queue[p]) \in Seq(Versions) BY <2>1
  <2>3. queue' \in [Promoters -> Seq(Versions)] BY <1>9, <2>2 DEF InsertArchived, Done, TypeOK
  <2>4. status' \in [Versions -> {"none", "pending", "lost", "active", "archived"}]
    BY <1>9 DEF InsertArchived, TypeOK
  <2>5. seen' \in [Promoters -> Versions \union {None, Unread}]
    BY <1>9 DEF InsertArchived, Done, TypeOK
  <2>6. QED BY <1>9, <2>3, <2>4, <2>5 DEF InsertArchived, TypeOK, table, runner
<1>10. ASSUME NEW p \in Promoters, Lock(p) PROVE TypeOK'
  BY <1>10 DEF Lock, TypeOK, table, runner
<1>11. ASSUME NEW p \in Promoters, ArchiveOld(p) PROVE TypeOK'
  BY <1>11 DEF ArchiveOld, TypeOK, table, runner, Active
<1>12. ASSUME NEW p \in Promoters, Commit(p) PROVE TypeOK'
  BY <1>12 DEF Commit, Done, TypeOK, table, runner
<1>13. ASSUME NEW p \in Promoters, Restart(p) PROVE TypeOK'
  <2>1. /\ base' \in [Promoters -> Versions \union {None}]
        /\ local' \in [Promoters -> Nat \union {-1}] /\ \A q \in Runners : local'[q] \in Nat
    BY <1>13, <1>h DEF Restart, TypeOK, Promoters
  <2>2. /\ games' \in [Promoters -> [Slots -> {NoGame} \union Games]]
        /\ restarts' \in 0..MaxRestarts
    BY <1>13 DEF Restart, TypeOK
  <2>3. /\ status' \in [Versions -> {"none", "pending", "lost", "active", "archived"}]
        /\ buffer' \in [Promoters -> Seq(Versions)] /\ queue' \in [Promoters -> Seq(Versions)]
    BY <1>13 DEF Restart, TypeOK
  <2>4. QED BY <1>13, <2>1, <2>2, <2>3 DEF Restart, TypeOK, table
<1>14. CASE UNCHANGED vars
  BY <1>14 DEF vars, table, runner, insert, TypeOK
<1>15. QED
  BY <1>1, <1>2, <1>3, <1>4, <1>5, <1>6, <1>7, <1>8, <1>9, <1>10, <1>11, <1>12, <1>13, <1>14
     DEF Next, RunnerStep, TournamentStep, Insert

-----------------------------------------------------------------------------
(* Sequences of versions *)

Elems(s) == {s[i] : i \in DOMAIN s}

(* Appending a version newer than all of them keeps the order. *)
LEMMA AppendNewest ==
  ASSUME NEW s \in Seq(Versions), NEW x \in Versions, Increasing(s), \A y \in Elems(s) : y < x
  PROVE  /\ Append(s, x) \in Seq(Versions) /\ Append(s, x) # <<>>
         /\ Increasing(Append(s, x))
         /\ Elems(Append(s, x)) = Elems(s) \union {x}
<1>1. /\ Append(s, x) \in Seq(Versions) /\ Len(Append(s, x)) = Len(s) + 1
      /\ DOMAIN Append(s, x) = 1..Len(s) + 1 /\ DOMAIN s = 1..Len(s) /\ Len(s) \in Nat
      /\ Append(s, x)[Len(s) + 1] = x
      /\ \A i \in 1..Len(s) : Append(s, x)[i] = s[i]
  OBVIOUS
<1>2. Elems(Append(s, x)) = Elems(s) \union {x} BY <1>1 DEF Elems
<1>3. Increasing(Append(s, x))
  <2> SUFFICES ASSUME NEW i \in 1..Len(s) + 1, NEW j \in 1..Len(s) + 1, i < j
               PROVE  Append(s, x)[i] < Append(s, x)[j]
    BY <1>1 DEF Increasing
  <2>1. i \in 1..Len(s) /\ s[i] \in Elems(s) BY <1>1 DEF Elems
  <2>2. QED BY <1>1, <2>1 DEF Increasing
<1>4. QED BY <1>1, <1>2, <1>3

(* Taking the oldest leaves only newer ones. *)
LEMMA TakeOldest ==
  ASSUME NEW s \in Seq(Versions), s # <<>>, Increasing(s)
  PROVE  /\ Head(s) \in Elems(s) /\ Head(s) \in Versions
         /\ Tail(s) \in Seq(Versions) /\ Increasing(Tail(s))
         /\ Elems(Tail(s)) \subseteq Elems(s) /\ Head(s) \notin Elems(Tail(s))
<1>1. /\ Len(s) \in Nat /\ Len(s) >= 1 /\ DOMAIN s = 1..Len(s) /\ Head(s) = s[1]
      /\ Tail(s) \in Seq(Versions) /\ DOMAIN Tail(s) = 1..Len(s) - 1
      /\ \A i \in 1..Len(s) - 1 : Tail(s)[i] = s[i + 1]
  OBVIOUS
<1>2. Head(s) \in Elems(s) /\ Head(s) \in Versions BY <1>1 DEF Elems
<1>3. \A i \in 1..Len(s) - 1 : i + 1 \in 1..Len(s) BY <1>1
<1>4. Elems(Tail(s)) \subseteq Elems(s) BY <1>1, <1>3 DEF Elems
<1>5. Increasing(Tail(s))
  <2> SUFFICES ASSUME NEW i \in 1..Len(s) - 1, NEW j \in 1..Len(s) - 1, i < j
               PROVE  Tail(s)[i] < Tail(s)[j]
    BY <1>1 DEF Increasing
  <2>1. i + 1 \in 1..Len(s) /\ j + 1 \in 1..Len(s) /\ i + 1 < j + 1 BY <1>1
  <2>2. s[i + 1] < s[j + 1] BY <1>1, <2>1 DEF Increasing
  <2>3. QED BY <1>1, <2>2
<1>6. Head(s) \notin Elems(Tail(s))
  <2> SUFFICES ASSUME NEW i \in 1..Len(s) - 1 PROVE Tail(s)[i] # Head(s)
    BY <1>1 DEF Elems
  <2>1. 1 \in 1..Len(s) /\ i + 1 \in 1..Len(s) /\ 1 < i + 1 BY <1>1
  <2>2. s[1] < s[i + 1] BY <1>1, <2>1 DEF Increasing
  <2>3. s[1] \in Int /\ s[i + 1] \in Int
    <3>1. s[1] \in Versions /\ s[i + 1] \in Versions BY <1>1, <2>1
    <3>2. QED BY <3>1 DEF Versions
  <2>4. QED BY <1>1, <2>2, <2>3
<1>7. QED BY <1>1, <1>2, <1>4, <1>5, <1>6

(* An older sequence followed by a newer one is in order. *)
LEMMA OlderThenNewer ==
  ASSUME NEW s \in Seq(Versions), NEW u \in Seq(Versions), Increasing(s), Increasing(u),
         \A i \in DOMAIN s, j \in DOMAIN u : s[i] < u[j]
  PROVE  /\ s \o u \in Seq(Versions) /\ Increasing(s \o u)
         /\ Elems(s \o u) = Elems(s) \union Elems(u)
         /\ (s # <<>> => s \o u # <<>>)
<1>1. /\ s \o u \in Seq(Versions) /\ Len(s) \in Nat /\ Len(u) \in Nat
      /\ DOMAIN s = 1..Len(s) /\ DOMAIN u = 1..Len(u) /\ DOMAIN (s \o u) = 1..Len(s) + Len(u)
      /\ \A i \in 1..Len(s) : (s \o u)[i] = s[i]
      /\ \A i \in 1..Len(s) + Len(u) : i > Len(s) => (s \o u)[i] = u[i - Len(s)]
  OBVIOUS
<1>2. \A i \in 1..Len(s) + Len(u) : i > Len(s) => i - Len(s) \in 1..Len(u) BY <1>1
<1>3. \A j \in 1..Len(u) : j + Len(s) \in 1..Len(s) + Len(u) /\ (s \o u)[j + Len(s)] = u[j]
  BY <1>1
<1>4. Elems(s \o u) = Elems(s) \union Elems(u)
  <2>1. ASSUME NEW y \in Elems(s \o u) PROVE y \in Elems(s) \union Elems(u)
    <3>1. PICK i \in 1..Len(s) + Len(u) : y = (s \o u)[i] BY <1>1, <2>1 DEF Elems
    <3>2. CASE i <= Len(s) BY <1>1, <3>1, <3>2 DEF Elems
    <3>3. CASE i > Len(s) BY <1>1, <1>2, <3>1, <3>3 DEF Elems
    <3>4. QED BY <1>1, <3>1, <3>2, <3>3
  <2>2. ASSUME NEW y \in Elems(s) PROVE y \in Elems(s \o u)
    <3>1. PICK i \in 1..Len(s) : y = s[i] BY <1>1, <2>2 DEF Elems
    <3>2. i \in 1..Len(s) + Len(u) BY <1>1
    <3>3. QED BY <1>1, <3>1, <3>2 DEF Elems
  <2>3. ASSUME NEW y \in Elems(u) PROVE y \in Elems(s \o u)
    <3>1. PICK j \in 1..Len(u) : y = u[j] BY <1>1, <2>3 DEF Elems
    <3>2. QED BY <1>1, <1>3, <3>1 DEF Elems
  <2>4. QED BY <2>1, <2>2, <2>3
<1>5. Increasing(s \o u)
  <2> SUFFICES ASSUME NEW i \in 1..Len(s) + Len(u), NEW j \in 1..Len(s) + Len(u), i < j
               PROVE  (s \o u)[i] < (s \o u)[j]
    BY <1>1 DEF Increasing
  <2>1. CASE j <= Len(s) BY <1>1, <2>1 DEF Increasing
  <2>2. CASE i <= Len(s) /\ j > Len(s) BY <1>1, <1>2, <2>2
  <2>3. CASE i > Len(s)
    <3>1. i - Len(s) \in 1..Len(u) /\ j - Len(s) \in 1..Len(u) /\ i - Len(s) < j - Len(s)
      BY <1>1, <1>2, <2>3
    <3>2. u[i - Len(s)] < u[j - Len(s)] BY <1>1, <3>1 DEF Increasing
    <3>3. QED BY <1>1, <2>3, <3>2
  <2>4. QED BY <1>1, <2>1, <2>2, <2>3
<1>6. s # <<>> => s \o u # <<>>
  <2> SUFFICES ASSUME s # <<>> PROVE Len(s \o u) # 0 OBVIOUS
  <2>1. Len(s) # 0 OBVIOUS
  <2>2. QED BY <1>1, <2>1
<1>7. QED BY <1>1, <1>4, <1>5, <1>6

-----------------------------------------------------------------------------
(* The step *)

(* A step that leaves the versions in memory alone keeps them in order,     *)
(* in one place, ...                                                        *)
LEMMA SameMemory ==
  ASSUME UNCHANGED <<buffer, queue>>, InOrder, OneOwner
  PROVE  InOrder' /\ OneOwner' /\ \A p \in Promoters : InMemory(p)' = InMemory(p)
<1>1. \A p \in Promoters : InMemory(p)' = InMemory(p) BY DEF InMemory
<1>2. OneOwner' BY <1>1 DEF OneOwner
<1>3. InOrder' BY DEF InOrder, Increasing
<1>4. QED BY <1>1, <1>2, <1>3

(* ... and pending, if it leaves the rows alone too.                        *)
LEMMA SameRows ==
  ASSUME UNCHANGED <<created, status, buffer, queue>>, AtMostOneActive, InOrder, OneOwner, PendingInMemory
  PROVE  /\ Active' = Active
         /\ AtMostOneActive' /\ InOrder' /\ OneOwner' /\ PendingInMemory'
<1>1. InOrder' /\ OneOwner' /\ \A p \in Promoters : InMemory(p)' = InMemory(p) BY SameMemory
<1>2. PendingInMemory' BY <1>1 DEF PendingInMemory
<1>3. Active' = Active BY DEF Active
<1>4. AtMostOneActive' BY <1>3 DEF AtMostOneActive
<1>5. QED BY <1>1, <1>2, <1>3, <1>4

(* Hence a step that touches neither keeps the whole bookkeeping.           *)
LEMMA Frame ==
  ASSUME AtMostOneActive, Bookkeeping, UNCHANGED <<created, status, buffer, queue, tx, doomed>>
  PROVE  AtMostOneActive' /\ Bookkeeping'
<1>1. /\ Active' = Active
      /\ AtMostOneActive' /\ InOrder' /\ OneOwner' /\ PendingInMemory'
  BY SameRows DEF Bookkeeping
<1>2. OnePromotion' BY DEF Bookkeeping, OnePromotion
<1>3. DoomedIsActive' BY <1>1 DEF Bookkeeping, DoomedIsActive
<1>4. QED BY <1>1, <1>2, <1>3 DEF Bookkeeping

(* The versions in memory, as the elements of the two sequences. *)
LEMMA InMemoryElems == \A p \in Promoters : InMemory(p) = Elems(buffer[p]) \union Elems(queue[p])
BY DEF InMemory, Elems

(* A new version is in nobody's memory yet and is newer than all that are. *)
LEMMA NewVersion ==
  ASSUME IInv, created' = created + 1, created' \in Versions
  PROVE  \A p \in Promoters : \A v \in InMemory(p) : v \in Versions /\ v < created'
<1> SUFFICES ASSUME NEW p \in Promoters, NEW v \in InMemory(p)
             PROVE  v \in Versions /\ v < created'
  OBVIOUS
<1>1. v \in Versions BY DEF InMemory, IInv, TypeOK
<1>2. status[v] = "pending" BY DEF IInv, Bookkeeping, PendingInMemory
<1>3. ~(v > created) BY <1>1, <1>2 DEF IInv, Bookkeeping, PendingInMemory
<1>4. QED BY <1>1, <1>3 DEF IInv, TypeOK, Versions

(* Taking the oldest version off a queue leaves the rest pending, in one    *)
(* place and in order.                                                      *)
LEMMA PopKeepsMemory ==
  ASSUME IInv, NEW p \in Promoters, queue[p] # <<>>,
         queue' = [queue EXCEPT ![p] = Tail(@)], UNCHANGED <<created, buffer>>,
         \A v \in Versions : v # Head(queue[p]) /\ status[v] \in {"pending", "none"}
                             => status'[v] = status[v]
  PROVE  /\ Head(queue[p]) \in Versions /\ status[Head(queue[p])] = "pending"
         /\ PendingInMemory' /\ OneOwner' /\ InOrder'
<1> DEFINE work == Head(queue[p])
<1>1. queue[p] \in Seq(Versions) /\ Increasing(queue[p]) BY DEF IInv, TypeOK, Bookkeeping, InOrder
<1>2. /\ work \in Elems(queue[p]) /\ work \in Versions /\ Tail(queue[p]) \in Seq(Versions)
      /\ Increasing(Tail(queue[p])) /\ Elems(Tail(queue[p])) \subseteq Elems(queue[p])
      /\ work \notin Elems(Tail(queue[p]))
  BY <1>1, TakeOldest
<1>3. work \in InMemory(p) /\ status[work] = "pending"
  BY <1>2, InMemoryElems DEF IInv, Bookkeeping, PendingInMemory
<1>4. /\ queue'[p] = Tail(queue[p]) /\ buffer' = buffer
      /\ \A q \in Promoters : q # p => queue'[q] = queue[q]
  BY DEF IInv, TypeOK
<1>5. work \notin Elems(buffer[p])
  <2> SUFFICES ASSUME NEW j \in DOMAIN buffer[p], buffer[p][j] = work PROVE FALSE BY DEF Elems
  <2>1. PICK i \in DOMAIN queue[p] : queue[p][i] = work BY <1>2 DEF Elems
  <2>2. work < work BY <2>1 DEF IInv, Bookkeeping, InOrder
  <2>3. QED BY <1>2, <2>2 DEF Versions
<1>6. \A q \in Promoters : InMemory(q)' \subseteq InMemory(q) /\ work \notin InMemory(q)'
  <2>1. \A q \in Promoters : InMemory(q)' = Elems(buffer'[q]) \union Elems(queue'[q])
    BY DEF InMemory, Elems
  <2>2. \A q \in Promoters : q # p => work \notin InMemory(q)
    BY <1>3 DEF IInv, Bookkeeping, OneOwner
  <2>3. QED BY <1>2, <1>4, <1>5, <2>1, <2>2, InMemoryElems
<1>7. OneOwner' BY <1>6 DEF IInv, Bookkeeping, OneOwner
<1>8. PendingInMemory'
  <2>1. ASSUME NEW q \in Promoters, NEW v \in InMemory(q)' PROVE status'[v] = "pending"
    <3>1. v \in InMemory(q) /\ v # work BY <1>6
    <3>2. v \in Versions /\ status[v] = "pending"
      BY <3>1, SMTT(30) DEF InMemory, IInv, TypeOK, Bookkeeping, PendingInMemory
    <3>3. QED BY <3>1, <3>2
  <2>2. ASSUME NEW v \in Versions, v > created' PROVE status'[v] = "none"
    <3>1. status[v] = "none" BY <2>2 DEF IInv, Bookkeeping, PendingInMemory
    <3>2. v # work BY <1>3, <3>1
    <3>3. QED BY <3>1, <3>2
  <2>3. QED BY <2>1, <2>2 DEF PendingInMemory
<1>9. InOrder'
  <2>1. ASSUME NEW q \in Promoters
        PROVE  /\ Increasing(queue'[q]) /\ Increasing(buffer'[q])
               /\ \A i \in DOMAIN queue'[q], j \in DOMAIN buffer'[q] : queue'[q][i] < buffer'[q][j]
               /\ q \in Tournaments => buffer'[q] = <<>>
    <3>1. CASE q # p BY <1>4, <3>1 DEF IInv, Bookkeeping, InOrder
    <3>2. CASE q = p
      <4>1. ASSUME NEW i \in DOMAIN queue'[p], NEW j \in DOMAIN buffer[p]
            PROVE  queue'[p][i] < buffer[p][j]
        <5>1. queue'[p][i] \in Elems(queue[p]) BY <1>2, <1>4 DEF Elems
        <5>2. PICK k \in DOMAIN queue[p] : queue[p][k] = queue'[p][i] BY <5>1 DEF Elems
        <5>3. QED BY <5>2 DEF IInv, Bookkeeping, InOrder
      <4>2. QED BY <1>2, <1>4, <3>2, <4>1 DEF IInv, Bookkeeping, InOrder
    <3>3. QED BY <3>1, <3>2
  <2>2. QED BY <2>1 DEF InOrder, Increasing
<1>10. QED BY <1>2, <1>3, <1>7, <1>8, <1>9

(* One step keeps the books. *)
LEMMA BookkeepingStep ==
  ASSUME IInv, [Next]_vars
  PROVE  AtMostOneActive' /\ Bookkeeping'
<1> USE PromotionAssumption
<1>1. ASSUME NEW r \in Runners, NEW s \in Slots, StartGame(r, s) \/ LoadHead(r, s) \/ CompleteGame(r, s)
      PROVE  AtMostOneActive' /\ Bookkeeping'
  BY <1>1, Frame DEF StartGame, LoadHead, CompleteGame, table, insert, IInv
<1>2. ASSUME NEW r \in Runners, ReadHead(r) PROVE AtMostOneActive' /\ Bookkeeping'
  BY <1>2, Frame DEF ReadHead, table, IInv
<1>3. ASSUME NEW t \in Tournaments, Seed(t) PROVE AtMostOneActive' /\ Bookkeeping'
  BY <1>3, Frame DEF Seed, table, insert, IInv
<1>4. ASSUME UNCHANGED vars PROVE AtMostOneActive' /\ Bookkeeping'
  BY <1>4, Frame DEF vars, table, insert, IInv
<1>5. ASSUME NEW r \in Runners, NEW s \in Slots, NEW f \in Fitnesses, Learn(r, s, f)
      PROVE  AtMostOneActive' /\ Bookkeeping'
  <2>1. /\ created' = created + 1 /\ created' \in Versions /\ r \in Promoters
        /\ status' = [status EXCEPT ![created'] = "pending"]
        /\ buffer' = [buffer EXCEPT ![r] = Append(@, created')]
        /\ UNCHANGED <<queue, tx, doomed>>
    BY <1>5 DEF Learn, Create, IInv, TypeOK, Versions, insert, Promoters
  <2>2. \A p \in Promoters : \A v \in InMemory(p) : v \in Versions /\ v < created'
    BY <2>1, NewVersion
  <2>3. /\ Append(buffer[r], created') \in Seq(Versions)
        /\ Increasing(Append(buffer[r], created'))
        /\ Elems(Append(buffer[r], created')) = Elems(buffer[r]) \union {created'}
    <3>1. buffer[r] \in Seq(Versions) /\ Increasing(buffer[r])
      BY <2>1 DEF IInv, TypeOK, Bookkeeping, InOrder
    <3>2. \A y \in Elems(buffer[r]) : y < created' BY <2>1, <2>2, InMemoryElems
    <3>3. QED BY <2>1, <3>1, <3>2, AppendNewest
  <2>4. \A p \in Promoters : InMemory(p)' = InMemory(p) \union (IF p = r THEN {created'} ELSE {})
    <3>1. \A p \in Promoters : InMemory(p)' = Elems(buffer'[p]) \union Elems(queue'[p])
      BY DEF InMemory, Elems
    <3>2. QED BY <2>1, <2>3, <3>1, InMemoryElems DEF IInv, TypeOK
  <2>5. status[created'] = "none" BY <2>1 DEF IInv, Bookkeeping, PendingInMemory, TypeOK
  <2>6. Active' = Active BY <2>1, <2>5 DEF Active, IInv, TypeOK
  <2>7. AtMostOneActive' /\ OnePromotion' /\ DoomedIsActive'
    BY <2>1, <2>6 DEF IInv, Bookkeeping, AtMostOneActive, OnePromotion, DoomedIsActive
  <2>8. PendingInMemory'
    BY <2>1, <2>2, <2>4 DEF IInv, TypeOK, Bookkeeping, PendingInMemory, Versions
  <2>9. OneOwner'
    <3>1. \A p \in Promoters : created' \notin InMemory(p) BY <2>1, <2>2 DEF IInv, TypeOK
    <3>2. QED BY <2>4, <3>1 DEF IInv, Bookkeeping, OneOwner
  <2>10. InOrder'
    <3>1. ASSUME NEW p \in Promoters, p # r
          PROVE  /\ Increasing(queue'[p]) /\ Increasing(buffer'[p])
                 /\ \A i \in DOMAIN queue'[p], j \in DOMAIN buffer'[p] : queue'[p][i] < buffer'[p][j]
      BY <2>1, <3>1 DEF IInv, TypeOK, Bookkeeping, InOrder
    <3>2. ASSUME NEW i \in DOMAIN queue'[r], NEW j \in DOMAIN buffer'[r]
          PROVE  queue'[r][i] < buffer'[r][j]
      <4>1. buffer'[r] = Append(buffer[r], created') /\ queue'[r] = queue[r]
        BY <2>1 DEF IInv, TypeOK
      <4>2. buffer'[r][j] \in Elems(buffer[r]) \union {created'} BY <2>3, <4>1 DEF Elems
      <4>3. CASE buffer'[r][j] \in Elems(buffer[r])
        BY <2>1, <4>1, <4>3 DEF Elems, IInv, Bookkeeping, InOrder
      <4>4. CASE buffer'[r][j] = created'
        BY <2>1, <2>2, <4>1, <4>4 DEF InMemory
      <4>5. QED BY <4>2, <4>3, <4>4
    <3>3. Increasing(queue'[r]) /\ Increasing(buffer'[r])
      BY <2>1, <2>3 DEF IInv, TypeOK, Bookkeeping, InOrder
    <3>4. \A p \in Tournaments : buffer'[p] = <<>>
      BY <2>1 DEF IInv, TypeOK, Bookkeeping, InOrder, Promoters
    <3>5. QED BY <3>1, <3>2, <3>3, <3>4 DEF InOrder, Increasing
  <2>11. QED BY <2>7, <2>8, <2>9, <2>10 DEF Bookkeeping
<1>6. ASSUME NEW t \in Tournaments, NEW f \in Fitnesses, Champion(t, f)
      PROVE  AtMostOneActive' /\ Bookkeeping'
  <2>1. /\ created' = created + 1 /\ created' \in Versions /\ t \in Promoters
        /\ status' = [status EXCEPT ![created'] = "pending"]
        /\ queue' = [queue EXCEPT ![t] = Append(@, created')]
        /\ UNCHANGED <<buffer, tx, doomed>> /\ buffer[t] = <<>>
    BY <1>6 DEF Champion, Create, IInv, TypeOK, Versions, insert, Promoters, Bookkeeping, InOrder
  <2>2. \A p \in Promoters : \A v \in InMemory(p) : v \in Versions /\ v < created'
    BY <2>1, NewVersion
  <2>3. /\ Append(queue[t], created') \in Seq(Versions) /\ Append(queue[t], created') # <<>>
        /\ Increasing(Append(queue[t], created'))
        /\ Elems(Append(queue[t], created')) = Elems(queue[t]) \union {created'}
    <3>1. queue[t] \in Seq(Versions) /\ Increasing(queue[t])
      BY <2>1 DEF IInv, TypeOK, Bookkeeping, InOrder
    <3>2. \A y \in Elems(queue[t]) : y < created' BY <2>1, <2>2, InMemoryElems
    <3>3. QED BY <2>1, <3>1, <3>2, AppendNewest
  <2>4. \A p \in Promoters : InMemory(p)' = InMemory(p) \union (IF p = t THEN {created'} ELSE {})
    <3>1. \A p \in Promoters : InMemory(p)' = Elems(buffer'[p]) \union Elems(queue'[p])
      BY DEF InMemory, Elems
    <3>2. QED BY <2>1, <2>3, <3>1, InMemoryElems DEF IInv, TypeOK
  <2>5. status[created'] = "none" BY <2>1 DEF IInv, Bookkeeping, PendingInMemory, TypeOK
  <2>6. Active' = Active BY <2>1, <2>5 DEF Active, IInv, TypeOK
  <2>7. AtMostOneActive' /\ OnePromotion' BY <2>1, <2>6 DEF IInv, Bookkeeping, AtMostOneActive, OnePromotion
  <2>8. DoomedIsActive' BY <2>1, <2>3, <2>6 DEF IInv, TypeOK, Bookkeeping, DoomedIsActive
  <2>9. PendingInMemory'
    <3>1. status'[created'] = "pending" /\ \A v \in Versions : v # created' => status'[v] = status[v]
      BY <2>1 DEF IInv, TypeOK
    <3>2. \A p \in Promoters : \A v \in InMemory(p)' : status'[v] = "pending"
      BY <2>2, <2>4, <3>1 DEF IInv, Bookkeeping, PendingInMemory
    <3>3. \A v \in Versions : v > created' => status'[v] = "none"
      BY <2>1, <3>1 DEF IInv, TypeOK, Bookkeeping, PendingInMemory, Versions
    <3>4. QED BY <3>2, <3>3 DEF PendingInMemory
  <2>10. OneOwner'
    <3>1. \A p \in Promoters : created' \notin InMemory(p) BY <2>1, <2>2 DEF IInv, TypeOK
    <3>2. QED BY <2>4, <3>1 DEF IInv, Bookkeeping, OneOwner
  <2>11. InOrder' BY <2>1, <2>3 DEF IInv, TypeOK, Bookkeeping, InOrder, Increasing
  <2>12. QED BY <2>7, <2>8, <2>9, <2>10, <2>11 DEF Bookkeeping
<1>7. ASSUME NEW r \in Runners, Flush(r) PROVE AtMostOneActive' /\ Bookkeeping'
  <2>1. /\ r \in Promoters /\ queue' = [queue EXCEPT ![r] = @ \o buffer[r]]
        /\ buffer' = [buffer EXCEPT ![r] = <<>>]
        /\ UNCHANGED <<created, status, tx, doomed>>
    BY <1>7 DEF Flush, table, insert, Promoters
  <2>2. /\ queue[r] \o buffer[r] \in Seq(Versions) /\ Increasing(queue[r] \o buffer[r])
        /\ Elems(queue[r] \o buffer[r]) = Elems(queue[r]) \union Elems(buffer[r])
        /\ queue[r] # <<>> => queue[r] \o buffer[r] # <<>>
    BY <2>1, OlderThenNewer DEF IInv, TypeOK, Bookkeeping, InOrder
  <2>3. \A p \in Promoters : InMemory(p)' = InMemory(p)
    <3>1. Elems(<<>>) = {} BY DEF Elems
    <3>2. \A p \in Promoters : InMemory(p)' = Elems(buffer'[p]) \union Elems(queue'[p])
      BY DEF InMemory, Elems
    <3>3. QED BY <2>1, <2>2, <3>1, <3>2, InMemoryElems DEF IInv, TypeOK
  <2>4. AtMostOneActive' /\ OnePromotion' /\ PendingInMemory' /\ OneOwner'
    BY <2>1, <2>3 DEF IInv, Bookkeeping, AtMostOneActive, OnePromotion, PendingInMemory, OneOwner, Active
  <2>5. DoomedIsActive' BY <2>1, <2>2 DEF IInv, TypeOK, Bookkeeping, DoomedIsActive, Active
  <2>6. InOrder'
    <3>1. /\ queue'[r] = queue[r] \o buffer[r] /\ buffer'[r] = <<>>
          /\ \A p \in Promoters : p # r => queue'[p] = queue[p] /\ buffer'[p] = buffer[p]
      BY <2>1 DEF IInv, TypeOK
    <3>2. DOMAIN buffer'[r] = {} /\ Increasing(buffer'[r]) BY <3>1 DEF Increasing
    <3>3. Increasing(queue'[r]) BY <2>2, <3>1
    <3>4. ASSUME NEW p \in Promoters, p # r
          PROVE  /\ Increasing(queue'[p]) /\ Increasing(buffer'[p])
                 /\ \A i \in DOMAIN queue'[p], j \in DOMAIN buffer'[p] : queue'[p][i] < buffer'[p][j]
                 /\ p \in Tournaments => buffer'[p] = <<>>
      BY <3>1, <3>4 DEF IInv, Bookkeeping, InOrder
    <3>5. QED BY <3>1, <3>2, <3>3, <3>4 DEF InOrder, Increasing
  <2>7. QED BY <2>4, <2>5, <2>6 DEF Bookkeeping
<1>8. ASSUME NEW p \in Promoters, Lock(p) PROVE AtMostOneActive' /\ Bookkeeping'
  <2>1. /\ queue[p] # <<>> /\ \A q \in Promoters : tx[q] = "idle"
        /\ tx' = [tx EXCEPT ![p] = "locked"]
        /\ UNCHANGED <<created, status, buffer, queue, doomed>>
    BY <1>8 DEF Lock, Ready, table
  <2>2. OnePromotion' BY <2>1 DEF OnePromotion, IInv, TypeOK
  <2>3. DoomedIsActive' BY <2>1 DEF DoomedIsActive, IInv, TypeOK
  <2>4. AtMostOneActive' /\ PendingInMemory' /\ OneOwner' /\ InOrder'
    BY <2>1, SameRows DEF IInv, Bookkeeping
  <2>5. QED BY <2>2, <2>3, <2>4 DEF Bookkeeping
<1>9. ASSUME NEW p \in Promoters, ArchiveOld(p) PROVE AtMostOneActive' /\ Bookkeeping'
  <2>1. /\ tx[p] = "locked" /\ tx' = [tx EXCEPT ![p] = "archived"]
        /\ doomed' = [doomed EXCEPT ![p] = Active]
        /\ UNCHANGED <<created, status, buffer, queue>>
    BY <1>9 DEF ArchiveOld, table
  <2>2. OnePromotion' BY <2>1 DEF OnePromotion, IInv, TypeOK, Bookkeeping
  <2>3. Active' = Active BY <2>1 DEF Active
  <2>4. DoomedIsActive' BY <2>1, <2>3 DEF DoomedIsActive, IInv, TypeOK, Bookkeeping
  <2>5. AtMostOneActive' /\ PendingInMemory' /\ OneOwner' /\ InOrder'
    BY <2>1, SameRows DEF IInv, Bookkeeping
  <2>6. QED BY <2>2, <2>4, <2>5 DEF Bookkeeping
<1>10. ASSUME NEW p \in Promoters, InsertArchived(p) PROVE AtMostOneActive' /\ Bookkeeping'
  <2>1. /\ queue[p] # <<>> /\ tx[p] = "idle"
        /\ queue' = [queue EXCEPT ![p] = Tail(@)]
        /\ status' = [status EXCEPT ![Head(queue[p])] = "archived"]
        /\ UNCHANGED <<created, buffer, tx, doomed>>
    BY <1>10 DEF InsertArchived, Ready, Done, Work, table
  <2>2. OnePromotion' BY <2>1 DEF IInv, Bookkeeping, OnePromotion
  <2>3. /\ Head(queue[p]) \in Versions /\ status[Head(queue[p])] = "pending"
        /\ PendingInMemory' /\ OneOwner' /\ InOrder'
    BY <2>1, PopKeepsMemory DEF IInv, TypeOK
  <2>4. Active' = Active BY <2>1, <2>3 DEF Active, IInv, TypeOK
  <2>5. AtMostOneActive' BY <2>4 DEF IInv, AtMostOneActive
  <2>6. DoomedIsActive' BY <2>1, <2>4 DEF IInv, TypeOK, Bookkeeping, DoomedIsActive
  <2>7. QED BY <2>2, <2>3, <2>5, <2>6 DEF Bookkeeping
<1>11. ASSUME NEW p \in Promoters, Commit(p) PROVE AtMostOneActive' /\ Bookkeeping'
  <2>1. /\ tx[p] = "archived" /\ queue[p] # <<>> /\ doomed[p] = Active
        /\ queue' = [queue EXCEPT ![p] = Tail(@)]
        /\ status' = [v \in Versions |->
             IF v = Head(queue[p]) THEN "active" ELSE IF v \in Active THEN "archived" ELSE status[v]]
        /\ tx' = [tx EXCEPT ![p] = "idle"] /\ UNCHANGED <<created, buffer>>
    BY <1>11 DEF Commit, Done, Work, table, IInv, Bookkeeping, DoomedIsActive
  <2>2. \A q \in Promoters : tx'[q] = "idle"
    BY <2>1 DEF IInv, TypeOK, Bookkeeping, OnePromotion
  <2>3. OnePromotion' /\ DoomedIsActive' BY <2>2 DEF OnePromotion, DoomedIsActive
  <2>4. \A v \in Versions : v # Head(queue[p]) /\ status[v] \in {"pending", "none"}
                            => status'[v] = status[v]
    BY <2>1 DEF Active
  <2>5. PendingInMemory' /\ OneOwner' /\ InOrder' BY <2>1, <2>4, PopKeepsMemory
  <2>6. AtMostOneActive' BY <2>1 DEF AtMostOneActive, Active
  <2>7. QED BY <2>3, <2>5, <2>6 DEF Bookkeeping
<1>12. ASSUME NEW p \in Promoters, Restart(p) PROVE AtMostOneActive' /\ Bookkeeping'
  <2>1. /\ status' = [v \in Versions |-> IF v \in InMemory(p) THEN "lost" ELSE status[v]]
        /\ buffer' = [buffer EXCEPT ![p] = <<>>] /\ queue' = [queue EXCEPT ![p] = <<>>]
        /\ tx' = [tx EXCEPT ![p] = "idle"] /\ doomed' = [doomed EXCEPT ![p] = {}]
        /\ UNCHANGED created
    BY <1>12 DEF Restart, table
  <2>2. /\ queue'[p] = <<>> /\ buffer'[p] = <<>> /\ tx'[p] = "idle"
        /\ \A q \in Promoters : q # p =>
             queue'[q] = queue[q] /\ buffer'[q] = buffer[q] /\ tx'[q] = tx[q] /\ doomed'[q] = doomed[q]
    BY <2>1 DEF IInv, TypeOK
  <2>3. InMemory(p)' = {} /\ \A q \in Promoters : q # p => InMemory(q)' = InMemory(q)
    BY <2>2 DEF InMemory
  <2>4. \A v \in InMemory(p) : v \in Versions /\ status[v] = "pending"
    BY DEF InMemory, IInv, TypeOK, Bookkeeping, PendingInMemory
  <2>5. Active' = Active BY <2>1, <2>4 DEF Active
  <2>6. AtMostOneActive' BY <2>5 DEF IInv, AtMostOneActive
  <2>7. OnePromotion' BY <2>2 DEF IInv, Bookkeeping, OnePromotion
  <2>8. DoomedIsActive' BY <2>2, <2>5 DEF IInv, Bookkeeping, DoomedIsActive
  <2>9. OneOwner' BY <2>3 DEF IInv, Bookkeeping, OneOwner
  <2>10. PendingInMemory'
    <3>1. ASSUME NEW q \in Promoters, NEW v \in InMemory(q)' PROVE status'[v] = "pending"
      <4>1. q # p /\ v \in InMemory(q) BY <2>3, <3>1
      <4>2. v \in Versions /\ v \notin InMemory(p) /\ status[v] = "pending"
        <5>1. v \in Versions BY <4>1 DEF InMemory, IInv, TypeOK
        <5>2. InMemory(p) \intersect InMemory(q) = {} BY <4>1 DEF IInv, Bookkeeping, OneOwner
        <5>3. QED BY <4>1, <5>1, <5>2 DEF IInv, Bookkeeping, PendingInMemory
      <4>3. QED BY <2>1, <4>2
    <3>2. \A v \in Versions : v > created' => status'[v] = "none"
      BY <2>1, <2>4 DEF IInv, Bookkeeping, PendingInMemory
    <3>3. QED BY <3>1, <3>2 DEF PendingInMemory
  <2>11. InOrder'
    <3>1. ASSUME NEW q \in Promoters
          PROVE  /\ Increasing(queue'[q]) /\ Increasing(buffer'[q])
                 /\ \A i \in DOMAIN queue'[q], j \in DOMAIN buffer'[q] : queue'[q][i] < buffer'[q][j]
                 /\ q \in Tournaments => buffer'[q] = <<>>
      <4>1. CASE q = p
        <5>1. DOMAIN queue'[p] = {} /\ DOMAIN buffer'[p] = {} BY <2>2
        <5>2. QED BY <2>2, <4>1, <5>1 DEF Increasing
      <4>2. CASE q # p BY <2>2, <4>2 DEF IInv, Bookkeeping, InOrder
      <4>3. QED BY <4>1, <4>2
    <3>2. QED BY <3>1 DEF InOrder, Increasing
  <2>12. QED BY <2>6, <2>7, <2>8, <2>9, <2>10, <2>11 DEF Bookkeeping
<1>13. QED
  BY <1>1, <1>2, <1>3, <1>4, <1>5, <1>6, <1>7, <1>8, <1>9, <1>10, <1>11, <1>12
     DEF Next, RunnerStep, TournamentStep, Insert

-----------------------------------------------------------------------------
(* Parents first *)

(* ParentsFirst needs to know where a parent is while its child is not yet  *)
(* written: a runner takes a version as its base before it is inserted, so  *)
(* what a promoter builds on has its row or waits in that promoter's memory *)
(* before the child.                                                        *)

Known(p, v) == v = None \/ Row(v) \/ v \in InMemory(p)

BasesKnown ==
  \A p \in Promoters :
    /\ Known(p, base[p])
    /\ \A s \in Slots : games[p][s] # NoGame => Known(p, games[p][s].base)

OlderParents ==
  \A p \in Promoters : \A v \in InMemory(p) :
    Known(p, parent[v]) /\ (parent[v] \in InMemory(p) => parent[v] < v)

Lineage == BasesKnown /\ OlderParents /\ ParentsFirst

Bases == Versions \union {None}

(* The elements of a longer and of a shorter sequence. *)
LEMMA AppendElems ==
  ASSUME NEW s \in Seq(Versions), NEW x \in Versions
  PROVE  Elems(Append(s, x)) = Elems(s) \union {x}
<1>1. /\ DOMAIN Append(s, x) = 1..Len(s) + 1 /\ DOMAIN s = 1..Len(s) /\ Len(s) \in Nat
      /\ Append(s, x)[Len(s) + 1] = x
      /\ \A i \in 1..Len(s) : Append(s, x)[i] = s[i]
  OBVIOUS
<1>2. QED BY <1>1 DEF Elems

LEMMA TailElems ==
  ASSUME NEW s \in Seq(Versions), s # <<>>
  PROVE  Elems(s) = Elems(Tail(s)) \union {Head(s)}
<1>1. /\ Len(s) \in Nat /\ Len(s) >= 1 /\ DOMAIN s = 1..Len(s) /\ Head(s) = s[1]
      /\ DOMAIN Tail(s) = 1..Len(s) - 1
      /\ \A i \in 1..Len(s) - 1 : Tail(s)[i] = s[i + 1]
  OBVIOUS
<1>2. ASSUME NEW i \in 1..Len(s) PROVE s[i] \in Elems(Tail(s)) \union {Head(s)}
  <2>1. CASE i = 1 BY <1>1, <2>1
  <2>2. CASE i # 1
    <3>1. i - 1 \in 1..Len(s) - 1 /\ Tail(s)[i - 1] = s[i] BY <1>1, <2>2
    <3>2. QED BY <1>1, <3>1 DEF Elems
  <2>3. QED BY <2>1, <2>2
<1>3. ASSUME NEW i \in 1..Len(s) - 1 PROVE Tail(s)[i] \in Elems(s)
  <2>1. i + 1 \in 1..Len(s) BY <1>1
  <2>2. QED BY <1>1, <2>1 DEF Elems
<1>4. QED BY <1>1, <1>2, <1>3 DEF Elems

(* The next version a promoter writes is the oldest it has in memory. *)
LEMMA WorkIsOldest ==
  ASSUME IInv, NEW p \in Promoters, queue[p] # <<>>
  PROVE  /\ Work(p) \in Versions /\ Work(p) \in InMemory(p)
         /\ \A v \in InMemory(p) : ~(v < Work(p))
<1>1. queue[p] \in Seq(Versions) /\ buffer[p] \in Seq(Versions) /\ Increasing(queue[p])
  BY DEF IInv, TypeOK, Bookkeeping, InOrder
<1>2. Work(p) \in Elems(queue[p]) /\ Work(p) \in Versions BY <1>1, TakeOldest DEF Work
<1>3. 1 \in DOMAIN queue[p] /\ Work(p) = queue[p][1] BY <1>1 DEF Work
<1>4. ASSUME NEW i \in DOMAIN queue[p] PROVE ~(queue[p][i] < Work(p))
  <2>1. i \in Int /\ i >= 1 /\ queue[p][i] \in Versions BY <1>1
  <2>2. i # 1 => Work(p) < queue[p][i] BY <1>1, <1>3, <2>1 DEF Increasing
  <2>3. QED BY <1>2, <1>3, <2>1, <2>2 DEF Versions
<1>5. ASSUME NEW j \in DOMAIN buffer[p] PROVE ~(buffer[p][j] < Work(p))
  <2>1. Work(p) < buffer[p][j] BY <1>3 DEF IInv, Bookkeeping, InOrder
  <2>2. buffer[p][j] \in Versions BY <1>1
  <2>3. QED BY <1>2, <2>1, <2>2 DEF Versions
<1>6. QED BY <1>2, <1>4, <1>5, InMemoryElems DEF Elems

(* What a promoter builds on is a version or none. *)
LEMMA BasesTyped ==
  ASSUME IInv
  PROVE  /\ \A p \in Promoters : base[p] \in Bases
         /\ \A p \in Promoters, s \in Slots : games[p][s] # NoGame => games[p][s].base \in Bases
         /\ \A v \in Versions : parent[v] \in Bases
         /\ ActiveHead \in Bases /\ \A p \in Promoters : Known(p, ActiveHead)
         /\ ActiveHead = None \/ (ActiveHead \in Versions /\ Row(ActiveHead))
<1>1. ActiveHead = None \/ (ActiveHead \in Versions /\ Row(ActiveHead))
  BY HeadIsActive DEF IInv, Active, Row
<1>2. \A p \in Promoters, s \in Slots : games[p][s] # NoGame => games[p][s].base \in Bases
  <2> SUFFICES ASSUME NEW p \in Promoters, NEW s \in Slots, games[p][s] # NoGame
               PROVE  games[p][s].base \in Bases
    OBVIOUS
  <2>1. games[p][s] \in Games BY DEF IInv, TypeOK
  <2>2. QED BY <2>1 DEF Games, Bases
<1>3. QED BY <1>1, <1>2 DEF IInv, TypeOK, Bases, Known

(* A step that neither creates nor writes a version keeps all lineages. *)
LEMMA SameLineage ==
  ASSUME IInv, Lineage, UNCHANGED <<parent, status>>,
         \A p \in Promoters : InMemory(p)' = InMemory(p)
  PROVE  /\ OlderParents' /\ ParentsFirst'
         /\ \A p \in Promoters, v \in Bases : Known(p, v) => Known(p, v)'
<1>1. \A p \in Promoters, v \in Bases : Known(p, v) => Known(p, v)' BY DEF Known, Row
<1>2. ParentsFirst' BY DEF Lineage, ParentsFirst
<1>3. OlderParents'
  <2> SUFFICES ASSUME NEW p \in Promoters, NEW v \in InMemory(p)
               PROVE  Known(p, parent[v])' /\ (parent'[v] \in InMemory(p)' => parent'[v] < v)
    BY DEF OlderParents
  <2>1. Known(p, parent[v]) /\ (parent[v] \in InMemory(p) => parent[v] < v)
    BY DEF Lineage, OlderParents
  <2>2. QED BY <2>1 DEF Known, Row
<1>4. QED BY <1>1, <1>2, <1>3

(* A new version joins its creator's memory with a parent that is known     *)
(* there.                                                                   *)
LEMMA NewLineage ==
  ASSUME IInv, Lineage, NEW p \in Promoters, NEW from \in Bases, Known(p, from),
         created' = created + 1, created' \in Versions,
         parent' = [parent EXCEPT ![created'] = from],
         status' = [status EXCEPT ![created'] = "pending"],
         \A q \in Promoters :
           InMemory(q)' = InMemory(q) \union (IF q = p THEN {created'} ELSE {})
  PROVE  /\ OlderParents' /\ ParentsFirst'
         /\ \A q \in Promoters, v \in Bases : Known(q, v) => Known(q, v)'
         /\ Known(p, created)'
<1> DEFINE new == created'
<1>1. status[new] = "none" /\ new \in Versions
  BY DEF IInv, TypeOK, Bookkeeping, PendingInMemory
<1>2. /\ parent'[new] = from /\ status'[new] = "pending"
      /\ \A v \in Versions : v # new => parent'[v] = parent[v] /\ status'[v] = status[v]
  BY <1>1 DEF IInv, TypeOK
<1>3. \A q \in Promoters : \A v \in InMemory(q) : v \in Versions /\ v < new
  BY NewVersion
<1>4. None \notin Versions BY DEF Versions, None
<1> HIDE DEF new
<1>5. \A q \in Promoters, v \in Bases : Known(q, v) => Known(q, v)'
  <2> SUFFICES ASSUME NEW q \in Promoters, NEW v \in Bases, Known(q, v) PROVE Known(q, v)'
    OBVIOUS
  <2>1. CASE v = None BY <2>1 DEF Known
  <2>2. CASE v \in Versions /\ Row(v)
    <3>1. v # new BY <1>1, <2>2 DEF Row
    <3>2. QED BY <1>2, <2>2, <3>1 DEF Known, Row
  <2>3. CASE v \in InMemory(q) BY <2>3 DEF Known
  <2>4. QED BY <2>1, <2>2, <2>3 DEF Known, Bases
<1>6. Known(p, created)' BY DEF Known, new
<1>7. ParentsFirst'
  <2> SUFFICES ASSUME NEW v \in Versions, Row(v)', parent'[v] # None PROVE Row(parent[v])'
    BY DEF ParentsFirst, Row
  <2>1. v # new BY <1>2 DEF Row
  <2>2. Row(v) /\ parent'[v] = parent[v] BY <1>2, <2>1 DEF Row
  <2>3. parent[v] \in Versions /\ Row(parent[v])
    BY <2>2 DEF Lineage, ParentsFirst, Row, IInv, TypeOK
  <2>4. parent[v] # new BY <1>1, <2>3 DEF Row
  <2>5. QED BY <1>2, <2>2, <2>3, <2>4 DEF Row
<1>8. OlderParents'
  <2> SUFFICES ASSUME NEW q \in Promoters, NEW v \in InMemory(q)'
               PROVE  Known(q, parent[v])' /\ (parent'[v] \in InMemory(q)' => parent'[v] < v)
    BY DEF OlderParents
  <2>1. CASE v = new
    <3>1. q = p
      <4>1. new \notin InMemory(q) BY <1>1 DEF IInv, Bookkeeping, PendingInMemory
      <4>2. QED BY <2>1, <4>1 DEF new
    <3>2. parent'[v] = from /\ Known(q, from)' BY <1>2, <1>5, <2>1, <3>1
    <3>3. from # new
      <4>1. new \notin InMemory(p) BY <1>1 DEF IInv, Bookkeeping, PendingInMemory
      <4>2. QED BY <1>1, <1>4, <4>1 DEF Known, Row
    <3>4. from \in InMemory(p)' => from < new BY <1>3, <3>3 DEF new
    <3>5. QED BY <2>1, <3>1, <3>2, <3>4 DEF Known, Row
  <2>2. CASE v # new
    <3>1. v \in InMemory(q) /\ v \in Versions /\ v < new BY <1>3, <2>2 DEF new
    <3>2. parent'[v] = parent[v] /\ parent[v] \in Bases
      BY <1>2, <2>2, <3>1 DEF IInv, TypeOK, Bases
    <3>3. Known(q, parent[v]) /\ (parent[v] \in InMemory(q) => parent[v] < v)
      BY <3>1 DEF Lineage, OlderParents
    <3>4. parent[v] # new
      <4>1. \A w \in Promoters : new \notin InMemory(w)
        BY <1>1 DEF IInv, Bookkeeping, PendingInMemory
      <4>2. QED BY <1>1, <1>4, <3>3, <4>1 DEF Known, Row
    <3>5. \A u \in Bases : u = parent[v] => Known(q, u)' BY <1>5, <3>2, <3>3
    <3>6. Known(q, parent[v])' BY <3>2, <3>5 DEF Known, Row
    <3>7. QED BY <3>2, <3>3, <3>4, <3>6 DEF new
  <2>3. QED BY <2>1, <2>2
<1>9. QED BY <1>5, <1>6, <1>7, <1>8

(* Writing the oldest version in memory finds its parent's row. *)
LEMMA WriteLineage ==
  ASSUME IInv, Lineage, NEW p \in Promoters, queue[p] # <<>>,
         NEW w \in Versions, w = Work(p),
         queue' = [queue EXCEPT ![p] = Tail(@)], UNCHANGED <<parent, buffer>>,
         Row(w)', \A v \in Versions : v # w => (Row(v)' <=> Row(v))
  PROVE  /\ OlderParents' /\ ParentsFirst'
         /\ \A q \in Promoters, v \in Bases : Known(q, v) => Known(q, v)'
<1>1. w \in InMemory(p) /\ \A v \in InMemory(p) : ~(v < w) BY WorkIsOldest
<1>2. \A q \in Promoters : /\ InMemory(q)' \subseteq InMemory(q)
                           /\ InMemory(q) \subseteq InMemory(q)' \union {w}
  <2>1. queue[p] \in Seq(Versions) BY DEF IInv, TypeOK
  <2>2. Elems(queue[p]) = Elems(Tail(queue[p])) \union {w} BY <2>1, TailElems DEF Work
  <2>3. \A q \in Promoters : InMemory(q)' = Elems(buffer'[q]) \union Elems(queue'[q])
    BY DEF InMemory, Elems
  <2>4. queue'[p] = Tail(queue[p]) /\ \A q \in Promoters : q # p => queue'[q] = queue[q]
    BY DEF IInv, TypeOK
  <2>5. QED BY <2>2, <2>3, <2>4, InMemoryElems
<1>3. None \notin Versions BY DEF Versions, None
<1>4. \A q \in Promoters, v \in Bases : Known(q, v) => Known(q, v)'
  <2> SUFFICES ASSUME NEW q \in Promoters, NEW v \in Bases, Known(q, v) PROVE Known(q, v)'
    OBVIOUS
  <2>1. CASE v = None BY <2>1 DEF Known
  <2>2. CASE v \in Versions /\ Row(v) BY <2>2 DEF Known
  <2>3. CASE v \in InMemory(q) BY <1>2, <2>3 DEF Known
  <2>4. QED BY <2>1, <2>2, <2>3 DEF Known, Bases
<1>5. ParentsFirst'
  <2> SUFFICES ASSUME NEW v \in Versions, Row(v)', parent[v] # None PROVE Row(parent[v])'
    BY DEF ParentsFirst, Row
  <2>1. parent[v] \in Versions BY DEF IInv, TypeOK
  <2>2. Row(parent[v])
    <3>1. CASE v = w
      BY <1>1, <3>1 DEF Lineage, OlderParents, Known
    <3>2. CASE v # w BY <3>2 DEF Lineage, ParentsFirst, Row
    <3>3. QED BY <3>1, <3>2
  <2>3. \A u \in Versions : Row(u) => Row(u)' OBVIOUS
  <2>4. QED BY <2>1, <2>2, <2>3 DEF Row
<1>6. OlderParents'
  <2> SUFFICES ASSUME NEW q \in Promoters, NEW v \in InMemory(q)'
               PROVE  Known(q, parent[v])' /\ (parent'[v] \in InMemory(q)' => parent'[v] < v)
    BY DEF OlderParents
  <2>0. v \in InMemory(q) BY <1>2
  <2>1. v \in InMemory(q) /\ v \in Versions BY <2>0 DEF InMemory, IInv, TypeOK
  <2>2. parent[v] \in Bases BY <2>1 DEF IInv, TypeOK, Bases
  <2>3. Known(q, parent[v]) /\ (parent[v] \in InMemory(q) => parent[v] < v)
    BY <2>1 DEF Lineage, OlderParents
  <2>4. \A u \in Bases : u = parent[v] => Known(q, u)' BY <1>4, <2>3
  <2>5. Known(q, parent[v])' BY <2>2, <2>4 DEF Known, Row
  <2>6. QED BY <1>2, <2>3, <2>5
<1>7. QED BY <1>4, <1>5, <1>6

(* Lineages survive every step. *)
LEMMA LineageStep ==
  ASSUME IInv, Lineage, [Next]_vars
  PROVE  Lineage'
<1> USE PromotionAssumption
<1>b. /\ \A p \in Promoters : base[p] \in Bases
      /\ \A p \in Promoters, s \in Slots : games[p][s] # NoGame => games[p][s].base \in Bases
      /\ \A v \in Versions : parent[v] \in Bases
      /\ ActiveHead \in Bases /\ \A p \in Promoters : Known(p, ActiveHead)
      /\ ActiveHead = None \/ (ActiveHead \in Versions /\ Row(ActiveHead))
  BY BasesTyped
<1>k. ASSUME \A p \in Promoters, v \in Bases : Known(p, v) => Known(p, v)',
             NEW q \in Promoters,
             base'[q] \in Bases, Known(q, base[q])',
             \A p \in Promoters : p # q => base'[p] = base[p],
             \A p \in Promoters, s \in Slots :
               games'[p][s] \in {NoGame, games[p][s]} \/ (p = q /\ games'[p][s].base = base'[q])
      PROVE  BasesKnown'
  <2>1. ASSUME NEW p \in Promoters PROVE Known(p, base[p])'
    <3>1. CASE p = q BY <1>k, <3>1 DEF Known, Row
    <3>2. CASE p # q
      <4>1. \A u \in Bases : u = base[p] => Known(p, u)'
        BY <1>k DEF Lineage, BasesKnown
      <4>2. base'[p] = base[p] /\ base[p] \in Bases BY <1>b, <1>k, <3>2
      <4>3. QED BY <4>1, <4>2 DEF Known, Row
    <3>3. QED BY <3>1, <3>2
  <2>2. ASSUME NEW p \in Promoters, NEW s \in Slots, games'[p][s] # NoGame
        PROVE  Known(p, games[p][s].base)'
    <3>1. CASE games'[p][s] = games[p][s]
      <4>1. games[p][s].base \in Bases /\ Known(p, games[p][s].base)
        BY <1>b, <2>2, <3>1 DEF Lineage, BasesKnown
      <4>2. \A u \in Bases : u = games[p][s].base => Known(p, u)' BY <1>k, <4>1
      <4>3. QED BY <3>1, <4>1, <4>2 DEF Known, Row
    <3>2. CASE p = q /\ games'[p][s].base = base'[q]
      BY <2>1, <3>2 DEF Known, Row
    <3>3. QED BY <1>k, <2>2, <3>1, <3>2
  <2>3. QED BY <2>1, <2>2 DEF BasesKnown
<1>1. ASSUME UNCHANGED <<parent, status, buffer, queue>>
      PROVE  /\ OlderParents' /\ ParentsFirst'
             /\ \A p \in Promoters, v \in Bases : Known(p, v) => Known(p, v)'
  <2>1. \A p \in Promoters : InMemory(p)' = InMemory(p) BY <1>1 DEF InMemory
  <2>2. QED BY <1>1, <2>1, SameLineage
<1>2. ASSUME \A p \in Promoters, v \in Bases : Known(p, v) => Known(p, v)', UNCHANGED <<base, games>>
      PROVE  BasesKnown'
  <2>1. ASSUME NEW p \in Promoters PROVE Known(p, base[p])'
    <3>1. \A u \in Bases : u = base[p] => Known(p, u)' BY <1>2 DEF Lineage, BasesKnown
    <3>2. QED BY <1>2, <1>b, <3>1 DEF Known, Row
  <2>2. ASSUME NEW p \in Promoters, NEW s \in Slots, games'[p][s] # NoGame
        PROVE  Known(p, games[p][s].base)'
    <3>1. games[p][s].base \in Bases /\ Known(p, games[p][s].base)
      BY <1>b, <1>2, <2>2 DEF Lineage, BasesKnown
    <3>2. \A u \in Bases : u = games[p][s].base => Known(p, u)' BY <1>2, <3>1
    <3>3. QED BY <1>2, <3>1, <3>2 DEF Known, Row
  <2>3. QED BY <2>1, <2>2 DEF BasesKnown
<1>3. ASSUME NEW r \in Runners, NEW s \in Slots, StartGame(r, s) PROVE Lineage'
  <2>1. UNCHANGED <<parent, status, buffer, queue, base>> BY <1>3 DEF StartGame, table
  <2>2. r \in Promoters BY DEF Promoters
  <2>3. \A p \in Promoters, u \in Slots :
          games'[p][u] \in {NoGame, games[p][u]} \/ (p = r /\ games'[p][u].base = base'[r])
    <3>1. CASE UNCHANGED games BY <3>1
    <3>2. CASE games' = [games EXCEPT ![r][s] = Game(r)]
      BY <2>2, <3>2 DEF Game, IInv, TypeOK
    <3>3. QED BY <1>3, <3>1, <3>2 DEF StartGame
  <2>4. Known(r, base[r])'
    <3>1. \A u \in Bases : u = base[r] => Known(r, u)'
      BY <1>1, <2>1, <2>2 DEF Lineage, BasesKnown
    <3>2. QED BY <1>b, <2>1, <2>2, <3>1 DEF Known, Row
  <2>5. BasesKnown' BY <1>1, <1>b, <1>k, <2>1, <2>2, <2>3, <2>4
  <2>6. QED BY <1>1, <2>1, <2>5 DEF Lineage
<1>4. ASSUME NEW p \in Promoters, NEW s \in Slots, LoadHead(p, s) \/ (s = 1 /\ Seed(p))
      PROVE  Lineage'
  <2>1. UNCHANGED <<parent, status, buffer, queue>> BY <1>4 DEF LoadHead, Seed, table
  <2>2. /\ base' = [base EXCEPT ![p] = base'[p]] /\ base'[p] \in {base[p], ActiveHead}
        /\ games' = [games EXCEPT ![p][s] = Game(p)]
    BY <1>4 DEF LoadHead, Seed, IInv, TypeOK
  <2>3. base'[p] \in Bases /\ Known(p, base[p])'
    <3>1. \A u \in Bases : u \in {base[p], ActiveHead} => Known(p, u)'
      BY <1>1, <1>b, <2>1 DEF Lineage, BasesKnown
    <3>2. QED BY <1>b, <2>2, <3>1 DEF Known, Row
  <2>4. \A q \in Promoters : q # p => base'[q] = base[q] BY <2>2 DEF IInv, TypeOK
  <2>5. \A q \in Promoters, u \in Slots :
          games'[q][u] \in {NoGame, games[q][u]} \/ (q = p /\ games'[q][u].base = base'[p])
    BY <2>2 DEF Game, IInv, TypeOK
  <2>6. BasesKnown' BY <1>1, <1>k, <2>1, <2>3, <2>4, <2>5
  <2>7. QED BY <1>1, <2>1, <2>6 DEF Lineage
<1>5. ASSUME NEW r \in Runners, NEW s \in Slots, CompleteGame(r, s) PROVE Lineage'
  <2>1. UNCHANGED <<parent, status, buffer, queue, base>> BY <1>5 DEF CompleteGame, table
  <2>2. r \in Promoters BY DEF Promoters
  <2>3. \A p \in Promoters, u \in Slots : games'[p][u] \in {NoGame, games[p][u]}
    BY <1>5, <2>2 DEF CompleteGame, IInv, TypeOK
  <2>4. Known(r, base[r])'
    <3>1. \A u \in Bases : u = base[r] => Known(r, u)'
      BY <1>1, <2>1, <2>2 DEF Lineage, BasesKnown
    <3>2. QED BY <1>b, <2>1, <2>2, <3>1 DEF Known, Row
  <2>5. BasesKnown' BY <1>1, <1>b, <1>k, <2>1, <2>2, <2>3, <2>4
  <2>6. QED BY <1>1, <2>1, <2>5 DEF Lineage
<1>6. ASSUME NEW r \in Runners, NEW s \in Slots, NEW f \in Fitnesses, Learn(r, s, f) PROVE Lineage'
  <2>1. r \in Promoters /\ games[r][s] # NoGame BY <1>6 DEF Learn, Promoters
  <2>2. games[r][s].base \in Bases /\ Known(r, games[r][s].base)
    BY <1>b, <2>1 DEF Lineage, BasesKnown
  <2>3. /\ created' = created + 1 /\ created' \in Versions
        /\ parent' = [parent EXCEPT ![created'] = games[r][s].base]
        /\ status' = [status EXCEPT ![created'] = "pending"]
        /\ buffer' = [buffer EXCEPT ![r] = Append(@, created')] /\ UNCHANGED queue
        /\ base' = [base EXCEPT ![r] = created']
        /\ games' = [games EXCEPT ![r][s] = NoGame]
    BY <1>6 DEF Learn, Create, IInv, TypeOK, Versions
  <2>4. \A p \in Promoters : InMemory(p)' = InMemory(p) \union (IF p = r THEN {created'} ELSE {})
    <3>1. Elems(Append(buffer[r], created')) = Elems(buffer[r]) \union {created'}
      BY <2>1, <2>3, AppendElems DEF IInv, TypeOK
    <3>2. \A p \in Promoters : InMemory(p)' = Elems(buffer'[p]) \union Elems(queue'[p])
      BY DEF InMemory, Elems
    <3>3. QED BY <2>3, <3>1, <3>2, InMemoryElems DEF IInv, TypeOK
  <2>5. /\ OlderParents' /\ ParentsFirst' /\ Known(r, created)'
        /\ \A p \in Promoters, v \in Bases : Known(p, v) => Known(p, v)'
    BY <2>1, <2>2, <2>3, <2>4, NewLineage
  <2>6. base'[r] = created' /\ base'[r] \in Bases /\ \A p \in Promoters : p # r => base'[p] = base[p]
    BY <2>1, <2>3 DEF IInv, TypeOK, Bases
  <2>7. \A p \in Promoters, u \in Slots : games'[p][u] \in {NoGame, games[p][u]}
    BY <2>1, <2>3 DEF IInv, TypeOK
  <2>8. Known(r, base[r])' BY <2>5, <2>6 DEF Known, Row
  <2>9. BasesKnown' BY <1>k, <2>1, <2>5, <2>6, <2>7, <2>8
  <2>10. QED BY <2>5, <2>9 DEF Lineage
<1>7. ASSUME NEW t \in Tournaments, NEW f \in Fitnesses, Champion(t, f) PROVE Lineage'
  <2>1. t \in Promoters BY DEF Promoters
  <2>2. base[t] \in Bases /\ Known(t, base[t]) BY <1>b, <2>1 DEF Lineage, BasesKnown
  <2>3. /\ created' = created + 1 /\ created' \in Versions
        /\ parent' = [parent EXCEPT ![created'] = base[t]]
        /\ status' = [status EXCEPT ![created'] = "pending"]
        /\ queue' = [queue EXCEPT ![t] = Append(@, created')] /\ UNCHANGED <<buffer, base>>
        /\ games' = [games EXCEPT ![t][1] = NoGame]
    BY <1>7 DEF Champion, Create, IInv, TypeOK, Versions
  <2>4. \A p \in Promoters : InMemory(p)' = InMemory(p) \union (IF p = t THEN {created'} ELSE {})
    <3>1. Elems(Append(queue[t], created')) = Elems(queue[t]) \union {created'}
      BY <2>1, <2>3, AppendElems DEF IInv, TypeOK
    <3>2. \A p \in Promoters : InMemory(p)' = Elems(buffer'[p]) \union Elems(queue'[p])
      BY DEF InMemory, Elems
    <3>3. QED BY <2>3, <3>1, <3>2, InMemoryElems DEF IInv, TypeOK
  <2>5. /\ OlderParents' /\ ParentsFirst'
        /\ \A p \in Promoters, v \in Bases : Known(p, v) => Known(p, v)'
    BY <2>1, <2>2, <2>3, <2>4, NewLineage
  <2>6. \A p \in Promoters, u \in Slots : games'[p][u] \in {NoGame, games[p][u]}
    BY <2>1, <2>3 DEF IInv, TypeOK
  <2>7. Known(t, base[t])'
    <3>1. \A u \in Bases : u = base[t] => Known(t, u)' BY <2>1, <2>2, <2>5
    <3>2. QED BY <2>2, <2>3, <3>1 DEF Known, Row
  <2>8. BasesKnown' BY <1>k, <2>1, <2>2, <2>3, <2>5, <2>6, <2>7
  <2>9. QED BY <2>5, <2>8 DEF Lineage
<1>8. ASSUME NEW r \in Runners, Flush(r) PROVE Lineage'
  <2>1. /\ r \in Promoters /\ queue' = [queue EXCEPT ![r] = @ \o buffer[r]]
        /\ buffer' = [buffer EXCEPT ![r] = <<>>]
        /\ UNCHANGED <<parent, status, base, games>>
    BY <1>8 DEF Flush, table, runner, Promoters
  <2>2. Elems(queue[r] \o buffer[r]) = Elems(queue[r]) \union Elems(buffer[r])
    BY <2>1, OlderThenNewer DEF IInv, TypeOK, Bookkeeping, InOrder
  <2>3. \A p \in Promoters : InMemory(p)' = InMemory(p)
    <3>1. Elems(<<>>) = {} BY DEF Elems
    <3>2. \A p \in Promoters : InMemory(p)' = Elems(buffer'[p]) \union Elems(queue'[p])
      BY DEF InMemory, Elems
    <3>3. QED BY <2>1, <2>2, <3>1, <3>2, InMemoryElems DEF IInv, TypeOK
  <2>4. /\ OlderParents' /\ ParentsFirst'
        /\ \A p \in Promoters, v \in Bases : Known(p, v) => Known(p, v)'
    BY <2>1, <2>3, SameLineage
  <2>5. QED BY <1>2, <2>1, <2>4 DEF Lineage
<1>9. ASSUME NEW p \in Promoters, InsertArchived(p) PROVE Lineage'
  <2>1. /\ queue[p] # <<>> /\ queue' = [queue EXCEPT ![p] = Tail(@)]
        /\ status' = [status EXCEPT ![Work(p)] = "archived"]
        /\ UNCHANGED <<parent, buffer, base, games>>
    BY <1>9 DEF InsertArchived, Ready, Done, table, runner
  <2>2. PICK w \in Versions : w = Work(p) BY <2>1, WorkIsOldest
  <2>3. Row(w)' /\ \A v \in Versions : v # w => (Row(v)' <=> Row(v))
    BY <2>1, <2>2 DEF Row, IInv, TypeOK
  <2>4. /\ OlderParents' /\ ParentsFirst'
        /\ \A q \in Promoters, v \in Bases : Known(q, v) => Known(q, v)'
    BY <2>1, <2>2, <2>3, WriteLineage
  <2>5. QED BY <1>2, <2>1, <2>4 DEF Lineage
<1>10. ASSUME NEW p \in Promoters, Commit(p) PROVE Lineage'
  <2>1. /\ queue[p] # <<>> /\ queue' = [queue EXCEPT ![p] = Tail(@)] /\ doomed[p] = Active
        /\ status' = [v \in Versions |->
             IF v = Work(p) THEN "active" ELSE IF v \in doomed[p] THEN "archived" ELSE status[v]]
        /\ UNCHANGED <<parent, buffer, base, games>>
    BY <1>10 DEF Commit, Done, table, runner, IInv, Bookkeeping, DoomedIsActive
  <2>2. PICK w \in Versions : w = Work(p) BY <2>1, WorkIsOldest
  <2>3. Row(w)' /\ \A v \in Versions : v # w => (Row(v)' <=> Row(v))
    BY <2>1, <2>2 DEF Row, Active
  <2>4. /\ OlderParents' /\ ParentsFirst'
        /\ \A q \in Promoters, v \in Bases : Known(q, v) => Known(q, v)'
    BY <2>1, <2>2, <2>3, WriteLineage
  <2>5. QED BY <1>2, <2>1, <2>4 DEF Lineage
<1>11. ASSUME NEW p \in Promoters, Restart(p) PROVE Lineage'
  <2>1. /\ status' = [v \in Versions |-> IF v \in InMemory(p) THEN "lost" ELSE status[v]]
        /\ buffer' = [buffer EXCEPT ![p] = <<>>] /\ queue' = [queue EXCEPT ![p] = <<>>]
        /\ base' = [base EXCEPT ![p] = ActiveHead]
        /\ games' = [games EXCEPT ![p] = [s \in Slots |-> NoGame]] /\ UNCHANGED parent
    BY <1>11 DEF Restart, table
  <2>2. \A v \in Versions : Row(v)' <=> Row(v)
    BY <2>1 DEF Row, IInv, Bookkeeping, PendingInMemory
  <2>3. InMemory(p)' = {} /\ \A q \in Promoters : q # p => InMemory(q)' = InMemory(q)
    BY <2>1 DEF InMemory, IInv, TypeOK
  <2>4. \A q \in Promoters, v \in Bases : q # p /\ Known(q, v) => Known(q, v)'
    BY <2>2, <2>3 DEF Known, Bases, None
  <2>5. ParentsFirst'
    BY <2>1, <2>2 DEF Lineage, ParentsFirst, Row, IInv, TypeOK
  <2>6. OlderParents'
    <3> SUFFICES ASSUME NEW q \in Promoters, NEW v \in InMemory(q)'
                 PROVE  Known(q, parent[v])' /\ (parent'[v] \in InMemory(q)' => parent'[v] < v)
      BY DEF OlderParents
    <3>0. q # p /\ v \in InMemory(q) BY <2>3
    <3>1. q # p /\ v \in InMemory(q) /\ v \in Versions
      BY <3>0 DEF InMemory, IInv, TypeOK
    <3>2. Known(q, parent[v]) /\ (parent[v] \in InMemory(q) => parent[v] < v)
      BY <3>1 DEF Lineage, OlderParents
    <3>3. \A u \in Bases : u = parent[v] => Known(q, u)' BY <2>4, <3>1, <3>2
    <3>4. Known(q, parent[v])' BY <1>b, <2>1, <3>1, <3>3 DEF Known, Row
    <3>5. QED BY <2>1, <2>3, <3>1, <3>2, <3>4
  <2>7. BasesKnown'
    <3>1. ASSUME NEW q \in Promoters
          PROVE  /\ Known(q, base[q])'
                 /\ \A s \in Slots : games'[q][s] # NoGame => Known(q, games[q][s].base)'
      <4>1. CASE q = p
        <5>1. base'[p] = ActiveHead /\ \A s \in Slots : games'[p][s] = NoGame
          BY <2>1 DEF IInv, TypeOK
        <5>2. \A u \in Versions : u = ActiveHead => Row(u)' BY <1>b, <2>2 DEF Row, None, Versions
        <5>3. Known(p, base[p])' BY <1>b, <5>1, <5>2 DEF Known, Row
        <5>4. QED BY <4>1, <5>1, <5>3
      <4>2. CASE q # p
        <5>1. base'[q] = base[q] /\ games'[q] = games[q] BY <2>1, <4>2 DEF IInv, TypeOK
        <5>2. \A u \in Bases : u = base[q] => Known(q, u)'
          BY <2>4, <4>2 DEF Lineage, BasesKnown
        <5>3. \A s \in Slots, u \in Bases :
                games[q][s] # NoGame /\ u = games[q][s].base => Known(q, u)'
          BY <2>4, <4>2 DEF Lineage, BasesKnown
        <5>4. QED BY <1>b, <5>1, <5>2, <5>3 DEF Known, Row
      <4>3. QED BY <4>1, <4>2
    <3>2. QED BY <3>1 DEF BasesKnown
  <2>8. QED BY <2>5, <2>6, <2>7 DEF Lineage
<1>12. ASSUME UNCHANGED <<parent, status, buffer, queue, base, games>> PROVE Lineage'
  BY <1>1, <1>2, <1>12 DEF Lineage
<1>13. ASSUME NEW t \in Tournaments, Seed(t) PROVE Lineage'
  <2>1. t \in Promoters /\ 1 \in Slots BY DEF Promoters, Slots
  <2>2. QED BY <1>4, <1>13, <2>1
<1>14. ASSUME NEW r \in Runners, NEW s \in Slots, LoadHead(r, s) PROVE Lineage'
  BY <1>4, <1>14 DEF Promoters
<1>15. QED
  BY <1>3, <1>5, <1>6, <1>7, <1>8, <1>9, <1>10, <1>11, <1>12, <1>13, <1>14
     DEF Next, RunnerStep, TournamentStep, Insert, ReadHead, Lock, ArchiveOld,
         vars, table, runner, insert

-----------------------------------------------------------------------------
(* The table as a VersionHistory *)

(* The mapped rows are those versions whose status is one of a row. *)
LEMMA InsertedIs == \A v : v \in History!Inserted <=> v \in Versions /\ Row(v)
<1>1. ASSUME NEW v \in History!Inserted PROVE v \in Versions /\ Row(v)
  <2>1. PICK row \in Rows : v = row.version BY DEF History!Inserted
  <2>2. PICK w \in Versions : Row(w) /\ row = [version |-> w, parent |-> parent[w]]
    BY <2>1 DEF Rows
  <2>3. v = w BY <2>1, <2>2
  <2>4. QED BY <2>2, <2>3
<1>2. ASSUME NEW v \in Versions, Row(v) PROVE v \in History!Inserted
  <2> DEFINE row == [version |-> v, parent |-> parent[v]]
  <2>1. row \in Rows /\ row.version = v BY <1>2 DEF Rows
  <2>2. QED BY <2>1 DEF History!Inserted
<1>3. QED BY <1>1, <1>2

(* A step that leaves the rows and the losses alone is a stutter. *)
LEMMA SameHistory ==
  ASSUME \A v \in Versions : status'[v] # status[v] =>
           {status[v], status'[v]} \intersect {"active", "archived", "lost"} = {},
         \A v \in Versions : Row(v) => parent'[v] = parent[v]
  PROVE  UNCHANGED History!hvars
<1>1. \A v \in Versions : (Row(v)' <=> Row(v)) /\ (status'[v] = "lost" <=> status[v] = "lost")
                          /\ (status'[v] = "active" <=> status[v] = "active")
  BY DEF Row
<1>2. Active' = Active /\ Lost' = Lost BY <1>1 DEF Active, Lost
<1>3. {w \in Versions : Row(w)}' = {w \in Versions : Row(w)} BY <1>1
<1>4. \A v \in {w \in Versions : Row(w)} :
        [version |-> v, parent |-> parent'[v]] = [version |-> v, parent |-> parent[v]]
  OBVIOUS
<1>5. Rows' = Rows BY <1>3, <1>4 DEF Rows
<1>6. QED BY <1>2, <1>5 DEF History!hvars

(* Creating a version is one: it is pending, and was none before. *)
LEMMA CreateHistory ==
  ASSUME IInv, NEW from, NEW g, NEW f, NEW h, Create(from, g, f, h)
  PROVE  UNCHANGED History!hvars
<1>1. /\ created' > created /\ status' = [status EXCEPT ![created'] = "pending"]
      /\ parent' = [parent EXCEPT ![created'] = from]
  BY DEF Create, IInv, TypeOK
<1>2. \A v \in Versions : v = created' => status[v] = "none"
  BY <1>1 DEF IInv, Bookkeeping, PendingInMemory
<1>3. \A v \in Versions : v # created' => status'[v] = status[v] /\ parent'[v] = parent[v]
  BY <1>1 DEF IInv, TypeOK
<1>4. \A v \in Versions : status'[v] # status[v] => status[v] = "none" /\ status'[v] = "pending"
  BY <1>1, <1>2, <1>3 DEF IInv, TypeOK
<1>5. \A v \in Versions : Row(v) => parent'[v] = parent[v] BY <1>2, <1>3 DEF Row
<1>6. QED BY <1>4, <1>5, SameHistory

(* The version written next is neither a row nor lost, and its parent is a  *)
(* row already. *)
LEMMA WorkIsNew ==
  ASSUME IInv, Lineage, NEW p \in Promoters, queue[p] # <<>>
  PROVE  /\ Work(p) \in Versions /\ status[Work(p)] = "pending"
         /\ Work(p) \notin History!Inserted \union Lost
         /\ parent[Work(p)] \in History!Inserted \union {None}
<1>1. /\ Work(p) \in Versions /\ Work(p) \in InMemory(p)
      /\ \A v \in InMemory(p) : ~(v < Work(p))
  BY WorkIsOldest
<1>2. status[Work(p)] = "pending" BY <1>1 DEF IInv, Bookkeeping, PendingInMemory
<1>3. parent[Work(p)] = None \/ Row(parent[Work(p)])
  BY <1>1 DEF Lineage, OlderParents, Known
<1>4. parent[Work(p)] \in Versions \union {None} BY <1>1 DEF IInv, TypeOK
<1>5. QED BY <1>1, <1>2, <1>3, <1>4, InsertedIs DEF Row, Lost

(* Writing it adds its row and no other, whatever happens to the status of  *)
(* the rows there are. *)
LEMMA WriteHistory ==
  ASSUME IInv, Lineage, NEW p \in Promoters, queue[p] # <<>>, UNCHANGED parent,
         NEW w \in Versions, w = Work(p), Row(w)',
         \A v \in Versions : v # w =>
           (Row(v)' <=> Row(v)) /\ (status'[v] = "lost" <=> status[v] = "lost")
  PROVE  History!Insert(w, parent[w])
<1>1. /\ w \in Versions /\ status[w] = "pending"
      /\ w \notin History!Inserted \union Lost
      /\ parent[w] \in History!Inserted \union {None}
  BY WorkIsNew
<1>2. \A v \in Versions : Row(v)' <=> Row(v) \/ v = w
  OBVIOUS
<1>3. {v \in Versions : Row(v)}' = {v \in Versions : Row(v)} \union {w} BY <1>2
<1>4. Rows' = Rows \union {[version |-> w, parent |-> parent[w]]} BY <1>3 DEF Rows
<1>5. status'[w] # "lost" BY DEF Row
<1>6. Lost' = Lost BY <1>1, <1>5 DEF Lost
<1>7. QED BY <1>1, <1>4, <1>6 DEF History!Insert

(* Every step is one of the history or leaves it alone. *)
LEMMA HistoryStep ==
  ASSUME IInv, Lineage, [Next]_vars
  PROVE  [History!Next]_(History!hvars)
<1>1. CASE UNCHANGED <<status, parent>>
  BY <1>1, SameHistory
<1>2. ASSUME NEW from, NEW g, NEW f, NEW h, Create(from, g, f, h)
      PROVE  [History!Next]_(History!hvars)
  BY <1>2, CreateHistory
<1>3. ASSUME NEW p \in Promoters, InsertArchived(p) PROVE History!Next
  <2>1. queue[p] # <<>> /\ UNCHANGED parent
    BY <1>3 DEF InsertArchived, Ready, table
  <2>2. PICK w \in Versions : w = Work(p) BY <2>1, WorkIsNew
  <2>3. status[w] = "pending" /\ parent[w] \in Versions \union {None}
    BY <2>1, <2>2, WorkIsNew DEF IInv, TypeOK
  <2>4. status'[w] = "archived" /\ \A v \in Versions : v # w => status'[v] = status[v]
    BY <1>3, <2>2 DEF InsertArchived, IInv, TypeOK
  <2>5. Row(w)' /\ \A v \in Versions : v # w => (Row(v)' <=> Row(v)) BY <2>4 DEF Row
  <2>6. Active' = Active BY <2>3, <2>4 DEF Active
  <2>7. History!Insert(w, parent[w]) BY <2>1, <2>2, <2>4, <2>5, WriteHistory
  <2>8. QED BY <2>3, <2>6, <2>7 DEF History!Next, History!Archive
<1>4. ASSUME NEW p \in Promoters, Commit(p) PROVE History!Next
  <2>1. queue[p] # <<>> /\ UNCHANGED parent /\ doomed[p] = Active
    BY <1>4 DEF Commit, IInv, Bookkeeping, DoomedIsActive, table
  <2>2. PICK w \in Versions : w = Work(p) BY <2>1, WorkIsNew
  <2>3. status[w] = "pending" /\ parent[w] \in Versions \union {None}
    BY <2>1, <2>2, WorkIsNew DEF IInv, TypeOK
  <2>4. /\ status'[w] = "active"
        /\ \A v \in Active : status'[v] = "archived"
        /\ \A v \in Versions : v # w /\ v \notin Active => status'[v] = status[v]
    BY <1>4, <2>1, <2>2, <2>3 DEF Commit, Active
  <2>5. Active' = {w} BY <2>4 DEF Active
  <2>6. Row(w)' BY <2>4 DEF Row
  <2>7. ASSUME NEW v \in Versions, v # w
        PROVE  (Row(v)' <=> Row(v)) /\ (status'[v] = "lost" <=> status[v] = "lost")
    BY <2>4, <2>7 DEF Row, Active
  <2>8. History!Insert(w, parent[w]) BY <2>1, <2>2, <2>6, <2>7, WriteHistory
  <2>9. QED BY <2>3, <2>5, <2>8 DEF History!Next, History!Promote
<1>5. ASSUME NEW p \in Promoters, Restart(p) PROVE History!Next
  <2> DEFINE some == {v \in Versions : v \in InMemory(p)}
  <2>1. \A v \in some : status[v] = "pending" BY DEF IInv, Bookkeeping, PendingInMemory
  <2>2. \A v \in Versions : status'[v] = IF v \in some THEN "lost" ELSE status[v]
    BY <1>5 DEF Restart
  <2> HIDE DEF some
  <2>3. some \in SUBSET (Versions \ History!Inserted) BY <2>1, InsertedIs DEF Row, some
  <2>4. Lost' = Lost \union some BY <2>2, <2>3 DEF Lost
  <2>5. Active' = Active BY <2>1, <2>2 DEF Active
  <2>6. {v \in Versions : Row(v)}' = {v \in Versions : Row(v)} BY <2>1, <2>2 DEF Row
  <2>7. Rows' = Rows BY <1>5, <2>6 DEF Rows, Restart, table
  <2>8. QED BY <2>3, <2>4, <2>5, <2>7 DEF History!Next, History!Lose
<1>6. QED
  BY <1>1, <1>2, <1>3, <1>4, <1>5
     DEF Next, RunnerStep, TournamentStep, Insert, StartGame, LoadHead, CompleteGame, Learn,
         Flush, ReadHead, Seed, Champion, Lock, ArchiveOld, vars, table

-----------------------------------------------------------------------------
(* Theorems *)

(* The strengthening is inductive. *)
LEMMA Inductive == Spec => []IInv
<1>1. Init => IInv
  <2> SUFFICES ASSUME Init PROVE IInv OBVIOUS
  <2>1. TypeOK
    BY PromotionAssumption DEF Init, TypeOK, Promoters
  <2>2. \A p \in Promoters : InMemory(p) = {} BY DEF Init, InMemory
  <2>3. Active = {} BY DEF Init, Active
  <2>4. AtMostOneActive /\ OnePromotion /\ DoomedIsActive
    BY <2>3 DEF Init, AtMostOneActive, OnePromotion, DoomedIsActive
  <2>5. PendingInMemory /\ OneOwner BY <2>2 DEF Init, PendingInMemory, OneOwner
  <2>6. InOrder BY DEF Init, InOrder, Increasing, Promoters
  <2>7. QED BY <2>1, <2>4, <2>5, <2>6 DEF IInv, Bookkeeping
<1>2. IInv /\ [Next]_vars => IInv'
  <2> SUFFICES ASSUME IInv, [Next]_vars PROVE IInv' OBVIOUS
  <2>1. TypeOK' BY TypeStep DEF IInv, Bookkeeping, DoomedIsActive
  <2>2. AtMostOneActive' /\ Bookkeeping' BY BookkeepingStep
  <2>3. QED BY <2>1, <2>2 DEF IInv
<1>3. QED BY <1>1, <1>2, PTL DEF Spec

(* Lineages are an invariant. *)
LEMMA LineageInvariant == Spec => []Lineage
<1>1. Init => Lineage
  <2> SUFFICES ASSUME Init PROVE Lineage OBVIOUS
  <2>1. \A p \in Promoters : InMemory(p) = {} BY DEF Init, InMemory
  <2>2. QED BY <2>1 DEF Init, Lineage, BasesKnown, OlderParents, ParentsFirst, Known
<1>2. IInv /\ Lineage /\ [Next]_vars => Lineage' BY LineageStep
<1>3. QED BY <1>1, <1>2, Inductive, PTL DEF Spec

(* Every variable stays in its range, for every set of promoters and every  *)
(* bound.                                                                   *)
THEOREM PromotionTypeCorrect == Spec => []TypeOK
<1>1. IInv => TypeOK BY DEF IInv
<1>2. QED BY <1>1, Inductive, PTL

(* However many processes promote at once and wherever they stop, the       *)
(* advisory lock leaves at most one version active.                         *)
THEOREM UniqueActive == Spec => []AtMostOneActive
<1>1. IInv => AtMostOneActive BY DEF IInv
<1>2. QED BY <1>1, Inductive, PTL

(* Once there is an active version there always is one. *)
THEOREM ActiveKept == Spec => ActiveNeverLost
<1>1. IInv /\ [Next]_vars => [Active # {} => Active' # {}]_vars
  <2> SUFFICES ASSUME IInv, [Next]_vars, Active # {} PROVE Active' # {}
    OBVIOUS
  <2>1. PICK a \in Versions : status[a] = "active" BY DEF Active
  <2>2. \A p \in Promoters : a \notin InMemory(p)
    BY <2>1 DEF IInv, Bookkeeping, PendingInMemory
  <2>3. \A p \in Promoters : queue[p] # <<>> => Work(p) \in InMemory(p) /\ Work(p) \in Versions
    BY TakeOldest, InMemoryElems DEF Work, IInv, TypeOK, Bookkeeping, InOrder
  <2>4. ASSUME UNCHANGED status PROVE Active' # {} BY <2>1, <2>4 DEF Active
  <2>5. ASSUME NEW from, NEW g, NEW f, NEW h, Create(from, g, f, h) PROVE Active' # {}
    <3>1. created' > created /\ status' = [status EXCEPT ![created'] = "pending"]
      BY <2>5 DEF Create, IInv, TypeOK
    <3>2. a # created' BY <2>1, <3>1 DEF IInv, Bookkeeping, PendingInMemory
    <3>3. status'[a] = "active" BY <2>1, <3>1, <3>2 DEF IInv, TypeOK
    <3>4. QED BY <2>1, <3>3 DEF Active
  <2>6. ASSUME NEW p \in Promoters, InsertArchived(p) PROVE Active' # {}
    BY <2>1, <2>2, <2>3, <2>6 DEF InsertArchived, Ready, Active, IInv, TypeOK
  <2>7. ASSUME NEW p \in Promoters, Commit(p) PROVE Active' # {}
    <3>1. queue[p] # <<>> BY <2>7 DEF Commit, IInv, Bookkeeping, DoomedIsActive
    <3>2. QED BY <2>3, <2>7, <3>1 DEF Commit, Active
  <2>8. ASSUME NEW p \in Promoters, Restart(p) PROVE Active' # {}
    BY <2>1, <2>2, <2>8 DEF Restart, Active
  <2>9. QED
    BY <2>4, <2>5, <2>6, <2>7, <2>8
       DEF Next, RunnerStep, TournamentStep, Insert, StartGame, LoadHead, CompleteGame, Learn,
           Flush, ReadHead, Seed, Champion, Lock, ArchiveOld, vars
<1>2. QED BY <1>1, Inductive, PTL DEF Spec, ActiveNeverLost

(* A row always comes after its parent's, so the self-reference of the       *)
(* table holds at every insert: also when runners buffer versions, build on  *)
(* what they have not written, or stop at any point.                         *)
THEOREM ParentsBeforeChildren == Spec => []ParentsFirst
<1>1. Lineage => ParentsFirst BY DEF Lineage
<1>2. QED BY <1>1, LineageInvariant, PTL

(* However many processes promote at once and wherever they stop, what a    *)
(* reader of the table sees is a VersionHistory: a promotion replaces the   *)
(* head in one step and each version is written once, after its parent, or  *)
(* lost for good.                                                           *)
THEOREM PromotionImplementsHistory == Spec => ImplementsHistory
<1>1. Init => History!Init
  <2> SUFFICES ASSUME Init PROVE History!Init OBVIOUS
  <2>1. \A v \in Versions : status[v] = "none" BY DEF Init
  <2>2. QED BY <2>1 DEF History!Init, Rows, Row, Active, Lost
<1>2. IInv /\ Lineage /\ [Next]_vars => [History!Next]_(History!hvars) BY HistoryStep
<1>3. QED BY <1>1, <1>2, Inductive, LineageInvariant, PTL DEF Spec, ImplementsHistory, History!Spec
=============================================================================
