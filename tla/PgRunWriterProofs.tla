-------------------------- MODULE PgRunWriterProofs --------------------------
(***************************************************************************)
(* For every number of games, channel capacity and flush size: the books   *)
(* of the main thread balance, versions and runs reach the store in order  *)
(* and complete, a run that ends well has lost nothing, and the writer     *)
(* implements RunPersistence.                                              *)
(*                                                                         *)
(* The argument follows a batch through the channel: the results say, in   *)
(* order, up to which batch the writer has answered (Answered), a batch    *)
(* that is not in the store has an error among them (OkIsStored), and main *)
(* that has met no error has met no such batch (ReceivedStored).           *)
(***************************************************************************)
EXTENDS PgRunWriter, FiniteSetTheorems, SequenceTheorems, TLAPS

Below(S, T) == \A a \in S, b \in T : a < b

HandedVersions(i) == SetOf(handed[i].versions)
HandedRuns(i) == SetOf(handed[i].runs)
Handed == 1..Len(handed)

Alive == main \notin {"err", "exited"}
Flushing == writer \in {"gather", "versions"}
BothFlush == config.refresh /\ config.flush

(* Where the writer is with the batches: it answers what it has taken       *)
(* before it takes more. *)
ThreadAt ==
  /\ writer \in {"connect", "recv", "unavailable", "done"} => taken = settled
  /\ writer \in {"gather", "versions", "prune"} => settled < taken

(* The results answer the batches in order, from the first one main has     *)
(* not received to the last one settled. *)
Answered ==
  /\ received <= settled
  /\ \A k \in 1..Len(results) : received < results[k].upto /\ results[k].upto <= settled
  /\ \A j, k \in 1..Len(results) : j < k => results[j].upto < results[k].upto
  /\ results = <<>> => received = settled
  /\ results # <<>> => results[Len(results)].upto = settled

Covers(k, i) == i <= results[k].upto /\ (k > 1 => results[k - 1].upto < i)

Stored(i) ==
  HandedVersions(i) \subseteq SetOf(versions) /\ HandedRuns(i) \subseteq SetOf(runs)

(* A batch that was answered and is not all in the store has an error in    *)
(* the result that covers it ... *)
OkIsStored ==
  \A i \in received + 1..settled :
    Stored(i) \/ \E k \in 1..Len(results) : Covers(k, i) /\ ~results[k].ok

(* ... and until main has met an error it has received no such batch. *)
ReceivedStored == Alive /\ ~firstError => \A i \in 1..received : Stored(i)

(* What is being flushed is what was taken and not answered; behind the     *)
(* insert of the runs all of it is in the store.                            *)
FlushHolds ==
  /\ Flushing =>
       /\ \A i \in settled + 1..taken :
            /\ HandedRuns(i) \subseteq SetOf(batch.runs)
            /\ HandedVersions(i) \subseteq SetOf(batch.versions) \union SetOf(versions)
       /\ \A g \in SetOf(batch.runs) : \E i \in settled + 1..taken : g \in HandedRuns(i)
       /\ \A g \in SetOf(batch.versions) : \E i \in settled + 1..taken : g \in HandedVersions(i)
       /\ Increasing(batch.runs) /\ Increasing(batch.versions)
       /\ Below(SetOf(versions), SetOf(batch.versions))
  /\ writer = "prune" => \A i \in settled + 1..taken : Stored(i)

Written == IF writer \in {"prune", "panicked"} THEN taken ELSE settled

(* Batches are handed over in the order of the games, the buffers hold the  *)
(* games after them. *)
HandedInOrder ==
  /\ \A i \in Handed :
       /\ Increasing(handed[i].runs) /\ Increasing(handed[i].versions)
       /\ HandedRuns(i) \subseteq 1..completed /\ HandedVersions(i) \subseteq made
       /\ HandedRuns(i) # {}
       /\ Below(HandedRuns(i), SetOf(runBuffer))
       /\ Below(HandedVersions(i), SetOf(versionBuffer))
  /\ \A i, j \in Handed : i < j =>
       /\ Below(HandedRuns(i), HandedRuns(j))
       /\ Below(HandedVersions(i), HandedVersions(j))
  /\ Increasing(runBuffer) /\ Increasing(versionBuffer)
  /\ SetOf(runBuffer) \subseteq 1..completed /\ SetOf(versionBuffer) \subseteq made
  /\ SetOf(versionBuffer) \subseteq SetOf(runBuffer)

(* What is in the store came in order, from batches taken or from a flush   *)
(* of main. *)
StoreInOrder ==
  /\ Increasing(versions) /\ Increasing(runs)
  /\ SetOf(versions) \subseteq made
  /\ \A g \in SetOf(runs) : \E i \in 1..Written : g \in HandedRuns(i)
  /\ \A i \in taken + 1..Len(handed) : Below(SetOf(versions), HandedVersions(i))
  /\ Alive => Below(SetOf(versions), SetOf(versionBuffer))

(* With both the refresh and the flush of versions on, main writes every    *)
(* version itself and no batch has one. *)
OneConnection ==
  BothFlush =>
    /\ \A i \in Handed : HandedVersions(i) = {}
    /\ main \in {"wait", "load", "enqueue", "send"} => versionBuffer = <<>>

(* Nothing is lost on the way while the run goes on. *)
NothingLost ==
  Alive =>
    /\ \A g \in made : g \in SetOf(versions) \union SetOf(versionBuffer)
                       \/ \E i \in Handed : g \in HandedVersions(i)
    /\ \A g \in 1..completed : g \in SetOf(runBuffer) \/ \E i \in Handed : g \in HandedRuns(i)

(* The version of a game is never behind its run. *)
VersionFirst ==
  /\ \A g \in SetOf(runs) : g \in made => g \in SetOf(versions)
  /\ \A i \in Handed : \A g \in HandedRuns(i) :
       g \in made => g \in SetOf(versions) \union HandedVersions(i)
  /\ \A g \in SetOf(runBuffer) : g \in made => g \in SetOf(versions) \union SetOf(versionBuffer)

(* The places of the main thread. *)
MainHas ==
  /\ main \in {"refresh", "wait", "load"} => config.refresh /\ started < Games
  /\ config.flush /\ main \in {"wait", "load"} => versionBuffer = <<>>
  /\ main = "load" => pendingVersions = 0
  /\ firstError => main \in {"collect", "join", "err", "exited"}
  /\ main = "send" => ~BuffersEmpty
  /\ main \in {"finish", "collect", "join", "ok"} => BuffersEmpty
  /\ main \in {"join", "ok"} /\ ~firstError => pending = 0
-----------------------------------------------------------------------------
(* Sequences of games as sets and orders. *)

LEMMA EmptyFacts == SetOf(<<>>) = {} /\ Increasing(<<>>) /\ <<>> \in Seq(Game)
BY DEF SetOf, Increasing

LEMMA NonEmpty ==
  ASSUME NEW s \in Seq(Game)
  PROVE  s # <<>> <=> SetOf(s) # {}
<1>1. s # <<>> => 1 \in DOMAIN s
  OBVIOUS
<1> QED
  BY <1>1, EmptyFacts DEF SetOf

LEMMA GamesAreNumbers == Game \subseteq Nat
BY WriterAssumption DEF Game

LEMMA SetOfGames == ASSUME NEW s \in Seq(Game) PROVE SetOf(s) \subseteq Game
BY DEF SetOf

LEMMA ConcatFacts ==
  ASSUME NEW s \in Seq(Game), NEW t \in Seq(Game)
  PROVE  /\ s \o t \in Seq(Game)
         /\ SetOf(s \o t) = SetOf(s) \union SetOf(t)
         /\ Increasing(s) /\ Increasing(t) /\ Below(SetOf(s), SetOf(t)) => Increasing(s \o t)
<1> DEFINE u == s \o t
<1>1. /\ u \in Seq(Game) /\ Len(s) \in Nat /\ Len(t) \in Nat
      /\ DOMAIN s = 1..Len(s) /\ DOMAIN t = 1..Len(t) /\ DOMAIN u = 1..Len(s) + Len(t)
      /\ \A i \in 1..Len(s) : u[i] = s[i]
      /\ \A i \in 1..Len(t) : u[Len(s) + i] = t[i]
  OBVIOUS
<1>2. \A i \in DOMAIN u : i \in 1..Len(s) \/ \E j \in 1..Len(t) : i = Len(s) + j
  <2> SUFFICES ASSUME NEW i \in 1..Len(s) + Len(t), i \notin 1..Len(s)
               PROVE  \E j \in 1..Len(t) : i = Len(s) + j
    BY <1>1
  <2>1. i - Len(s) \in 1..Len(t) /\ i = Len(s) + (i - Len(s))
    BY <1>1
  <2> QED
    BY <2>1
<1> HIDE DEF u
<1>3. SetOf(u) = SetOf(s) \union SetOf(t)
  <2>1. \A i \in 1..Len(t) : Len(s) + i \in DOMAIN u
    BY <1>1
  <2>2. \A i \in 1..Len(s) : i \in DOMAIN u
    BY <1>1
  <2>3. ASSUME NEW g \in SetOf(u) PROVE g \in SetOf(s) \union SetOf(t)
    <3>1. PICK i \in DOMAIN u : g = u[i]
      BY DEF SetOf
    <3> QED
      BY <1>1, <1>2, <3>1 DEF SetOf
  <2>4. ASSUME NEW i \in 1..Len(s) PROVE s[i] \in SetOf(u)
    BY <1>1, <2>2 DEF SetOf
  <2>5. ASSUME NEW i \in 1..Len(t) PROVE t[i] \in SetOf(u)
    BY <1>1, <2>1 DEF SetOf
  <2> QED
    BY <1>1, <2>3, <2>4, <2>5, ZenonT(30) DEF SetOf
<1>4. ASSUME Increasing(s), Increasing(t), Below(SetOf(s), SetOf(t)),
             NEW i \in DOMAIN u, NEW j \in DOMAIN u, i < j
      PROVE  u[i] < u[j]
  <2>1. CASE j \in 1..Len(s)
    <3>1. i \in 1..Len(s)
      BY <1>1, <1>4, <2>1
    <3> QED
      BY <1>1, <1>4, <2>1, <3>1 DEF Increasing
  <2>2. CASE i \in 1..Len(s) /\ j \notin 1..Len(s)
    <3>1. PICK l \in 1..Len(t) : j = Len(s) + l
      BY <1>2, <2>2
    <3>2. s[i] \in SetOf(s) /\ t[l] \in SetOf(t)
      BY <1>1, <2>2 DEF SetOf
    <3> QED
      BY <1>1, <1>4, <2>2, <3>1, <3>2 DEF Below
  <2>3. CASE i \notin 1..Len(s) /\ j \notin 1..Len(s)
    <3>1. PICK k \in 1..Len(t), l \in 1..Len(t) : i = Len(s) + k /\ j = Len(s) + l
      BY <1>2, <2>3
    <3>2. k < l
      BY <1>1, <1>4, <3>1
    <3> QED
      BY <1>1, <1>4, <3>1, <3>2 DEF Increasing
  <2> QED
    BY <2>1, <2>2, <2>3
<1> QED
  BY <1>1, <1>3, <1>4 DEF Increasing, u

LEMMA AppendFacts ==
  ASSUME NEW s \in Seq(Game), NEW g \in Game
  PROVE  /\ Append(s, g) \in Seq(Game)
         /\ SetOf(Append(s, g)) = SetOf(s) \union {g}
         /\ Increasing(s) /\ Below(SetOf(s), {g}) => Increasing(Append(s, g))
<1>1. Append(s, g) = s \o <<g>> /\ <<g>> \in Seq(Game)
  OBVIOUS
<1>2. SetOf(<<g>>) = {g} /\ Increasing(<<g>>)
  BY DEF SetOf, Increasing
<1> QED
  BY <1>1, <1>2, ConcatFacts

LEMMA TailFacts ==
  ASSUME NEW s \in Seq(Game), s # <<>>
  PROVE  /\ Head(s) \in Game /\ Tail(s) \in Seq(Game)
         /\ SetOf(s) = {Head(s)} \union SetOf(Tail(s))
         /\ Increasing(s) => Increasing(Tail(s)) /\ Below({Head(s)}, SetOf(Tail(s)))
<1>1. /\ Head(s) \in Game /\ Tail(s) \in Seq(Game) /\ Len(s) \in Nat \ {0}
      /\ DOMAIN s = 1..Len(s) /\ DOMAIN Tail(s) = 1..Len(s) - 1
      /\ Head(s) = s[1] /\ 1 \in DOMAIN s
      /\ \A i \in 1..Len(s) - 1 : Tail(s)[i] = s[i + 1]
  OBVIOUS
<1>2. \A i \in DOMAIN s : i = 1 \/ \E j \in DOMAIN Tail(s) : s[i] = Tail(s)[j]
  <2> SUFFICES ASSUME NEW i \in 1..Len(s), i # 1
               PROVE  \E j \in 1..Len(s) - 1 : s[i] = Tail(s)[j]
    BY <1>1
  <2>1. i - 1 \in 1..Len(s) - 1 /\ (i - 1) + 1 = i
    BY <1>1
  <2> QED
    BY <1>1, <2>1
<1>3. \A i \in DOMAIN Tail(s) : i + 1 \in DOMAIN s /\ 1 < i + 1 /\ Tail(s)[i] = s[i + 1]
  BY <1>1
<1>4. SetOf(s) = {Head(s)} \union SetOf(Tail(s))
  BY <1>1, <1>2, <1>3, SMTT(30) DEF SetOf
<1>5. ASSUME Increasing(s) PROVE Increasing(Tail(s)) /\ Below({Head(s)}, SetOf(Tail(s)))
  <2>1. \A i, j \in DOMAIN Tail(s) : i < j => i + 1 < j + 1
    BY <1>1
  <2> QED
    BY <1>1, <1>3, <1>5, <2>1 DEF Increasing, Below, SetOf
<1> QED
  BY <1>1, <1>4, <1>5

LEMMA PrefixFacts ==
  ASSUME NEW s \in Seq(Game), NEW n \in 0..Len(s)
  PROVE  /\ SubSeq(s, 1, n) \in Seq(Game)
         /\ SetOf(SubSeq(s, 1, n)) \subseteq SetOf(s)
         /\ Increasing(s) => Increasing(SubSeq(s, 1, n))
<1>1. /\ SubSeq(s, 1, n) \in Seq(Game) /\ DOMAIN SubSeq(s, 1, n) = 1..n
      /\ \A i \in 1..n : i \in DOMAIN s /\ SubSeq(s, 1, n)[i] = s[i]
  OBVIOUS
<1> QED
  BY <1>1 DEF SetOf, Increasing

(* The batch handed over next. *)
LEMMA HandOver ==
  ASSUME TypeOK, NEW b \in Batches, handed' = Append(handed, b)
  PROVE  /\ handed' \in Seq(Batches) /\ Len(handed) \in Nat
         /\ Len(handed') = Len(handed) + 1 /\ Handed' = Handed \union {Len(handed) + 1}
         /\ handed'[Len(handed) + 1] = b
         /\ \A i \in Handed : handed'[i] = handed[i] /\ handed[i] \in Batches /\ i <= Len(handed)
<1>1. handed \in Seq(Batches)
  BY DEF TypeOK
<1> QED
  BY <1>1 DEF Handed

(* The results that are left when the first n are received. *)
LEMMA RecordFacts ==
  ASSUME TypeOK, NEW n \in 1..Len(results), Record(n)
  PROVE  /\ results' \in Seq([upto : Nat, ok : BOOLEAN])
         /\ received' = results[n].upto /\ results[n].upto \in Nat
         /\ Len(results) \in Nat /\ Len(results') = Len(results) - n
         /\ \A k \in 1..Len(results) : results[k].upto \in Nat
         /\ \A k \in 1..Len(results') : k + n \in 1..Len(results) /\ results'[k] = results[k + n]
         /\ results' = <<>> <=> n = Len(results)
<1>1. results \in Seq([upto : Nat, ok : BOOLEAN]) /\ n # 0
  BY DEF TypeOK
<1>2. results' = SubSeq(results, n + 1, Len(results)) /\ received' = results[n].upto
  BY <1>1 DEF Record
<1> DEFINE R == [upto : Nat, ok : BOOLEAN]
           rest == SubSeq(results, n + 1, Len(results))
           m == Len(results)
<1>3. \A r \in R : r.upto \in Nat
  OBVIOUS
<1>4. results \in Seq(R)
  BY <1>1
<1> HIDE DEF R
<1>5. Len(results) \in Nat /\ \A k \in 1..Len(results) : results[k] \in R
  BY <1>4
<1>6. n + 1 \in Int /\ m \in Int /\ \A k \in n + 1..m : results[k] \in R
  BY <1>5
<1>7. /\ rest \in Seq(R) /\ Len(rest) = IF n + 1 <= m THEN m - (n + 1) + 1 ELSE 0
      /\ \A k \in 1..m - (n + 1) + 1 : rest[k] = results[n + 1 + k - 1]
  BY <1>6, SubSeqProperties
<1> HIDE DEF rest
<1>8. n \in Nat /\ m \in Nat /\ n <= m /\ Len(rest) = m - n
  BY <1>5, <1>7
<1>9. \A k \in 1..m - n : k \in 1..m - (n + 1) + 1 /\ n + 1 + k - 1 = k + n /\ k + n \in 1..m
  BY <1>8
<1>10. \A k \in 1..Len(rest) : k + n \in 1..m /\ rest[k] = results[k + n]
  BY <1>7, <1>8, <1>9
<1>11. rest = <<>> <=> n = m
  BY <1>7, <1>8
<1> QED
  BY <1>2, <1>5, <1>3, <1>7, <1>8, <1>10, <1>11 DEF rest, R
-----------------------------------------------------------------------------
(* The books *)

LEMMA VersionBatchesFacts ==
  ASSUME NEW a \in Nat, NEW b \in Nat
  PROVE  /\ IsFiniteSet({i \in a + 1..b : handed[i].versions # <<>>})
         /\ VersionBatches(a + 1..b) \in Nat
         /\ VersionBatches(a + 1..b) = 0 => \A i \in a + 1..b : handed[i].versions = <<>>
<1> DEFINE S == {i \in a + 1..b : handed[i].versions # <<>>}
<1>1. a + 1 \in Int /\ b \in Int /\ S \in SUBSET (a + 1..b)
  OBVIOUS
<1>2. IsFiniteSet(S)
  BY <1>1, FS_Interval, FS_Subset
<1>3. Cardinality(S) \in Nat /\ (Cardinality(S) = 0 => S = {})
  BY <1>2, FS_CardinalityType, FS_EmptySet
<1> QED
  BY <1>2, <1>3 DEF VersionBatches

LEMMA VersionBatchesSplit ==
  ASSUME NEW a \in Nat, NEW b \in Nat, NEW c \in Nat, a <= b, b <= c
  PROVE  VersionBatches(a + 1..c) = VersionBatches(a + 1..b) + VersionBatches(b + 1..c)
<1> DEFINE S(lo, hi) == {i \in lo + 1..hi : handed[i].versions # <<>>}
<1>1. S(a, c) = S(a, b) \union S(b, c) /\ S(a, b) \intersect S(b, c) = {}
  OBVIOUS
<1>2. IsFiniteSet(S(a, b)) /\ IsFiniteSet(S(b, c))
  BY VersionBatchesFacts
<1>3. Cardinality(S(a, b)) \in Nat /\ Cardinality(S(b, c)) \in Nat
  BY <1>2, FS_CardinalityType
<1> HIDE DEF S
<1>4. Cardinality(S(a, c)) = Cardinality(S(a, b)) + Cardinality(S(b, c)) - Cardinality({})
  BY <1>1, <1>2, FS_Union
<1>5. Cardinality(S(a, c)) = Cardinality(S(a, b)) + Cardinality(S(b, c))
  BY <1>3, <1>4, FS_EmptySet
<1> QED
  BY <1>5 DEF VersionBatches, S

(* Receiving results keeps the books balanced, and the results that are     *)
(* left in order. *)
LEMMA RecordBooks ==
  ASSUME TypeOK, Answered, BooksBalance, UNCHANGED <<handed, settled>>,
         NEW n \in 1..Len(results), Record(n)
  PROVE  /\ BooksBalance' /\ Answered'
         /\ received' \in Nat /\ pending' \in Nat /\ pendingVersions' \in Nat
         /\ results' \in Seq([upto : Nat, ok : BOOLEAN])
<1> DEFINE upto == results[n].upto
<1>1. /\ upto \in Nat /\ received' = upto /\ results' \in Seq([upto : Nat, ok : BOOLEAN])
      /\ Len(results) \in Nat /\ Len(results') = Len(results) - n
      /\ \A k \in 1..Len(results) : results[k].upto \in Nat
      /\ \A k \in 1..Len(results') : k + n \in 1..Len(results) /\ results'[k] = results[k + n]
      /\ results' = <<>> <=> n = Len(results)
  BY RecordFacts
<1>2. /\ received \in Nat /\ settled \in Nat /\ taken \in Nat /\ Len(handed) \in Nat
      /\ received < upto /\ upto <= settled /\ settled <= Len(handed)
  BY SMTT(30) DEF TypeOK, Answered
<1>3. /\ pending' = pending - (upto - received)
      /\ pendingVersions' = pendingVersions - VersionBatches(received + 1..upto)
  BY DEF Record
<1> HIDE DEF upto
<1>4. VersionBatches(received + 1..Len(handed))
        = VersionBatches(received + 1..upto) + VersionBatches(upto + 1..Len(handed))
      /\ VersionBatches(received + 1..upto) \in Nat /\ VersionBatches(upto + 1..Len(handed)) \in Nat
  <2>1. received <= upto /\ upto <= Len(handed)
    BY <1>1, <1>2
  <2>2. VersionBatches(received + 1..upto) \in Nat /\ VersionBatches(upto + 1..Len(handed)) \in Nat
    BY <1>1, <1>2, VersionBatchesFacts
  <2> QED
    BY <1>1, <1>2, <2>1, <2>2, VersionBatchesSplit
<1>5. pending' = Len(handed) - upto /\ pendingVersions' = VersionBatches(upto + 1..Len(handed))
  BY <1>1, <1>2, <1>3, <1>4 DEF BooksBalance
<1>6. BooksBalance'
  BY <1>1, <1>5 DEF BooksBalance, VersionBatches
<1>7. \A k \in 1..Len(results') : n < k + n
  BY <1>1
<1>8. Answered'
  <2>1. \A k \in 1..Len(results') : upto < results'[k].upto /\ results'[k].upto <= settled
    BY <1>1, <1>7 DEF Answered, upto
  <2>2. \A j, k \in 1..Len(results') : j < k => results'[j].upto < results'[k].upto
    <3> SUFFICES ASSUME NEW j \in 1..Len(results'), NEW k \in 1..Len(results'), j < k
                 PROVE  results'[j].upto < results'[k].upto
      OBVIOUS
    <3>1. j + n < k + n
      BY <1>1
    <3> QED
      BY <1>1, <3>1 DEF Answered
  <2>3. CASE n = Len(results)
    <3>1. results' = <<>> /\ upto = settled
      BY <1>1, <2>3 DEF Answered, upto
    <3> QED
      BY <1>1, <1>2, <2>1, <2>2, <3>1 DEF Answered
  <2>4. CASE n # Len(results)
    <3>1. /\ results # <<>> /\ results' # <<>> /\ Len(results') + n = Len(results)
          /\ Len(results') \in 1..Len(results')
      BY <1>1, <2>4
    <3>2. results'[Len(results')].upto = settled
      BY <1>1, <3>1 DEF Answered
    <3> QED
      BY <1>1, <1>2, <2>1, <2>2, <3>1, <3>2 DEF Answered
  <2> QED
    BY <2>3, <2>4
<1> QED
  BY <1>1, <1>2, <1>4, <1>5, <1>6, <1>8

(* A step of main receives results, all of them without an error or it ends *)
(* the run or keeps the error; or it hands over a batch; or it leaves the   *)
(* books alone. *)
LEMMA MainBooks ==
  ASSUME TypeOK, Main
  PROVE  /\ UNCHANGED <<config, thread>>
         /\ \/ UNCHANGED <<books, handed>>
            \/ Send
            \/ /\ UNCHANGED <<handed, buffers, store, made, completed>>
               /\ \E n \in 1..Len(results) : Record(n) /\ (AllOk(n) \/ main' = "err" \/ firstError')
<1> DEFINE Receives == /\ UNCHANGED <<handed, buffers, store, made, completed>>
                       /\ \E n \in 1..Len(results) :
                            Record(n) /\ (AllOk(n) \/ main' = "err" \/ firstError')
<1>1. Len(results) \in Nat /\ DOMAIN results = 1..Len(results)
      /\ (results # <<>> => 1 \in 1..Len(results) /\ (results[1].ok => AllOk(1)))
  BY DEF TypeOK, AllOk
<1>2. DrainOk => UNCHANGED books \/ \E n \in 1..Len(results) : Record(n) /\ AllOk(n)
  BY <1>1 DEF DrainOk, Record
<1>3. DrainFails => UNCHANGED books \/ \E n \in 1..Len(results) : Record(n)
  BY <1>1 DEF DrainFails, Record
<1> USE DEF play, buffers, store
<1>4. CASE StartGame
  BY <1>2, <1>3, <1>4 DEF StartGame, Fail
<1>5. CASE Enqueue \/ Finish
  BY <1>2, <1>3, <1>5 DEF Enqueue, Finish, Fail
<1>6. CASE AwaitVersions
  BY <1>1, <1>6 DEF AwaitVersions, Fail
<1>7. CASE Collect
  BY <1>1, <1>7 DEF Collect, AllOk
<1>8. CASE Send
  BY <1>8 DEF Send
<1>9. CASE RefreshFlush \/ BatchFlush
  BY <1>9 DEF RefreshFlush, BatchFlush, Flush
<1>10. CASE LoadHead \/ CompleteGame \/ FailedGame \/ SendFails \/ RunReturns \/ RunFails
  BY <1>10 DEF LoadHead, CompleteGame, FailedGame, SendFails, RunReturns, RunFails, Fail
<1>11. CASE Collected \/ Join \/ Exit
  BY <1>11 DEF Collected, Join, Exit
<1> QED
  BY <1>4, <1>5, <1>6, <1>7, <1>8, <1>9, <1>10, <1>11 DEF Main

-----------------------------------------------------------------------------
(* What the steps change *)

MainQuiet == UNCHANGED <<completed, made, buffers, handed, store>>

(* The flush of main: every version buffered is inserted, or some of the    *)
(* first and the run ends. *)
MainFlushes ==
  /\ main \in {"refresh", "flush"} /\ FlushDue
  /\ UNCHANGED <<completed, made, runBuffer, handed, runs>>
  /\ \/ versions' = versions \o versionBuffer /\ versionBuffer' = <<>>
     \/ /\ \E n \in 0..Len(versionBuffer) - 1 :
             versions' = versions \o SubSeq(versionBuffer, 1, n)
        /\ main' = "err" /\ UNCHANGED versionBuffer

LEMMA MainMoves ==
  ASSUME Main
  PROVE  MainQuiet \/ MainFlushes \/ CompleteGame \/ Send \/ SendFails
<1> USE DEF play, buffers, store, MainQuiet
<1>1. CASE RefreshFlush \/ BatchFlush
  BY <1>1 DEF RefreshFlush, BatchFlush, Flush, FlushVersions, Fail, MainFlushes
<1>2. CASE StartGame \/ AwaitVersions \/ LoadHead \/ FailedGame \/ Enqueue
  BY <1>2 DEF StartGame, AwaitVersions, LoadHead, FailedGame, Enqueue
<1>3. CASE RunReturns \/ RunFails \/ Finish \/ Collect \/ Collected \/ Join \/ Exit
  BY <1>3 DEF RunReturns, RunFails, Finish, Collect, Collected, Join, Exit
<1> QED
  BY <1>1, <1>2, <1>3 DEF Main

LEMMA WriterMoves ==
  ASSUME Writer
  PROVE  UNCHANGED <<config, main, completed, made, buffers, handed, received, pending,
                     pendingVersions, firstError, started, ended, returned, sender>>
BY DEF Writer, Connect, Refuse, TakeBatch, WriterDone, Absorb, StartFlush, InsertVersion,
       InsertRuns, Prune, Panic, FlushFails, main_, play, buffers

(* Nobody comes back from an error. *)
LEMMA AliveBefore == ASSUME Next, Alive' PROVE Alive
<1> USE DEF Alive
<1>1. CASE StartGame \/ RefreshFlush \/ AwaitVersions \/ LoadHead \/ CompleteGame \/ FailedGame
  BY <1>1 DEF StartGame, RefreshFlush, Flush, AwaitVersions, LoadHead, CompleteGame, FailedGame
<1>2. CASE BatchFlush \/ Enqueue \/ Send \/ SendFails \/ RunReturns \/ RunFails
  BY <1>2 DEF BatchFlush, Flush, Enqueue, Send, SendFails, RunReturns, RunFails
<1>3. CASE Finish \/ Collect \/ Collected \/ Join \/ Exit
  BY <1>3 DEF Finish, Collect, Collected, Join, Exit
<1>4. CASE Writer
  BY <1>4, WriterMoves
<1> QED
  BY <1>1, <1>2, <1>3, <1>4 DEF Next, Main

(* The writer keeps the places of its thread. *)
LEMMA ThreadStep == ASSUME TypeOK, ThreadAt, Next PROVE ThreadAt'
<1> USE DEF ThreadAt
<1>1. taken \in Nat /\ settled \in Nat /\ writer \in WriterAt /\ settled <= taken
  BY DEF TypeOK
<1>2. CASE Main
  BY <1>2, MainBooks DEF thread
<1>3. CASE Connect \/ WriterDone \/ StartFlush \/ Panic
  BY <1>1, <1>3 DEF Connect, WriterDone, StartFlush, Panic
<1>4. CASE TakeBatch \/ Absorb
  <2>1. taken' = taken + 1 /\ settled' = settled /\ writer' = "gather"
    BY <1>4 DEF TakeBatch, Absorb
  <2> QED
    BY <1>1, <2>1
<1>5. CASE Refuse
  BY <1>1, <1>5 DEF Refuse, Answer
<1>6. CASE InsertVersion \/ InsertRuns \/ Prune
  BY <1>1, <1>6 DEF InsertVersion, InsertRuns, Prune, FlushFails, Answer
<1> QED
  BY <1>2, <1>3, <1>4, <1>5, <1>6 DEF Next, Writer

(* An answer covers what is open, up to a batch that was taken. *)
LEMMA AnswerIsNext ==
  ASSUME TypeOK, Answered, NEW upto \in Nat, settled < upto, NEW ok \in BOOLEAN,
         Answer(upto, ok), received' = received
  PROVE  /\ Answered' /\ results' \in Seq([upto : Nat, ok : BOOLEAN])
         /\ Len(results) \in Nat /\ Len(results') = Len(results) + 1
         /\ \A k \in 1..Len(results) : results'[k] = results[k]
         /\ results'[Len(results) + 1] = [upto |-> upto, ok |-> ok]
<1>1. /\ results' = Append(results, [upto |-> upto, ok |-> ok]) /\ settled' = upto
      /\ results \in Seq([upto : Nat, ok : BOOLEAN]) /\ settled \in Nat /\ received \in Nat
  BY DEF TypeOK, Answer
<1> DEFINE new == [upto |-> upto, ok |-> ok]
           R == [upto : Nat, ok : BOOLEAN]
<1>2. new \in R /\ new.upto = upto /\ \A r \in R : r.upto \in Nat
  OBVIOUS
<1> HIDE DEF new, R
<1>3. results' = Append(results, new) /\ results \in Seq(R)
  BY <1>1 DEF new, R
<1>4. /\ results' \in Seq(R) /\ Len(results) \in Nat /\ Len(results') = Len(results) + 1
      /\ \A k \in 1..Len(results) : results'[k] = results[k] /\ results[k] \in R
      /\ results'[Len(results) + 1] = new
  BY <1>2, <1>3
<1>5. \A k \in 1..Len(results) : results[k].upto \in Nat /\ results[k].upto < upto
  BY <1>1, <1>2, <1>4 DEF Answered
<1>6. \A k \in 1..Len(results') : k \in 1..Len(results) \/ k = Len(results) + 1
  BY <1>4
<1>7. Answered'
  <2>1. \A k \in 1..Len(results') : received < results'[k].upto /\ results'[k].upto <= upto
    BY <1>1, <1>2, <1>4, <1>5, <1>6 DEF Answered
  <2>2. \A j, k \in 1..Len(results') : j < k => results'[j].upto < results'[k].upto
    <3> SUFFICES ASSUME NEW j \in 1..Len(results'), NEW k \in 1..Len(results'), j < k
                 PROVE  results'[j].upto < results'[k].upto
      OBVIOUS
    <3>1. j \in 1..Len(results)
      BY <1>4
    <3> QED
      BY <1>2, <1>4, <1>5, <1>6, <3>1 DEF Answered
  <2>3. results' # <<>> /\ received <= upto
    BY <1>1, <1>4 DEF Answered
  <2>4. results'[Len(results')].upto = upto
    BY <1>2, <1>4
  <2> QED
    BY <1>1, <2>1, <2>2, <2>3, <2>4 DEF Answered
<1> QED
  BY <1>4, <1>7 DEF new, R

(* A batch is answered by an error, or after its runs are in. *)
LEMMA WriterAnswers ==
  ASSUME TypeOK, ThreadAt, Writer
  PROVE  /\ received' = received
         /\ \/ UNCHANGED <<results, settled>>
            \/ \E upto \in Nat :
                 /\ settled < upto /\ taken' = upto /\ UNCHANGED store
                 /\ \/ Answer(upto, FALSE)
                    \/ writer = "prune" /\ taken' = taken /\ Answer(upto, TRUE)
<1>1. taken \in Nat /\ settled \in Nat /\ settled <= taken
  BY DEF TypeOK
<1>2. received' = received
  BY WriterMoves
<1>3. CASE Connect \/ TakeBatch \/ WriterDone \/ Absorb \/ StartFlush \/ Panic
  BY <1>2, <1>3 DEF Connect, TakeBatch, WriterDone, Absorb, StartFlush, Panic
<1>4. CASE Refuse
  <2>1. /\ taken = settled /\ taken' = taken + 1 /\ UNCHANGED store
        /\ results' = Append(results, [upto |-> taken', ok |-> FALSE]) /\ settled' = taken'
    BY <1>4 DEF Refuse, ThreadAt, Answer
  <2>2. Answer(taken + 1, FALSE)
    BY <2>1 DEF Answer
  <2>3. taken + 1 \in Nat /\ settled < taken + 1
    BY <1>1, <2>1
  <2> QED
    BY <1>2, <2>1, <2>2, <2>3
<1>5. CASE InsertVersion \/ InsertRuns \/ Prune
  BY <1>1, <1>2, <1>5 DEF InsertVersion, InsertRuns, Prune, FlushFails, ThreadAt, store
<1> QED
  BY <1>3, <1>4, <1>5 DEF Writer

LEMMA AnsweredStep ==
  ASSUME TypeOK, ThreadAt, Answered, BooksBalance, Next
  PROVE  Answered'
<1>1. CASE Main
  <2>1. settled' = settled
    BY <1>1, MainBooks DEF thread
  <2>2. CASE UNCHANGED <<books, handed>> \/ Send
    BY <2>1, <2>2 DEF Answered, books, Send
  <2>3. CASE \E n \in 1..Len(results) : Record(n) /\ UNCHANGED handed
    BY <2>1, <2>3, RecordBooks
  <2> QED
    BY <1>1, <2>2, <2>3, MainBooks
<1>2. CASE Writer
  <2>1. CASE UNCHANGED <<results, settled>>
    BY <1>2, <2>1, WriterAnswers DEF Answered
  <2>2. CASE ~UNCHANGED <<results, settled>>
    <3>1. PICK upto \in Nat, ok \in BOOLEAN : settled < upto /\ Answer(upto, ok)
      BY <1>2, <2>2, WriterAnswers
    <3> QED
      BY <1>2, <3>1, AnswerIsNext, WriterAnswers
  <2> QED
    BY <2>1, <2>2
<1> QED
  BY <1>1, <1>2 DEF Next

LEMMA BooksStep ==
  ASSUME TypeOK, Answered, BooksBalance, Next
  PROVE  /\ BooksBalance' /\ received' \in Nat /\ pending' \in Nat /\ pendingVersions' \in Nat
<1>1. /\ received \in Nat /\ pending \in Nat /\ pendingVersions \in Nat /\ settled \in Nat /\ taken \in Nat
      /\ received <= settled /\ settled <= taken /\ taken <= Len(handed) /\ Len(handed) \in Nat
  BY DEF TypeOK, Answered
<1>2. CASE Main
  <2>1. settled' = settled
    BY <1>2, MainBooks DEF thread
  <2>2. CASE UNCHANGED <<books, handed>>
    BY <1>1, <2>2 DEF BooksBalance, VersionBatches, books
  <2>3. CASE \E n \in 1..Len(results) : Record(n) /\ UNCHANGED handed
    BY <2>1, <2>3, RecordBooks
  <2>4. CASE Send
    <3> DEFINE b == [versions |-> versionBuffer, runs |-> runBuffer]
               S == {i \in received + 1..Len(handed) : handed[i].versions # <<>>}
               T == {i \in received + 1..Len(handed') : handed'[i].versions # <<>>}
    <3>1. b \in Batches /\ b.versions = versionBuffer
      BY DEF TypeOK, Batches
    <3>2. handed' = Append(handed, b) /\ UNCHANGED <<received, results>> /\ pending' = pending + 1
          /\ pendingVersions' = pendingVersions + IF versionBuffer = <<>> THEN 0 ELSE 1
      BY <2>4 DEF Send
    <3> HIDE DEF b
    <3>3. /\ Len(handed') = Len(handed) + 1 /\ handed'[Len(handed) + 1] = b
          /\ \A i \in Handed : handed'[i] = handed[i]
      BY <3>1, <3>2, HandOver
    <3>4. \A i \in received + 1..Len(handed) : handed'[i] = handed[i]
      BY <1>1, <3>3 DEF Handed
    <3>5. \A i \in received + 1..Len(handed') : i \in received + 1..Len(handed) \/ i = Len(handed) + 1
      BY <1>1, <3>3
    <3>6. Len(handed) + 1 \in received + 1..Len(handed') /\ Len(handed) + 1 \notin S
      BY <1>1, <3>3
    <3>7. \A i \in received + 1..Len(handed) : i \in received + 1..Len(handed')
      BY <1>1, <3>3
    <3>8. IsFiniteSet(S) /\ Cardinality(S) \in Nat
      BY <1>1, VersionBatchesFacts, FS_CardinalityType
    <3>9. VersionBatches(received + 1..Len(handed))' = Cardinality(T)
           /\ VersionBatches(received + 1..Len(handed)) = Cardinality(S)
      BY <3>2 DEF VersionBatches
    <3> HIDE DEF S, T
    <3>10. Cardinality(T) = pendingVersions' /\ pending' = Len(handed') - received' => BooksBalance'
      BY <3>9 DEF BooksBalance
    <3>11. CASE versionBuffer = <<>>
      <4>1. T = S
        BY <3>1, <3>3, <3>4, <3>5, <3>7, <3>11 DEF S, T
      <4> QED
        BY <1>1, <3>2, <3>3, <3>11, <3>9, <3>10, <4>1 DEF BooksBalance
    <3>12. CASE versionBuffer # <<>>
      <4>1. T = S \union {Len(handed) + 1}
        BY <3>1, <3>3, <3>4, <3>5, <3>6, <3>7, <3>12 DEF S, T
      <4>2. Cardinality(T) = Cardinality(S) + 1
        BY <3>6, <3>8, <4>1, FS_AddElement
      <4> QED
        BY <1>1, <3>2, <3>3, <3>8, <3>12, <3>9, <3>10, <4>2 DEF BooksBalance
    <3> QED
      BY <3>11, <3>12
  <2> QED
    BY <1>2, <2>2, <2>3, <2>4, MainBooks
<1>3. CASE Writer
  <2>1. UNCHANGED <<handed, received, pending, pendingVersions>>
    BY <1>3, WriterMoves
  <2> QED
    BY <1>1, <2>1 DEF BooksBalance, VersionBatches
<1> QED
  BY <1>2, <1>3 DEF Next

(* What was handed over stays, and the store only grows. *)
LEMMA StoreGrows ==
  ASSUME TypeOK, Next
  PROVE  /\ handed' \in Seq(Batches) /\ Handed \subseteq Handed'
         /\ \A i \in Handed : handed'[i] = handed[i]
         /\ versions' \in Seq(Game) /\ runs' \in Seq(Game)
         /\ SetOf(versions) \subseteq SetOf(versions') /\ SetOf(runs) \subseteq SetOf(runs')
<1>1. /\ handed \in Seq(Batches) /\ versions \in Seq(Game) /\ runs \in Seq(Game)
      /\ versionBuffer \in Seq(Game) /\ batch \in Batches
  BY DEF TypeOK
<1>2. batch.versions \in Seq(Game) /\ batch.runs \in Seq(Game)
  BY <1>1 DEF Batches
<1>3. CASE UNCHANGED <<handed, store>>
  BY <1>1, <1>3 DEF store, Handed
<1>4. CASE Send
  <2>1. [versions |-> versionBuffer, runs |-> runBuffer] \in Batches
    BY DEF TypeOK, Batches
  <2>2. UNCHANGED store /\ handed' = Append(handed, [versions |-> versionBuffer, runs |-> runBuffer])
    BY <1>4 DEF Send
  <2> QED
    BY <1>1, <2>1, <2>2, HandOver DEF store
<1>5. CASE MainFlushes
  <2>1. UNCHANGED <<handed, runs>>
    BY <1>5 DEF MainFlushes
  <2>2. CASE versions' = versions \o versionBuffer
    BY <1>1, <2>1, <2>2, ConcatFacts DEF Handed
  <2>3. CASE versions' # versions \o versionBuffer
    <3>1. PICK n \in 0..Len(versionBuffer) - 1 : versions' = versions \o SubSeq(versionBuffer, 1, n)
      BY <1>5, <2>3 DEF MainFlushes
    <3>2. n \in 0..Len(versionBuffer)
      BY <1>1
    <3>3. SubSeq(versionBuffer, 1, n) \in Seq(Game)
      BY <1>1, <3>2, PrefixFacts
    <3> QED
      BY <1>1, <2>1, <3>1, <3>3, ConcatFacts DEF Handed
  <2> QED
    BY <2>2, <2>3
<1>6. CASE Main
  BY <1>3, <1>4, <1>5, <1>6, MainMoves DEF MainQuiet, CompleteGame, SendFails
<1>7. CASE InsertVersion
  <2>1. UNCHANGED <<handed, runs>> /\ batch.versions # <<>>
        /\ (versions' = Append(versions, Head(batch.versions)) \/ versions' = versions)
    BY <1>7 DEF InsertVersion, FlushFails, main_
  <2>2. Head(batch.versions) \in Game
    BY <1>2, <2>1, TailFacts
  <2> QED
    <3>1. CASE versions' = versions
      BY <1>1, <2>1, <3>1 DEF Handed
    <3>2. CASE versions' = Append(versions, Head(batch.versions))
      <4>1. versions' \in Seq(Game) /\ SetOf(versions) \subseteq SetOf(versions')
        BY <1>1, <2>2, <3>2, AppendFacts
      <4> QED
        BY <1>1, <2>1, <4>1 DEF Handed
    <3> QED
      BY <2>1, <3>1, <3>2
<1>8. CASE InsertRuns
  <2>1. UNCHANGED <<handed, versions>> /\ (runs' = runs \o batch.runs \/ runs' = runs)
    BY <1>8 DEF InsertRuns, FlushFails, main_
  <2> QED
    BY <1>1, <1>2, <2>1, ConcatFacts DEF Handed
<1>9. CASE Connect \/ Refuse \/ TakeBatch \/ WriterDone \/ Absorb \/ StartFlush \/ Prune \/ Panic
  BY <1>3, <1>9 DEF Connect, Refuse, TakeBatch, WriterDone, Absorb, StartFlush, Prune, Panic,
                    FlushFails, main_
<1> QED
  BY <1>6, <1>7, <1>8, <1>9 DEF Next, Writer

LEMMA StoredStays == ASSUME TypeOK, Next, NEW i \in Handed, Stored(i) PROVE Stored(i)'
BY StoreGrows DEF Stored, HandedVersions, HandedRuns

LEMMA ErrorStays == ASSUME Next, firstError PROVE firstError'
<1>1. CASE StartGame \/ RefreshFlush \/ AwaitVersions \/ LoadHead \/ CompleteGame \/ FailedGame
  BY <1>1 DEF StartGame, RefreshFlush, Flush, AwaitVersions, LoadHead, CompleteGame, FailedGame
<1>2. CASE BatchFlush \/ Enqueue \/ Send \/ SendFails \/ RunReturns \/ RunFails
  BY <1>2 DEF BatchFlush, Flush, Enqueue, Send, SendFails, RunReturns, RunFails
<1>3. CASE Finish \/ Collect \/ Collected \/ Join \/ Exit
  BY <1>3 DEF Finish, Collect, Collected, Join, Exit
<1>4. CASE Writer
  BY <1>4, WriterMoves
<1> QED
  BY <1>1, <1>2, <1>3, <1>4 DEF Next, Main

(* The numbers of the batches. *)
LEMMA Places ==
  ASSUME TypeOK, Answered
  PROVE  /\ received \in Nat /\ settled \in Nat /\ taken \in Nat /\ Len(handed) \in Nat
         /\ received <= settled /\ settled <= taken /\ taken <= Len(handed)
         /\ 1..received \subseteq Handed /\ 1..settled \subseteq Handed /\ 1..taken \subseteq Handed
<1>1. /\ received \in Nat /\ settled \in Nat /\ taken \in Nat /\ Len(handed) \in Nat
      /\ received <= settled /\ settled <= taken /\ taken <= Len(handed)
  BY DEF TypeOK, Answered
<1> QED
  BY <1>1 DEF Handed

(* The result that covers a batch main has not received stays. *)
LEMMA CoverStays ==
  ASSUME TypeOK, Answered, NEW n \in 1..Len(results), Record(n),
         NEW i \in received' + 1..settled, NEW k \in 1..Len(results), Covers(k, i), ~results[k].ok
  PROVE  \E l \in 1..Len(results') : Covers(l, i)' /\ ~results'[l].ok
<1>1. /\ results[n].upto \in Nat /\ received' = results[n].upto
      /\ Len(results) \in Nat /\ Len(results') = Len(results) - n
      /\ \A l \in 1..Len(results) : results[l].upto \in Nat
      /\ \A l \in 1..Len(results') : l + n \in 1..Len(results) /\ results'[l] = results[l + n]
  BY RecordFacts
<1>2. i \in Nat /\ results[n].upto < i /\ i <= results[k].upto
  BY <1>1, Places DEF Covers
<1>3. n < k
  <2>1. k < n => results[k].upto < results[n].upto
    BY DEF Answered
  <2> QED
    BY <1>1, <1>2, <2>1
<1>4. k - n \in 1..Len(results') /\ (k - n) + n = k
  BY <1>1, <1>3
<1>5. results'[k - n] = results[k]
  BY <1>1, <1>4
<1>6. k - n > 1 => k - n - 1 \in 1..Len(results') /\ (k - n - 1) + n = k - 1 /\ k > 1
  BY <1>1, <1>3
<1>7. k - n > 1 => results'[k - n - 1] = results[k - 1] /\ results[k - 1].upto < i
  BY <1>1, <1>6 DEF Covers
<1>8. Covers(k - n, i)'
  BY <1>2, <1>5, <1>7 DEF Covers
<1> QED
  BY <1>4, <1>5, <1>8

LEMMA OkIsStoredStep ==
  ASSUME TypeOK, ThreadAt, Answered, FlushHolds, OkIsStored, Next
  PROVE  OkIsStored'
<1>1. /\ received \in Nat /\ settled \in Nat /\ taken \in Nat /\ Len(handed) \in Nat
      /\ received <= settled /\ settled <= taken /\ taken <= Len(handed)
  BY Places
<1>2. \A i \in Handed : Stored(i) => Stored(i)'
  BY StoredStays
<1>3. \A i \in received + 1..taken : i \in Handed
  BY <1>1 DEF Handed
<1>4. CASE UNCHANGED <<received, settled, results>>
  BY <1>1, <1>2, <1>3, <1>4 DEF OkIsStored, Covers
<1>5. ASSUME NEW n \in 1..Len(results), Record(n), settled' = settled
      PROVE  OkIsStored'
  <2>1. PICK r \in Nat : received' = r /\ received < r
    BY <1>5, RecordFacts DEF Answered
  <2> SUFFICES ASSUME NEW i \in r + 1..settled, ~Stored(i)'
               PROVE  \E l \in 1..Len(results') : Covers(l, i)' /\ ~results'[l].ok
    BY <1>5, <2>1 DEF OkIsStored
  <2>2. i \in received + 1..settled /\ i \in received + 1..taken
    BY <1>1, <2>1
  <2>3. i \in received + 1..settled /\ i \in Handed
    BY <1>3, <2>2
  <2>4. PICK k \in 1..Len(results) : Covers(k, i) /\ ~results[k].ok
    BY <1>2, <2>3 DEF OkIsStored
  <2> QED
    BY <1>5, <2>1, <2>4, CoverStays
<1>6. ASSUME NEW upto \in Nat, NEW ok \in BOOLEAN, settled < upto, taken' = upto,
             received' = received, Answer(upto, ok),
             ok => writer = "prune" /\ taken' = taken
      PROVE  OkIsStored'
  <2>1. /\ Len(results) \in Nat /\ Len(results') = Len(results) + 1
        /\ \A k \in 1..Len(results) : results'[k] = results[k]
        /\ results'[Len(results) + 1] = [upto |-> upto, ok |-> ok]
    BY <1>6, AnswerIsNext
  <2>2. settled' = upto
    BY <1>6 DEF Answer
  <2> SUFFICES ASSUME NEW i \in received + 1..upto, ~Stored(i)'
               PROVE  \E l \in 1..Len(results') : Covers(l, i)' /\ ~results'[l].ok
    BY <1>6, <2>2 DEF OkIsStored
  <2>3. CASE i <= settled
    <3>1. i \in received + 1..settled /\ i \in Handed
      BY <1>1, <1>3, <2>3
    <3>2. PICK k \in 1..Len(results) : Covers(k, i) /\ ~results[k].ok
      BY <1>2, <3>1 DEF OkIsStored
    <3>3. k > 1 => k - 1 \in 1..Len(results)
      BY <2>1
    <3>4. k \in 1..Len(results') /\ Covers(k, i)' /\ ~results'[k].ok
      BY <2>1, <3>2, <3>3 DEF Covers
    <3> QED
      BY <3>4
  <2>4. CASE ~(i <= settled)
    <3>1. i \in settled + 1..upto
      BY <1>1, <2>4
    <3>2. ~ok
      <4>1. ASSUME ok PROVE FALSE
        <5>1. upto = taken /\ writer = "prune"
          BY <1>6, <4>1
        <5>2. Stored(i) /\ i \in Handed
          BY <1>1, <1>3, <3>1, <5>1 DEF FlushHolds
        <5> QED
          BY <1>2, <5>2
      <4> QED
        BY <4>1
    <3>3. Len(results) > 0 => results[Len(results)].upto = settled /\ Len(results) \in 1..Len(results)
      BY <2>1 DEF Answered
    <3>4. Len(results) + 1 > 1 => results'[Len(results) + 1 - 1].upto < i
      BY <1>1, <2>1, <3>1, <3>3
    <3>5. PICK l \in Nat : l = Len(results) + 1
      BY <2>1
    <3>6. results'[l].upto = upto /\ results'[l].ok = ok
      BY <2>1, <3>5
    <3>7. i <= upto /\ l \in 1..Len(results')
      BY <2>1, <3>1, <3>5
    <3>8. Covers(l, i)'
      BY <3>4, <3>5, <3>6, <3>7 DEF Covers
    <3> QED
      BY <3>2, <3>6, <3>7, <3>8
  <2> QED
    BY <2>3, <2>4
<1>7. CASE Main
  BY <1>4, <1>5, <1>7, MainBooks DEF books, thread, Send
<1>8. CASE Writer
  BY <1>4, <1>6, <1>8, WriterAnswers
<1> QED
  BY <1>7, <1>8 DEF Next

LEMMA ReceivedStoredStep ==
  ASSUME TypeOK, ThreadAt, Answered, OkIsStored, ReceivedStored, Next
  PROVE  ReceivedStored'
<1> SUFFICES ASSUME Alive', ~firstError' PROVE \A i \in 1..received' : Stored(i)'
  BY DEF ReceivedStored
<1>1. Alive /\ ~firstError
  BY AliveBefore, ErrorStays
<1>2. \A i \in Handed : Stored(i) => Stored(i)'
  BY StoredStays
<1>3. \A i \in 1..received : Stored(i)'
  BY <1>1, <1>2, Places DEF ReceivedStored
<1>4. ASSUME NEW n \in 1..Len(results), Record(n), AllOk(n), NEW i \in 1..received'
      PROVE  Stored(i)'
  <2>1. /\ received' = results[n].upto /\ Len(results) \in Nat
        /\ \A k \in 1..Len(results) : results[k].upto \in Nat
    BY <1>4, RecordFacts
  <2>2. received' <= settled /\ received' \in Nat
    BY <2>1 DEF Answered
  <2>3. CASE i <= received
    BY <1>3, <2>2, <2>3, Places
  <2>4. CASE ~(i <= received)
    <3>1. i \in received + 1..settled /\ i \in Handed
      BY <2>2, <2>4, Places DEF Handed
    <3>2. ASSUME NEW k \in 1..Len(results), Covers(k, i), ~results[k].ok
          PROVE  FALSE
      <4>1. n < k
        BY <1>4, <2>1, <3>2 DEF AllOk
      <4>2. k > 1 /\ k - 1 \in 1..Len(results) /\ (n < k - 1 \/ n = k - 1)
        BY <2>1, <4>1
      <4>3. results[n].upto <= results[k - 1].upto
        BY <2>1, <4>2, SMTT(30) DEF Answered
      <4>4. results[k - 1].upto < i /\ results[k - 1].upto \in Nat
        BY <2>1, <3>2, <4>2 DEF Covers
      <4> QED
        BY <2>1, <4>3, <4>4
    <3> QED
      BY <1>2, <3>1, <3>2 DEF OkIsStored
  <2> QED
    BY <2>3, <2>4
<1>5. CASE received' = received
  BY <1>3, <1>5
<1>6. CASE Main
  <2>1. CASE UNCHANGED <<books, handed>> \/ Send
    BY <1>5, <2>1 DEF books, Send
  <2>2. CASE \E n \in 1..Len(results) : Record(n) /\ (AllOk(n) \/ main' = "err" \/ firstError')
    BY <1>4, <2>2 DEF Alive
  <2> QED
    BY <1>6, <2>1, <2>2, MainBooks
<1>7. CASE Writer
  BY <1>5, <1>7, WriterMoves
<1> QED
  BY <1>6, <1>7 DEF Next

-----------------------------------------------------------------------------
(* The places of main, and the order of the games *)

LEMMA MainHasStep ==
  ASSUME TypeOK, MainHas, Next, pendingVersions' \in Nat
  PROVE  MainHas'
<1> USE DEF MainHas, buffers, BuffersEmpty
<1>1. main \in MainAt /\ pendingVersions \in Nat
  BY DEF TypeOK
<1>2. CASE StartGame
  BY <1>2 DEF StartGame, Fail, play
<1>3. CASE RefreshFlush
  BY <1>1, <1>3 DEF RefreshFlush, Flush, FlushVersions, FlushDue, AfterRefresh, Fail, play, books
<1>4. CASE AwaitVersions
  BY <1>4 DEF AwaitVersions, Fail, play
<1>5. CASE LoadHead \/ FailedGame \/ RunReturns \/ RunFails
  BY <1>5 DEF LoadHead, FailedGame, RunReturns, RunFails, Fail, play, books
<1>6. CASE CompleteGame
  BY <1>6 DEF CompleteGame, books
<1>7. CASE BatchFlush
  BY <1>7 DEF BatchFlush, Flush, FlushVersions, Fail, play, books
<1>8. CASE Enqueue
  BY <1>8 DEF Enqueue, AfterEnqueue, Fail, play
<1>9. CASE Send \/ SendFails
  BY <1>9 DEF Send, SendFails, AfterEnqueue, Fail, play, books
<1>10. CASE Finish
  BY <1>10 DEF Finish, Fail, play
<1>11. CASE Collect
  BY <1>11 DEF Collect, play
<1>12. CASE Collected \/ Join \/ Exit
  BY <1>12 DEF Collected, Join, Exit, play, books
<1>13. CASE Writer
  BY <1>13, WriterMoves
<1> QED
  BY <1>2, <1>3, <1>4, <1>5, <1>6, <1>7, <1>8, <1>9, <1>10, <1>11, <1>12, <1>13 DEF Next, Main

(* With both switches on, the buffer is empty once main has flushed it. *)
LEMMA BufferFlushed ==
  ASSUME TypeOK, Next, BothFlush,
         main \in {"wait", "load", "enqueue", "send"} => versionBuffer = <<>>
  PROVE  main' \in {"wait", "load", "enqueue", "send"} => versionBuffer' = <<>>
<1> USE DEF BothFlush, buffers
<1>1. CASE StartGame \/ AwaitVersions \/ LoadHead \/ FailedGame
  BY <1>1 DEF StartGame, AwaitVersions, LoadHead, FailedGame, Fail
<1>2. CASE RefreshFlush \/ BatchFlush
  BY <1>2 DEF RefreshFlush, BatchFlush, Flush, FlushVersions, FlushDue, Fail
<1>3. CASE CompleteGame \/ RunReturns \/ RunFails
  BY <1>3 DEF CompleteGame, RunReturns, RunFails, Fail
<1>4. CASE Enqueue \/ Send \/ SendFails
  BY <1>4 DEF Enqueue, Send, SendFails, AfterEnqueue, Fail
<1>5. CASE Finish \/ Collect \/ Collected \/ Join \/ Exit
  BY <1>5 DEF Finish, Collect, Collected, Join, Exit, Fail
<1>6. CASE Writer
  BY <1>6, WriterMoves
<1> QED
  BY <1>1, <1>2, <1>3, <1>4, <1>5, <1>6 DEF Next, Main

(* The batch that Send hands over. *)
LEMMA SendHandsOver ==
  ASSUME TypeOK, Send
  PROVE  /\ Handed' = Handed \union {Len(handed) + 1} /\ Len(handed) \in Nat
         /\ Len(handed) + 1 \notin Handed
         /\ \A i \in Handed : handed'[i] = handed[i] /\ i < Len(handed) + 1
         /\ handed'[Len(handed) + 1] = [versions |-> versionBuffer, runs |-> runBuffer]
         /\ versionBuffer' = <<>> /\ runBuffer' = <<>> /\ main = "send"
         /\ UNCHANGED <<completed, made, store>>
<1>1. [versions |-> versionBuffer, runs |-> runBuffer] \in Batches
  BY DEF TypeOK, Batches
<1>2. handed' = Append(handed, [versions |-> versionBuffer, runs |-> runBuffer])
  BY DEF Send
<1>3. Len(handed) \in Nat
  BY DEF TypeOK
<1>4. /\ Handed' = Handed \union {Len(handed) + 1}
      /\ \A i \in Handed : handed'[i] = handed[i]
      /\ handed'[Len(handed) + 1] = [versions |-> versionBuffer, runs |-> runBuffer]
  BY <1>1, <1>2, HandOver
<1>5. Len(handed) + 1 \notin Handed /\ \A i \in Handed : i < Len(handed) + 1
  BY <1>3 DEF Handed
<1> QED
  BY <1>3, <1>4, <1>5 DEF Send, play

LEMMA OneConnectionStep ==
  ASSUME TypeOK, OneConnection, Next
  PROVE  OneConnection'
<1> SUFFICES ASSUME BothFlush'
             PROVE  /\ \A i \in Handed' : HandedVersions(i)' = {}
                    /\ main' \in {"wait", "load", "enqueue", "send"} => versionBuffer' = <<>>
  BY DEF OneConnection
<1>1. config' = config
  BY MainBooks, WriterMoves DEF Next
<1>2. BothFlush
  BY <1>1 DEF BothFlush
<1>3. main' \in {"wait", "load", "enqueue", "send"} => versionBuffer' = <<>>
  BY <1>2, BufferFlushed DEF OneConnection
<1>4. ASSUME NEW i \in Handed' PROVE HandedVersions(i)' = {}
  <2>1. CASE i \in Handed
    BY <1>2, <2>1, StoreGrows DEF OneConnection, HandedVersions
  <2>2. CASE i \notin Handed
    <3>1. Send
      <4>1. CASE UNCHANGED handed
        BY <1>4, <2>2, <4>1 DEF Handed
      <4>2. CASE Main
        BY <4>1, <4>2, MainMoves DEF MainQuiet, MainFlushes, CompleteGame, SendFails
      <4> QED
        BY <4>1, <4>2, WriterMoves DEF Next
    <3>2. versionBuffer = <<>> /\ i = Len(handed) + 1
      BY <1>2, <1>4, <2>2, <3>1, SendHandsOver DEF OneConnection
    <3>3. handed'[i].versions = <<>>
      BY <3>1, <3>2, SendHandsOver
    <3> QED
      BY <3>3, EmptyFacts DEF HandedVersions
  <2> QED
    BY <2>1, <2>2
<1> QED
  BY <1>3, <1>4

(* Games up to completed are before the next one. *)
LEMMA NextGame ==
  ASSUME TypeOK, CompleteGame
  PROVE  /\ completed + 1 \in Game /\ completed' = completed + 1
         /\ UNCHANGED <<handed, store>> /\ main = "idle"
         /\ runBuffer' = Append(runBuffer, completed + 1)
         /\ \/ versionBuffer' = Append(versionBuffer, completed + 1)
               /\ made' = made \union {completed + 1}
            \/ UNCHANGED <<versionBuffer, made>>
         /\ completed + 1 \notin 1..completed
         /\ 1..completed' = 1..completed \union {completed + 1}
         /\ \A S \in SUBSET (1..completed) : Below(S, {completed + 1})
<1>1. completed \in Nat /\ completed < Games /\ Games \in Nat
  BY WriterAssumption DEF TypeOK, CompleteGame
<1>2. 1..completed + 1 = 1..completed \union {completed + 1}
  BY <1>1
<1>3. \A S \in SUBSET (1..completed) : Below(S, {completed + 1})
  BY <1>1 DEF Below
<1> QED
  <2>1. /\ completed' = completed + 1 /\ UNCHANGED <<handed, store>> /\ main = "idle"
        /\ runBuffer' = Append(runBuffer, completed')
        /\ \/ versionBuffer' = Append(versionBuffer, completed') /\ made' = made \union {completed'}
           \/ UNCHANGED <<versionBuffer, made>>
    BY DEF CompleteGame
  <2>2. completed + 1 \in Game /\ completed + 1 \notin 1..completed
    BY <1>1 DEF Game
  <2> QED
    BY <1>2, <1>3, <2>1, <2>2

(* The buffers and the batches keep the order of the games. *)
LEMMA HandedInOrderStep ==
  ASSUME TypeOK, HandedInOrder, MainHas, Next
  PROVE  HandedInOrder'
<1>1. CASE UNCHANGED <<completed, made, buffers, handed>>
  BY <1>1 DEF HandedInOrder, HandedRuns, HandedVersions, Handed, buffers
<1>2. CASE SendFails
  <2>1. UNCHANGED <<completed, made, handed>> /\ versionBuffer' = <<>> /\ runBuffer' = <<>>
    BY <1>2 DEF SendFails, play
  <2> QED
    BY <2>1, EmptyFacts DEF HandedInOrder, HandedRuns, HandedVersions, Handed, Below
<1>3. CASE MainFlushes
  <2>1. UNCHANGED <<completed, made, handed, runBuffer>>
        /\ (versionBuffer' = <<>> \/ versionBuffer' = versionBuffer)
    BY <1>3 DEF MainFlushes
  <2> QED
    BY <2>1, EmptyFacts DEF HandedInOrder, HandedRuns, HandedVersions, Handed, Below
<1>4. CASE CompleteGame
  <2> DEFINE g == completed + 1
  <2>1. /\ g \in Game /\ completed' = completed + 1 /\ UNCHANGED handed
        /\ runBuffer' = Append(runBuffer, g)
        /\ \/ versionBuffer' = Append(versionBuffer, g) /\ made' = made \union {g}
           \/ UNCHANGED <<versionBuffer, made>>
        /\ (1..completed)' = 1..completed \union {g}
        /\ \A S \in SUBSET (1..completed) : Below(S, {g})
    BY <1>4, NextGame
  <2>2. runBuffer \in Seq(Game) /\ versionBuffer \in Seq(Game) /\ made \subseteq 1..completed
    BY DEF TypeOK
  <2> HIDE DEF g
  <2>3. SetOf(runBuffer') = SetOf(runBuffer) \union {g} /\ Increasing(runBuffer')
    <3>1. Below(SetOf(runBuffer), {g})
      BY <2>1 DEF HandedInOrder
    <3> QED
      BY <2>1, <2>2, <3>1, AppendFacts DEF HandedInOrder
  <2>4. /\ \/ SetOf(versionBuffer') = SetOf(versionBuffer) \union {g} /\ g \in made'
           \/ SetOf(versionBuffer') = SetOf(versionBuffer)
        /\ Increasing(versionBuffer') /\ made \subseteq made'
    <3>1. Below(SetOf(versionBuffer), {g})
      BY <2>1, <2>2 DEF HandedInOrder
    <3> QED
      BY <2>1, <2>2, <3>1, AppendFacts, ZenonT(30) DEF HandedInOrder
  <2>5. ASSUME NEW i \in Handed
        PROVE  /\ Below(HandedRuns(i), {g}) /\ Below(HandedVersions(i), {g})
               /\ HandedRuns(i) \subseteq (1..completed)' /\ HandedVersions(i) \subseteq made'
    BY <2>1, <2>2, <2>4 DEF HandedInOrder
  <2>6. \A S, T, U : U = T \union {g} /\ Below(S, T) /\ Below(S, {g}) => Below(S, U)
    BY DEF Below
  <2>7. ASSUME NEW i \in Handed
        PROVE  Below(HandedRuns(i), SetOf(runBuffer')) /\ Below(HandedVersions(i), SetOf(versionBuffer'))
    BY <2>3, <2>4, <2>5, <2>6 DEF HandedInOrder
  <2>8. SetOf(versionBuffer') \subseteq SetOf(runBuffer') /\ SetOf(runBuffer') \subseteq (1..completed)'
        /\ SetOf(versionBuffer') \subseteq made'
    BY <2>1, <2>3, <2>4 DEF HandedInOrder
  <2>9. Handed' = Handed /\ \A i \in Handed : HandedRuns(i)' = HandedRuns(i)
                                             /\ HandedVersions(i)' = HandedVersions(i)
    BY <2>1 DEF Handed, HandedRuns, HandedVersions
  <2>10. /\ \A i \in Handed : Increasing(handed[i].runs) /\ Increasing(handed[i].versions)
                              /\ HandedRuns(i) # {}
         /\ \A i, j \in Handed : i < j => Below(HandedRuns(i), HandedRuns(j))
                                         /\ Below(HandedVersions(i), HandedVersions(j))
    BY DEF HandedInOrder
  <2> QED
    BY <2>1, <2>3, <2>4, <2>5, <2>7, <2>8, <2>9, <2>10, ZenonT(30) DEF HandedInOrder
<1>5. CASE Send
  <2>1. PICK m \in Nat : m = Len(handed) + 1
    BY DEF TypeOK
  <2>2. /\ Handed' = Handed \union {m} /\ m \notin Handed
        /\ \A i \in Handed : handed'[i] = handed[i] /\ i < m
        /\ handed'[m].versions = versionBuffer /\ handed'[m].runs = runBuffer
        /\ versionBuffer' = <<>> /\ runBuffer' = <<>> /\ main = "send"
        /\ UNCHANGED <<completed, made>>
    BY <1>5, <2>1, SendHandsOver
  <2>3. SetOf(versionBuffer') = {} /\ SetOf(runBuffer') = {} /\ Increasing(versionBuffer')
        /\ Increasing(runBuffer')
    BY <2>2, EmptyFacts
  <2>4. \A i \in Handed : HandedRuns(i)' = HandedRuns(i) /\ HandedVersions(i)' = HandedVersions(i)
    BY <2>2 DEF HandedRuns, HandedVersions
  <2>5. HandedRuns(m)' = SetOf(runBuffer) /\ HandedVersions(m)' = SetOf(versionBuffer)
    BY <2>2 DEF HandedRuns, HandedVersions
  <2>6. SetOf(runBuffer) # {}
    <3>1. runBuffer \in Seq(Game) /\ versionBuffer \in Seq(Game)
      BY DEF TypeOK
    <3> QED
      BY <2>2, <3>1, NonEmpty DEF HandedInOrder, MainHas, BuffersEmpty
  <2>7. \A i \in Handed' :
          /\ Increasing(handed'[i].runs) /\ Increasing(handed'[i].versions)
          /\ HandedRuns(i)' \subseteq 1..completed /\ HandedVersions(i)' \subseteq made
          /\ HandedRuns(i)' # {}
    BY <2>2, <2>4, <2>5, <2>6 DEF HandedInOrder
  <2>8. ASSUME NEW i \in Handed', NEW j \in Handed', i < j
        PROVE  Below(HandedRuns(i)', HandedRuns(j)') /\ Below(HandedVersions(i)', HandedVersions(j)')
    <3>1. i \in Handed
      <4>1. \A l \in Handed : l \in Nat /\ l < m
        BY <2>2 DEF Handed
      <4> QED
        BY <2>2, <2>8, <4>1
    <3>2. CASE j \in Handed
      BY <2>4, <2>8, <3>1, <3>2 DEF HandedInOrder
    <3>3. CASE j = m
      BY <2>4, <2>5, <3>1, <3>3 DEF HandedInOrder
    <3> QED
      BY <2>2, <3>2, <3>3
  <2>9. \A S : Below(S, {})
    BY DEF Below
  <2> HIDE DEF Handed
  <2> QED
    BY <2>2, <2>3, <2>7, <2>8, <2>9 DEF HandedInOrder
<1>6. CASE Main
  BY <1>1, <1>2, <1>3, <1>4, <1>5, <1>6, MainMoves DEF MainQuiet
<1>7. CASE Writer
  BY <1>1, <1>7, WriterMoves
<1> QED
  BY <1>6, <1>7 DEF Next

LEMMA FlushHoldsStep ==
  ASSUME TypeOK, ThreadAt, Answered, FlushHolds, HandedInOrder, StoreInOrder, OneConnection, Next
  PROVE  FlushHolds'
<1>1. /\ settled \in Nat /\ taken \in Nat /\ Len(handed) \in Nat
      /\ settled <= taken /\ taken <= Len(handed)
  BY Places
<1>2. /\ \A i \in Handed : handed'[i] = handed[i]
      /\ \A i \in Handed : HandedRuns(i)' = HandedRuns(i) /\ HandedVersions(i)' = HandedVersions(i)
      /\ SetOf(versions) \subseteq SetOf(versions')
  BY StoreGrows DEF HandedRuns, HandedVersions
<1>3. \A i \in settled + 1..taken : i \in Handed
  BY <1>1 DEF Handed
<1>4. /\ batch.runs \in Seq(Game) /\ batch.versions \in Seq(Game) /\ versions \in Seq(Game)
      /\ runs \in Seq(Game)
  BY DEF TypeOK, Batches
<1>5. CASE Main
  <2>1. UNCHANGED <<config, writer, batch, taken, settled>>
    BY <1>5, MainBooks DEF thread
  <2>2. ASSUME Flushing PROVE Below(SetOf(versions'), SetOf(batch.versions))
    <3>1. CASE UNCHANGED versions
      BY <2>2, <3>1 DEF FlushHolds
    <3>2. CASE ~UNCHANGED versions
      <4>1. BothFlush
        <5>1. MainFlushes
          BY <1>5, <3>2, MainMoves DEF MainQuiet, store, CompleteGame, Send, SendFails
        <5> QED
          BY <5>1 DEF MainFlushes, FlushDue, BothFlush
      <4>2. SetOf(batch.versions) = {}
        BY <1>3, <2>2, <4>1 DEF FlushHolds, OneConnection
      <4> QED
        BY <4>2 DEF Below
    <3> QED
      BY <3>1, <3>2
  <2>3. Flushing' => Flushing
    BY <2>1 DEF Flushing
  <2>4. writer = "prune" => \A i \in settled + 1..taken : Stored(i)'
    BY <1>3, StoredStays DEF FlushHolds
  <2>5. ASSUME Flushing
        PROVE  /\ \A i \in settled + 1..taken :
                    /\ HandedRuns(i)' \subseteq SetOf(batch.runs)
                    /\ HandedVersions(i)' \subseteq SetOf(batch.versions) \union SetOf(versions')
               /\ \A g \in SetOf(batch.runs) : \E i \in settled + 1..taken : g \in HandedRuns(i)'
               /\ \A g \in SetOf(batch.versions) : \E i \in settled + 1..taken : g \in HandedVersions(i)'
               /\ Increasing(batch.runs) /\ Increasing(batch.versions)
    <3>1. \A i \in settled + 1..taken :
              /\ HandedRuns(i)' = HandedRuns(i)
              /\ HandedVersions(i)' = HandedVersions(i)
      BY <1>2, <1>3
    <3> QED
      BY <1>2, <2>5, <3>1 DEF FlushHolds
  <2> QED
    BY <2>1, <2>2, <2>3, <2>4, <2>5 DEF FlushHolds
<1>6. CASE Connect \/ Refuse \/ WriterDone \/ Panic
  <2>1. writer' \notin {"gather", "versions", "prune"}
    BY <1>6 DEF Connect, Refuse, WriterDone, Panic
  <2> QED
    BY <2>1 DEF FlushHolds, Flushing
<1>7. CASE Prune
  <2>1. writer' \notin {"gather", "versions", "prune"}
    BY <1>7 DEF Prune, FlushFails
  <2> QED
    BY <2>1 DEF FlushHolds, Flushing
<1>8. CASE StartFlush
  BY <1>8 DEF StartFlush, FlushHolds, Flushing, Stored, HandedRuns, HandedVersions, main_, buffers, store
<1>9. CASE TakeBatch
  <2>1. PICK t \in Nat : t = taken + 1
    BY <1>1
  <2>2. /\ taken' = t /\ settled' = settled /\ batch' = handed[t] /\ writer' = "gather"
        /\ UNCHANGED <<handed, versions>> /\ settled = taken /\ t \in Handed
    BY <1>1, <1>9, <2>1 DEF TakeBatch, Next1, ThreadAt, main_, store, Handed
  <2>3. settled + 1..t = {t}
    BY <1>1, <2>1, <2>2
  <2>4. t \in taken + 1..Len(handed)
    BY <1>1, <2>1, <2>2 DEF Handed
  <2>5. /\ Increasing(handed[t].runs) /\ Increasing(handed[t].versions)
        /\ Below(SetOf(versions), HandedVersions(t))
    BY <2>2, <2>4 DEF HandedInOrder, StoreInOrder
  <2>6. HandedRuns(t)' = SetOf(handed[t].runs) /\ HandedVersions(t)' = SetOf(handed[t].versions)
        /\ HandedVersions(t) = SetOf(handed[t].versions)
    BY <2>2 DEF HandedRuns, HandedVersions
  <2> QED
    BY <2>2, <2>3, <2>5, <2>6 DEF FlushHolds, Flushing
<1>10. CASE Absorb
  <2>1. PICK t \in Nat : t = taken + 1
    BY <1>1
  <2>2. /\ taken' = t /\ settled' = settled /\ writer' = "gather" /\ writer = "gather"
        /\ batch' = [versions |-> batch.versions \o handed[t].versions,
                     runs |-> batch.runs \o handed[t].runs]
        /\ UNCHANGED <<handed, versions>> /\ t \in Handed
    BY <1>1, <1>10, <2>1 DEF Absorb, Next1, main_, store, Handed
  <2>3. batch'.versions = batch.versions \o handed[t].versions /\ batch'.runs = batch.runs \o handed[t].runs
    BY <2>2
  <2>4. handed[t].versions \in Seq(Game) /\ handed[t].runs \in Seq(Game)
    <3>1. handed[t] \in Batches
      BY <2>2 DEF TypeOK, Handed
    <3> QED
      BY <3>1 DEF Batches
  <2>5. t \in taken + 1..Len(handed) /\ \A i \in settled + 1..taken : i < t
    BY <1>1, <2>1, <2>2 DEF Handed
  <2>6. Flushing
    BY <2>2 DEF Flushing
  <2>7. HandedRuns(t) = SetOf(handed[t].runs) /\ HandedVersions(t) = SetOf(handed[t].versions)
    BY DEF HandedRuns, HandedVersions
  <2>8. Below(SetOf(batch.runs), HandedRuns(t)) /\ Below(SetOf(batch.versions), HandedVersions(t))
    <3>1. \A i \in settled + 1..taken :
              /\ Below(HandedRuns(i), HandedRuns(t))
              /\ Below(HandedVersions(i), HandedVersions(t))
      BY <1>3, <2>2, <2>5 DEF HandedInOrder
    <3> QED
      BY <2>6, <3>1 DEF FlushHolds, Below
  <2>9. /\ SetOf(batch'.runs) = SetOf(batch.runs) \union HandedRuns(t) /\ Increasing(batch'.runs)
        /\ SetOf(batch'.versions) = SetOf(batch.versions) \union HandedVersions(t)
        /\ Increasing(batch'.versions)
    <3>1. Increasing(handed[t].runs) /\ Increasing(handed[t].versions)
      BY <2>2 DEF HandedInOrder
    <3> QED
      BY <1>4, <2>3, <2>4, <2>6, <2>7, <2>8, <3>1, ConcatFacts DEF FlushHolds
  <2>10. Below(SetOf(versions), SetOf(batch'.versions))
    <3>1. Below(SetOf(versions), HandedVersions(t)) /\ Below(SetOf(versions), SetOf(batch.versions))
      BY <2>5, <2>6 DEF StoreInOrder, FlushHolds
    <3> QED
      BY <2>9, <3>1 DEF Below
  <2>11. \A i \in settled + 1..t : i \in settled + 1..taken \/ i = t
    BY <1>1, <2>1
  <2>12. t \in settled + 1..t /\ \A i \in settled + 1..taken : i \in settled + 1..t
    BY <1>1, <2>1
  <2>13. \A i \in settled + 1..t : HandedRuns(i)' = HandedRuns(i) /\ HandedVersions(i)' = HandedVersions(i)
    BY <1>2, <1>3, <2>2, <2>11
  <2>14. \A i \in settled + 1..t :
           /\ HandedRuns(i)' \subseteq SetOf(batch'.runs)
           /\ HandedVersions(i)' \subseteq SetOf(batch'.versions) \union SetOf(versions)
    BY <2>6, <2>9, <2>11, <2>13 DEF FlushHolds
  <2>15. /\ \A g \in SetOf(batch'.runs) : \E i \in settled + 1..t : g \in HandedRuns(i)'
         /\ \A g \in SetOf(batch'.versions) : \E i \in settled + 1..t : g \in HandedVersions(i)'
    BY <2>6, <2>9, <2>12, <2>13 DEF FlushHolds
  <2> QED
    BY <2>2, <2>9, <2>10, <2>14, <2>15 DEF FlushHolds, Flushing
<1>11. CASE InsertVersion
  <2>1. CASE writer' = "recv"
    BY <2>1 DEF FlushHolds, Flushing
  <2>2. CASE writer' # "recv"
    <3>1. /\ writer = "versions" /\ batch.versions # <<>>
          /\ versions' = Append(versions, Head(batch.versions))
          /\ batch' = [batch EXCEPT !.versions = Tail(@)]
          /\ UNCHANGED <<writer, taken, settled, handed>>
      BY <1>11, <2>2 DEF InsertVersion, FlushFails, main_
    <3>2. batch'.versions = Tail(batch.versions) /\ batch'.runs = batch.runs
      <4>1. batch \in Batches
        BY DEF TypeOK
      <4> QED
        BY <3>1, <4>1 DEF Batches
    <3>3. Flushing
      BY <3>1 DEF Flushing
    <3>4. /\ Head(batch.versions) \in Game
          /\ SetOf(batch.versions) = {Head(batch.versions)} \union SetOf(batch'.versions)
          /\ Increasing(batch'.versions) /\ Below({Head(batch.versions)}, SetOf(batch'.versions))
      BY <1>4, <3>1, <3>2, <3>3, TailFacts DEF FlushHolds
    <3>5. SetOf(versions') = SetOf(versions) \union {Head(batch.versions)}
      BY <1>4, <3>1, <3>4, AppendFacts
    <3>6. Below(SetOf(versions'), SetOf(batch'.versions))
      BY <3>3, <3>4, <3>5 DEF FlushHolds, Below
    <3>7. \A i \in settled + 1..taken :
              /\ HandedRuns(i)' = HandedRuns(i)
              /\ HandedVersions(i)' = HandedVersions(i)
      BY <1>2, <1>3
    <3>8. \A i \in settled + 1..taken :
            /\ HandedRuns(i)' \subseteq SetOf(batch'.runs)
            /\ HandedVersions(i)' \subseteq SetOf(batch'.versions) \union SetOf(versions')
      BY <3>2, <3>3, <3>4, <3>5, <3>7 DEF FlushHolds
    <3>9. /\ \A g \in SetOf(batch'.runs) : \E i \in settled + 1..taken : g \in HandedRuns(i)'
          /\ \A g \in SetOf(batch'.versions) : \E i \in settled + 1..taken : g \in HandedVersions(i)'
          /\ Increasing(batch'.runs)
      BY <3>2, <3>3, <3>4, <3>7 DEF FlushHolds
    <3> QED
      BY <3>1, <3>4, <3>6, <3>8, <3>9 DEF FlushHolds, Flushing
  <2> QED
    BY <2>1, <2>2
<1>12. CASE InsertRuns
  <2>1. CASE writer' = "recv"
    BY <2>1 DEF FlushHolds, Flushing
  <2>2. CASE writer' # "recv"
    <3>1. /\ writer = "versions" /\ batch.versions = <<>> /\ writer' = "prune"
          /\ runs' = runs \o batch.runs /\ UNCHANGED <<taken, settled, versions>>
      BY <1>12, <2>2 DEF InsertRuns, FlushFails
    <3>2. SetOf(runs') = SetOf(runs) \union SetOf(batch.runs)
      BY <1>4, <3>1, ConcatFacts
    <3>3. Flushing /\ SetOf(batch.versions) = {}
      BY <3>1, EmptyFacts DEF Flushing
    <3>4. \A i \in settled + 1..taken : Stored(i)'
      BY <1>2, <1>3, <3>1, <3>2, <3>3 DEF FlushHolds, Stored
    <3> QED
      BY <3>1, <3>4 DEF FlushHolds, Flushing
  <2> QED
    BY <2>1, <2>2
<1> QED
  BY <1>5, <1>6, <1>7, <1>8, <1>9, <1>10, <1>11, <1>12 DEF Next, Writer

LEMMA WrittenGrows ==
  ASSUME TypeOK, ThreadAt, Next
  PROVE  Written \in Nat /\ Written <= taken /\ Written' \in Nat /\ Written <= Written'
<1> USE DEF Written
<1>1. taken \in Nat /\ settled \in Nat /\ settled <= taken
  BY DEF TypeOK
<1>2. CASE Main
  BY <1>1, <1>2, MainBooks DEF thread
<1>3. CASE Connect \/ TakeBatch \/ WriterDone \/ Absorb \/ StartFlush
  <2>1. /\ writer \notin {"prune", "panicked"} /\ writer' \notin {"prune", "panicked"}
        /\ settled' = settled
    BY <1>3 DEF Connect, TakeBatch, WriterDone, Absorb, StartFlush
  <2> QED
    BY <1>1, <2>1
<1>4. CASE Panic
  BY <1>1, <1>4 DEF Panic
<1>5. CASE Refuse
  BY <1>1, <1>5 DEF Refuse, Answer, ThreadAt
<1>6. CASE InsertVersion \/ InsertRuns \/ Prune
  BY <1>1, <1>6 DEF InsertVersion, InsertRuns, Prune, FlushFails, Answer
<1> QED
  BY <1>2, <1>3, <1>5, <1>6, <1>4 DEF Next, Writer

(* What main or the writer adds to the versions stored. *)
LEMMA VersionsInOrder ==
  ASSUME TypeOK, Answered, FlushHolds, HandedInOrder, StoreInOrder, OneConnection, Next
  PROVE  /\ Increasing(versions') /\ SetOf(versions') \subseteq made'
         /\ \A i \in taken + 1..Len(handed) : Below(SetOf(versions'), HandedVersions(i))
         /\ Alive' => Below(SetOf(versions'), SetOf(versionBuffer'))
<1>1. /\ versions \in Seq(Game) /\ versionBuffer \in Seq(Game) /\ batch.versions \in Seq(Game)
      /\ made \subseteq 1..completed
  BY DEF TypeOK, Batches
<1>2. \A i \in taken + 1..Len(handed) : i \in Handed /\ \A j \in 1..taken : j < i /\ j \in Handed
  BY Places DEF Handed
<1>3. Alive' => Alive
  BY AliveBefore
<1>4. CASE UNCHANGED <<versions, made>> /\ versionBuffer' \in {versionBuffer, <<>>}
  BY <1>3, <1>4, EmptyFacts DEF StoreInOrder, Below
<1>5. CASE CompleteGame
  <2> DEFINE g == completed + 1
  <2>1. /\ g \in Game /\ UNCHANGED versions
        /\ \/ versionBuffer' = Append(versionBuffer, g) /\ made' = made \union {g}
           \/ UNCHANGED <<versionBuffer, made>>
        /\ Below(SetOf(versions), {g}) /\ Alive
    BY <1>1, <1>5, NextGame DEF StoreInOrder, store, Alive
  <2> HIDE DEF g
  <2>2. \/ SetOf(versionBuffer') = SetOf(versionBuffer) \union {g}
        \/ SetOf(versionBuffer') = SetOf(versionBuffer)
    BY <1>1, <2>1, AppendFacts
  <2>3. Below(SetOf(versions), SetOf(versionBuffer'))
    BY <2>1, <2>2 DEF StoreInOrder, Below
  <2>4. made \subseteq made'
    BY <2>1
  <2> QED
    BY <2>1, <2>3, <2>4 DEF StoreInOrder
<1>6. CASE MainFlushes
  <2>1. /\ BothFlush /\ Alive /\ made' = made
        /\ \/ versions' = versions \o versionBuffer /\ versionBuffer' = <<>>
           \/ /\ \E n \in 0..Len(versionBuffer) - 1 :
                   versions' = versions \o SubSeq(versionBuffer, 1, n)
              /\ main' = "err"
    BY <1>6 DEF MainFlushes, FlushDue, BothFlush, Alive
  <2>2. PICK s \in Seq(Game) :
            versions' = versions \o s /\ SetOf(s) \subseteq SetOf(versionBuffer) /\ Increasing(s)
    <3>1. CASE versions' = versions \o versionBuffer
      BY <1>1, <3>1 DEF HandedInOrder
    <3>2. CASE versions' # versions \o versionBuffer
      <4>1. PICK n \in 0..Len(versionBuffer) - 1 : versions' = versions \o SubSeq(versionBuffer, 1, n)
        BY <2>1, <3>2
      <4>2. n \in 0..Len(versionBuffer)
        BY <1>1
      <4> QED
        BY <1>1, <4>1, <4>2, PrefixFacts DEF HandedInOrder
    <3> QED
      BY <3>1, <3>2
  <2>3. Below(SetOf(versions), SetOf(s))
    BY <2>1, <2>2 DEF StoreInOrder, Below
  <2>4. Increasing(versions') /\ SetOf(versions') \subseteq made
    BY <1>1, <2>2, <2>3, ConcatFacts DEF StoreInOrder, HandedInOrder
  <2>5. \A i \in Handed : HandedVersions(i) = {}
    BY <2>1 DEF OneConnection
  <2>6. Alive' => SetOf(versionBuffer') = {}
    BY <2>1, EmptyFacts DEF Alive
  <2>7. \A S : Below(S, {})
    BY DEF Below
  <2> QED
    BY <1>2, <2>1, <2>4, <2>5, <2>6, <2>7
<1>7. CASE InsertVersion /\ ~UNCHANGED versions
  <2>1. /\ writer = "versions" /\ batch.versions # <<>>
        /\ versions' = Append(versions, Head(batch.versions))
        /\ UNCHANGED <<made, main, versionBuffer>>
    <3>1. Writer
      BY <1>7 DEF Writer
    <3> QED
      BY <1>7, <3>1, WriterMoves DEF InsertVersion, FlushFails, buffers
  <2>2. Flushing
    BY <2>1 DEF Flushing
  <2>3. PICK g \in Game : g = Head(batch.versions) /\ g \in SetOf(batch.versions)
    BY <1>1, <2>1, TailFacts
  <2>4. PICK j \in settled + 1..taken : g \in HandedVersions(j)
    BY <2>2, <2>3 DEF FlushHolds
  <2>5. j \in 1..taken /\ j \in Handed
    BY <2>4, Places DEF Handed
  <2>6. Increasing(versions') /\ SetOf(versions') = SetOf(versions) \union {g}
    <3>1. Below(SetOf(versions), {g})
      BY <2>2, <2>3 DEF FlushHolds, Below
    <3> QED
      BY <1>1, <2>1, <2>3, <3>1, AppendFacts DEF StoreInOrder
  <2>7. g \in made
    BY <2>4, <2>5 DEF HandedInOrder
  <2>8. \A i \in taken + 1..Len(handed) : Below({g}, HandedVersions(i))
    BY <1>2, <2>4, <2>5 DEF HandedInOrder, Below
  <2>9. Below({g}, SetOf(versionBuffer))
    BY <2>4, <2>5 DEF HandedInOrder, Below
  <2>10. \A S, T, U : U = S \union {g} /\ Below(S, T) /\ Below({g}, T) => Below(U, T)
    BY DEF Below
  <2>11. \A i \in taken + 1..Len(handed) : Below(SetOf(versions'), HandedVersions(i))
    BY <2>6, <2>8, <2>10 DEF StoreInOrder
  <2>12. Alive' => Below(SetOf(versions'), SetOf(versionBuffer'))
    BY <1>3, <2>1, <2>6, <2>9, <2>10 DEF StoreInOrder
  <2> QED
    BY <2>1, <2>6, <2>7, <2>11, <2>12 DEF StoreInOrder
<1>8. CASE Main
  BY <1>4, <1>5, <1>6, <1>8, MainMoves DEF MainQuiet, buffers, store, Send, SendFails, play
<1>9. CASE Writer
  <2>1. UNCHANGED <<made, versionBuffer>>
    BY <1>9, WriterMoves DEF buffers
  <2>2. UNCHANGED versions \/ InsertVersion
    BY <1>9 DEF Writer, Connect, Refuse, TakeBatch, WriterDone, Absorb, StartFlush, InsertRuns,
                Prune, Panic, store
  <2> QED
    BY <1>4, <1>7, <2>1, <2>2
<1> QED
  BY <1>8, <1>9 DEF Next

LEMMA RunsInOrder ==
  ASSUME TypeOK, ThreadAt, Answered, FlushHolds, HandedInOrder, StoreInOrder, Next
  PROVE  /\ Increasing(runs')
         /\ \A g \in SetOf(runs') : \E i \in 1..Written' : g \in HandedRuns(i)'
<1>1. runs \in Seq(Game) /\ batch.runs \in Seq(Game)
  BY DEF TypeOK, Batches
<1>2. Written \in Nat /\ Written <= taken /\ Written' \in Nat /\ Written <= Written'
  BY WrittenGrows
<1>3. \A i \in 1..Written : i \in 1..Written' /\ i \in Handed
  BY <1>2, Places DEF Handed
<1>4. \A i \in Handed : HandedRuns(i)' = HandedRuns(i)
  BY StoreGrows DEF HandedRuns
<1>5. \A g \in SetOf(runs) : \E i \in 1..Written' : g \in HandedRuns(i)'
  BY <1>3, <1>4 DEF StoreInOrder
<1>6. CASE UNCHANGED runs
  BY <1>5, <1>6 DEF StoreInOrder
<1>7. CASE InsertRuns /\ ~UNCHANGED runs
  <2>1. /\ writer = "versions" /\ writer' = "prune" /\ runs' = runs \o batch.runs
        /\ taken' = taken
    BY <1>7 DEF InsertRuns
  <2>2. Flushing /\ Written = settled /\ Written' = taken
    BY <2>1 DEF Flushing, Written
  <2>3. \A g \in SetOf(batch.runs) : \E i \in settled + 1..taken : g \in HandedRuns(i)
    BY <2>2 DEF FlushHolds
  <2>4. \A i \in settled + 1..taken : i \in 1..taken /\ i \in Handed /\ \A j \in 1..settled : j < i /\ j \in Handed
    BY Places DEF Handed
  <2>5. Below(SetOf(runs), SetOf(batch.runs))
    <3> SUFFICES ASSUME NEW a \in SetOf(runs), NEW b \in SetOf(batch.runs) PROVE a < b
      BY DEF Below
    <3>1. PICK j \in 1..settled : a \in HandedRuns(j)
      BY <2>2 DEF StoreInOrder
    <3>2. PICK i \in settled + 1..taken : b \in HandedRuns(i)
      BY <2>3
    <3> QED
      BY <2>4, <3>1, <3>2 DEF HandedInOrder, Below
  <2>6. Increasing(runs') /\ SetOf(runs') = SetOf(runs) \union SetOf(batch.runs)
    BY <1>1, <2>1, <2>2, <2>5, ConcatFacts DEF StoreInOrder, FlushHolds
  <2>7. \A g \in SetOf(batch.runs) : \E i \in 1..Written' : g \in HandedRuns(i)'
    BY <1>4, <2>2, <2>3, <2>4
  <2> QED
    BY <1>5, <2>6, <2>7
<1>8. CASE Main
  BY <1>6, <1>8, MainMoves DEF MainQuiet, MainFlushes, store, CompleteGame, Send, SendFails
<1>9. CASE Writer
  BY <1>6, <1>7, <1>9 DEF Writer, Connect, Refuse, TakeBatch, WriterDone, Absorb, StartFlush,
                          InsertVersion, Prune, Panic, store
<1> QED
  BY <1>8, <1>9 DEF Next

LEMMA StoreInOrderStep ==
  ASSUME TypeOK, ThreadAt, Answered, FlushHolds, HandedInOrder, StoreInOrder, OneConnection, Next
  PROVE  StoreInOrder'
<1>1. /\ taken \in Nat /\ Len(handed) \in Nat /\ taken <= Len(handed)
      /\ \A i \in Handed : HandedVersions(i)' = HandedVersions(i)
  BY Places, StoreGrows DEF HandedVersions
<1>2. /\ \A i \in taken + 1..Len(handed) : Below(SetOf(versions'), HandedVersions(i))
      /\ Alive' => Below(SetOf(versions'), SetOf(versionBuffer'))
  BY VersionsInOrder
<1>3. \A i \in taken' + 1..Len(handed') : Below(SetOf(versions'), HandedVersions(i)')
  <2>1. CASE Send
    <3>1. PICK m \in Nat : m = Len(handed) + 1
      BY <1>1
    <3>2. /\ Handed' = Handed \union {m} /\ handed'[m].versions = versionBuffer
          /\ UNCHANGED <<versions, taken>>
          /\ main = "send"
      BY <2>1, <3>1, SendHandsOver DEF store, Send, thread
    <3>3. Below(SetOf(versions), SetOf(versionBuffer))
      BY <3>2 DEF StoreInOrder, Alive
    <3>4. HandedVersions(m)' = SetOf(versionBuffer)
      BY <3>2 DEF HandedVersions
    <3>5. \A i \in taken' + 1..Len(handed') : i \in Handed'
      BY <1>1, <3>2, MainBooks, StoreGrows DEF Handed
    <3>6. \A i \in taken' + 1..Len(handed') : i = m \/ (i \in Handed /\ i \in taken + 1..Len(handed))
      BY <1>1, <3>2, <3>5 DEF Handed
    <3> QED
      BY <1>1, <1>2, <3>2, <3>3, <3>4, <3>6
  <2>2. CASE UNCHANGED handed /\ taken' \in Nat /\ taken <= taken'
    <3>1. PICK t \in Nat : taken' = t /\ taken <= t
      BY <2>2
    <3>2. taken <= t
      BY <3>1
    <3>3. \A i \in t + 1..Len(handed) : i \in taken + 1..Len(handed) /\ i \in Handed
      BY <1>1, <3>2 DEF Handed
    <3> QED
      BY <1>1, <1>2, <2>2, <3>1, <3>3
  <2>3. CASE Main
    BY <1>1, <2>1, <2>2, <2>3, MainBooks, MainMoves
    DEF thread, MainQuiet, MainFlushes, CompleteGame, SendFails
  <2>4. CASE Writer
    <3>1. taken' = taken \/ taken' = taken + 1
      BY <2>4 DEF Writer, Connect, Refuse, TakeBatch, WriterDone, Absorb, StartFlush,
                  InsertVersion, InsertRuns, Prune, Panic, FlushFails
    <3> QED
      BY <1>1, <2>2, <2>4, <3>1, WriterMoves
  <2> QED
    BY <2>3, <2>4 DEF Next
<1> QED
  BY <1>2, <1>3, VersionsInOrder, RunsInOrder DEF StoreInOrder

LEMMA NothingLostStep ==
  ASSUME TypeOK, NothingLost, Next
  PROVE  NothingLost'
<1> SUFFICES ASSUME Alive'
             PROVE  /\ \A g \in made' : \/ g \in SetOf(versions') \union SetOf(versionBuffer')
                                        \/ \E i \in Handed' : g \in HandedVersions(i)'
                    /\ \A g \in 1..completed' : \/ g \in SetOf(runBuffer')
                                                \/ \E i \in Handed' : g \in HandedRuns(i)'
  BY DEF NothingLost
<1>1. Alive
  BY AliveBefore
<1>2. /\ \A i \in Handed : i \in Handed' /\ HandedRuns(i)' = HandedRuns(i)
                           /\ HandedVersions(i)' = HandedVersions(i)
      /\ SetOf(versions) \subseteq SetOf(versions')
  BY StoreGrows DEF HandedRuns, HandedVersions
<1>3. /\ \A g \in made : g \in SetOf(versions') \union SetOf(versionBuffer)
                         \/ \E i \in Handed' : g \in HandedVersions(i)'
      /\ \A g \in 1..completed : g \in SetOf(runBuffer) \/ \E i \in Handed' : g \in HandedRuns(i)'
  BY <1>1, <1>2 DEF NothingLost
<1>4. versions \in Seq(Game) /\ versionBuffer \in Seq(Game) /\ runBuffer \in Seq(Game)
  BY DEF TypeOK
<1>5. CASE UNCHANGED <<completed, made, buffers>>
  BY <1>3, <1>5 DEF buffers
<1>6. CASE MainFlushes
  <2>1. /\ UNCHANGED <<completed, made, runBuffer>>
        /\ versions' = versions \o versionBuffer
    BY <1>6 DEF MainFlushes, Alive
  <2>2. SetOf(versionBuffer) \subseteq SetOf(versions')
    BY <1>4, <2>1, ConcatFacts
  <2> QED
    BY <1>3, <2>1, <2>2
<1>7. CASE CompleteGame
  <2> DEFINE g == completed + 1
  <2>1. /\ g \in Game /\ runBuffer' = Append(runBuffer, g)
        /\ \/ versionBuffer' = Append(versionBuffer, g) /\ made' = made \union {g}
           \/ UNCHANGED <<versionBuffer, made>>
        /\ 1..completed' = 1..completed \union {g}
    BY <1>7, NextGame
  <2> HIDE DEF g
  <2>2. SetOf(runBuffer') = SetOf(runBuffer) \union {g}
    BY <1>4, <2>1, AppendFacts
  <2>3. \/ SetOf(versionBuffer') = SetOf(versionBuffer) \union {g} /\ made' = made \union {g}
        \/ SetOf(versionBuffer') = SetOf(versionBuffer) /\ made' = made
    BY <1>4, <2>1, AppendFacts
  <2> QED
    BY <1>3, <2>1, <2>2, <2>3
<1>8. CASE Send
  <2>1. PICK m \in Nat : m = Len(handed) + 1
    BY DEF TypeOK
  <2>2. m \in Handed' /\ handed'[m].versions = versionBuffer /\ handed'[m].runs = runBuffer
        /\ UNCHANGED <<completed, made>>
    BY <1>8, <2>1, SendHandsOver
  <2>3. HandedVersions(m)' = SetOf(versionBuffer) /\ HandedRuns(m)' = SetOf(runBuffer)
    BY <2>2 DEF HandedVersions, HandedRuns
  <2> QED
    BY <1>3, <2>2, <2>3
<1>9. CASE Main
  <2>1. ~SendFails
    BY DEF SendFails, Fail, Alive
  <2> QED
    BY <1>5, <1>6, <1>7, <1>8, <1>9, <2>1, MainMoves DEF MainQuiet
<1>10. CASE Writer
  BY <1>5, <1>10, WriterMoves
<1> QED
  BY <1>9, <1>10 DEF Next

LEMMA VersionFirstStep ==
  ASSUME TypeOK, ThreadAt, Answered, FlushHolds, HandedInOrder, StoreInOrder, VersionFirst, Next
  PROVE  VersionFirst'
<1>1. /\ \A i \in Handed : i \in Handed' /\ HandedRuns(i)' = HandedRuns(i)
                           /\ HandedVersions(i)' = HandedVersions(i)
      /\ SetOf(versions) \subseteq SetOf(versions')
  BY StoreGrows DEF HandedRuns, HandedVersions
<1>2. /\ versions \in Seq(Game) /\ versionBuffer \in Seq(Game) /\ runBuffer \in Seq(Game)
      /\ runs \in Seq(Game) /\ batch.runs \in Seq(Game)
  BY DEF TypeOK, Batches
<1>3. \A i \in 1..Written : i \in Handed
  BY Places, WrittenGrows DEF Handed
<1>4. SetOf(runs) \subseteq 1..completed
  BY <1>3 DEF StoreInOrder, HandedInOrder
<1>5. CASE UNCHANGED <<made, buffers, handed, runs>>
  BY <1>1, <1>5 DEF VersionFirst, buffers, Handed
<1>6. CASE SendFails
  BY <1>1, <1>6, EmptyFacts DEF VersionFirst, SendFails, play, store, Handed
<1>7. CASE MainFlushes
  <2>1. UNCHANGED <<made, runBuffer, handed, runs>>
    BY <1>7 DEF MainFlushes
  <2>2. SetOf(versionBuffer) \subseteq SetOf(versions') \union SetOf(versionBuffer')
    <3>1. CASE versions' = versions \o versionBuffer
      BY <1>2, <3>1, ConcatFacts
    <3>2. CASE versions' # versions \o versionBuffer
      BY <1>7, <3>2 DEF MainFlushes
    <3> QED
      BY <3>1, <3>2
  <2> QED
    BY <1>1, <2>1, <2>2 DEF VersionFirst, Handed
<1>8. CASE CompleteGame
  <2> DEFINE g == completed + 1
  <2>1. /\ g \in Game /\ runBuffer' = Append(runBuffer, g) /\ g \notin 1..completed
        /\ \/ versionBuffer' = Append(versionBuffer, g) /\ made' = made \union {g}
           \/ UNCHANGED <<versionBuffer, made>>
        /\ UNCHANGED <<handed, runs, versions>>
    BY <1>8, NextGame DEF store
  <2>2. made \subseteq 1..completed
    BY DEF TypeOK
  <2> HIDE DEF g
  <2>3. SetOf(runBuffer') = SetOf(runBuffer) \union {g}
    BY <1>2, <2>1, AppendFacts
  <2>4. \/ SetOf(versionBuffer') = SetOf(versionBuffer) \union {g} /\ made' = made \union {g}
        \/ SetOf(versionBuffer') = SetOf(versionBuffer) /\ made' = made
    BY <1>2, <2>1, AppendFacts
  <2>5. \A h \in SetOf(runs) : h \in made' => h \in made
    BY <1>4, <2>1, <2>4
  <2>6. \A i \in Handed : \A h \in HandedRuns(i) : h \in made' => h \in made
    BY <2>1, <2>4 DEF HandedInOrder
  <2>7. \A h \in SetOf(runBuffer') : h \in made' => h \in SetOf(versions) \union SetOf(versionBuffer')
    <3>1. \A h \in SetOf(runBuffer) : h \in made' => h \in made
      BY <2>1, <2>4 DEF HandedInOrder
    <3>2. g \in made' => g \in SetOf(versionBuffer')
      BY <2>1, <2>2, <2>4
    <3> QED
      BY <2>3, <2>4, <3>1, <3>2 DEF VersionFirst
  <2>8. Handed' = Handed
    BY <2>1 DEF Handed
  <2> QED
    BY <1>1, <2>1, <2>5, <2>6, <2>7, <2>8 DEF VersionFirst
<1>9. CASE Send
  <2>1. PICK m \in Nat : m = Len(handed) + 1
    BY DEF TypeOK
  <2>2. /\ Handed' = Handed \union {m} /\ handed'[m].versions = versionBuffer
        /\ handed'[m].runs = runBuffer /\ UNCHANGED <<made, versions, runs>> /\ runBuffer' = <<>>
    BY <1>9, <2>1, SendHandsOver DEF store
  <2>3. HandedVersions(m)' = SetOf(versionBuffer) /\ HandedRuns(m)' = SetOf(runBuffer)
    BY <2>2 DEF HandedVersions, HandedRuns
  <2> QED
    BY <1>1, <2>2, <2>3, EmptyFacts DEF VersionFirst
<1>10. CASE InsertRuns /\ ~UNCHANGED runs
  <2>1. /\ writer = "versions" /\ batch.versions = <<>> /\ runs' = runs \o batch.runs
        /\ UNCHANGED versions
    BY <1>10 DEF InsertRuns
  <2>2. UNCHANGED <<made, buffers, handed>>
    BY <1>10, WriterMoves DEF Writer
  <2>3. Flushing /\ SetOf(batch.versions) = {}
    BY <2>1, EmptyFacts DEF Flushing
  <2>4. SetOf(runs') = SetOf(runs) \union SetOf(batch.runs)
    BY <1>2, <2>1, ConcatFacts
  <2>5. ASSUME NEW g \in SetOf(batch.runs), g \in made PROVE g \in SetOf(versions)
    <3>1. PICK i \in settled + 1..taken : g \in HandedRuns(i)
      BY <2>3, <2>5 DEF FlushHolds
    <3>2. i \in Handed
      BY Places DEF Handed
    <3>3. HandedVersions(i) \subseteq SetOf(versions)
      BY <2>3 DEF FlushHolds
    <3> QED
      BY <2>5, <3>1, <3>2, <3>3 DEF VersionFirst
  <2> QED
    BY <1>1, <2>1, <2>2, <2>4, <2>5 DEF VersionFirst, buffers, Handed
<1>11. CASE Main
  BY <1>5, <1>6, <1>7, <1>8, <1>9, <1>11, MainMoves DEF MainQuiet, store
<1>12. CASE Writer
  <2>1. UNCHANGED <<made, buffers, handed>>
    BY <1>12, WriterMoves
  <2>2. UNCHANGED runs \/ InsertRuns
    BY <1>12 DEF Writer, Connect, Refuse, TakeBatch, WriterDone, Absorb, StartFlush, InsertVersion,
                 Prune, Panic, store
  <2> QED
    BY <1>5, <1>10, <2>1, <2>2
<1> QED
  BY <1>11, <1>12 DEF Next
-----------------------------------------------------------------------------
(* Types *)

LEMMA PlayTypeStep ==
  ASSUME TypeOK, MainHas, Main
  PROVE  /\ config' \in Configs /\ main' \in MainAt
         /\ started' \in 0..Games /\ ended' \in 0..started' /\ completed' \in 0..ended'
         /\ returned' \in BOOLEAN /\ made' \subseteq 1..completed'
         /\ firstError' \in BOOLEAN /\ sender' \in BOOLEAN
<1> USE DEF play, MainAt
<1>1. /\ config \in Configs /\ main \in MainAt /\ Games \in Nat
      /\ started \in 0..Games /\ ended \in 0..started /\ completed \in 0..ended
      /\ returned \in BOOLEAN /\ made \subseteq 1..completed
      /\ firstError \in BOOLEAN /\ sender \in BOOLEAN
  BY WriterAssumption DEF TypeOK
<1>2. CASE StartGame
  <2>1. /\ started' \in {started, started + 1} /\ started < Games
        /\ UNCHANGED <<config, ended, completed, returned, made, firstError>>
        /\ (UNCHANGED main \/ main' = "refresh" \/ main' = "err")
        /\ (UNCHANGED sender \/ sender' = FALSE)
    BY <1>2 DEF StartGame, Fail
  <2>2. PICK s \in Nat : started' = s /\ s <= Games /\ started <= s
    BY <1>1, <2>1
  <2>3. ended \in 0..s
    BY <1>1, <2>2
  <2>4. started' \in 0..Games /\ ended' \in 0..started'
    BY <1>1, <2>1, <2>2, <2>3
  <2>5. completed' \in 0..ended' /\ made' \subseteq 1..completed'
    BY <1>1, <2>1, <2>2, <2>3
  <2>6. config' \in Configs /\ main' \in MainAt /\ returned' \in BOOLEAN
    BY <1>1, <2>1
  <2>7. firstError' \in BOOLEAN /\ sender' \in BOOLEAN
    BY <1>1, <2>1
  <2> QED
    BY <2>4, <2>5, <2>6, <2>7
<1>3. CASE RefreshFlush \/ BatchFlush
  BY <1>1, <1>3 DEF RefreshFlush, BatchFlush, Flush, FlushVersions, AfterRefresh, Fail
<1>4. CASE AwaitVersions
  BY <1>1, <1>4 DEF AwaitVersions, Fail
<1>5. CASE LoadHead
  <2>1. /\ started' \in {started, started + 1} /\ started < Games
        /\ UNCHANGED <<config, ended, completed, returned, made, firstError>>
        /\ (main' = "idle" \/ main' = "err") /\ (UNCHANGED sender \/ sender' = FALSE)
    BY <1>5 DEF LoadHead, Fail, MainHas
  <2>2. PICK s \in Nat : started' = s /\ s <= Games /\ started <= s
    BY <1>1, <2>1
  <2>3. ended \in 0..s
    BY <1>1, <2>2
  <2>4. started' \in 0..Games /\ ended' \in 0..started'
    BY <1>1, <2>1, <2>2, <2>3
  <2>5. completed' \in 0..ended' /\ made' \subseteq 1..completed'
    BY <1>1, <2>1, <2>2, <2>3
  <2>6. config' \in Configs /\ main' \in MainAt /\ returned' \in BOOLEAN
    BY <1>1, <2>1
  <2>7. firstError' \in BOOLEAN /\ sender' \in BOOLEAN
    BY <1>1, <2>1
  <2> QED
    BY <2>4, <2>5, <2>6, <2>7
<1>6. CASE CompleteGame
  <2>1. /\ ended < started /\ ended' = ended + 1 /\ completed' = completed + 1
        /\ main' \in {"flush", "idle"} /\ UNCHANGED <<config, started, returned, firstError, sender>>
        /\ made' \in {made, made \union {completed + 1}}
    BY <1>6 DEF CompleteGame
  <2> QED
    BY <1>1, <2>1
<1>7. CASE FailedGame \/ RunReturns \/ RunFails
  <2>1. /\ UNCHANGED ended \/ (ended < started /\ ended' = ended + 1)
        /\ UNCHANGED <<config, started, completed, made, firstError>>
        /\ (UNCHANGED main \/ main' = "flush" \/ main' = "err")
        /\ (UNCHANGED sender \/ sender' = FALSE)
        /\ (UNCHANGED returned \/ returned' = TRUE)
    BY <1>7 DEF FailedGame, RunReturns, RunFails, Fail
  <2>2. PICK e \in Nat : ended' = e /\ e <= started /\ ended <= e
    BY <1>1, <2>1
  <2>3. completed \in 0..e
    BY <1>1, <2>2
  <2>4. started' \in 0..Games /\ ended' \in 0..started'
    BY <1>1, <2>1, <2>2, <2>3
  <2>5. completed' \in 0..ended' /\ made' \subseteq 1..completed'
    BY <1>1, <2>1, <2>2, <2>3
  <2>6. config' \in Configs /\ main' \in MainAt /\ returned' \in BOOLEAN
    BY <1>1, <2>1
  <2>7. firstError' \in BOOLEAN /\ sender' \in BOOLEAN
    BY <1>1, <2>1
  <2> QED
    BY <2>4, <2>5, <2>6, <2>7
<1>8. CASE Enqueue
  BY <1>1, <1>8 DEF Enqueue, AfterEnqueue, Fail
<1>9. CASE Send \/ SendFails
  BY <1>1, <1>9 DEF Send, SendFails, AfterEnqueue, Fail
<1>10. CASE Finish
  BY <1>1, <1>10 DEF Finish, Fail
<1>11. CASE Collect
  BY <1>1, <1>11 DEF Collect
<1>12. CASE Collected \/ Join \/ Exit
  BY <1>1, <1>12 DEF Collected, Join, Exit
<1> QED
  BY <1>2, <1>3, <1>4, <1>5, <1>6, <1>7, <1>8, <1>9, <1>10, <1>11, <1>12 DEF Main

LEMMA ThreadTypeStep ==
  ASSUME TypeOK, ThreadAt, Answered, Next
  PROVE  /\ writer' \in WriterAt /\ batch' \in Batches /\ taken' \in Nat /\ settled' \in Nat
         /\ settled' <= taken' /\ taken' - settled' <= Coalesce
         /\ taken' <= Len(handed') /\ Len(handed') - taken' <= QueueCap
<1>1. /\ writer \in WriterAt /\ batch \in Batches /\ taken \in Nat /\ settled \in Nat
      /\ settled <= taken /\ taken - settled <= Coalesce
      /\ taken <= Len(handed) /\ Len(handed) - taken <= QueueCap /\ Len(handed) \in Nat
      /\ Coalesce \in Nat \ {0} /\ QueueCap \in Nat
  BY WriterAssumption DEF TypeOK
<1>2. CASE Main
  <2>1. UNCHANGED <<writer, batch, taken, settled>>
    BY <1>2, MainBooks DEF thread
  <2>2. CASE UNCHANGED handed
    BY <1>1, <2>1, <2>2
  <2>3. CASE Send
    <3>1. Len(handed) - taken < QueueCap /\ Len(handed') = Len(handed) + 1
      BY <1>1, <2>3 DEF Send
    <3> QED
      BY <1>1, <2>1, <3>1
  <2> QED
    BY <1>2, <2>2, <2>3, MainMoves DEF MainQuiet, MainFlushes, CompleteGame, SendFails
<1>3. CASE Writer
  <2>1. handed' = handed
    BY <1>3, WriterMoves
  <2>2. NoBatch \in Batches /\ batch.versions \in Seq(Game) /\ batch.runs \in Seq(Game)
    BY <1>1, EmptyFacts DEF NoBatch, Batches
  <2>3. taken < Len(handed) => Next1 \in Batches /\ Next1.versions \in Seq(Game) /\ Next1.runs \in Seq(Game)
    <3>1. handed \in Seq(Batches)
      BY DEF TypeOK
    <3>2. taken < Len(handed) => taken + 1 \in 1..Len(handed)
      BY <1>1
    <3>3. \A b \in Batches : b.versions \in Seq(Game) /\ b.runs \in Seq(Game)
      BY DEF Batches
    <3>4. taken < Len(handed) => Next1 \in Batches
      BY <3>1, <3>2 DEF Next1
    <3> QED
      BY <3>3, <3>4
  <2>4. CASE Connect \/ WriterDone \/ StartFlush \/ Panic
    <3>1. UNCHANGED <<batch, taken, settled>> /\ writer' \in WriterAt
      BY <2>4 DEF Connect, WriterDone, StartFlush, Panic, WriterAt
    <3> QED
      BY <1>1, <2>1, <3>1
  <2>5. CASE Refuse
    <3>1. /\ taken' = taken + 1 /\ settled' = taken' /\ UNCHANGED <<writer, batch>>
          /\ taken < Len(handed)
      BY <2>5 DEF Refuse, Answer
    <3> QED
      BY <1>1, <2>1, <3>1
  <2>6. CASE TakeBatch
    <3>1. /\ taken' = taken + 1 /\ settled' = settled /\ writer' = "gather" /\ taken < Len(handed)
          /\ batch' = Next1 /\ taken = settled
      BY <2>6 DEF TakeBatch, ThreadAt
    <3> QED
      BY <1>1, <2>1, <2>3, <3>1 DEF WriterAt
  <2>7. CASE Absorb
    <3>1. /\ taken' = taken + 1 /\ settled' = settled /\ writer' = writer /\ taken < Len(handed)
          /\ taken - settled < Coalesce
          /\ batch' = [versions |-> batch.versions \o Next1.versions, runs |-> batch.runs \o Next1.runs]
      BY <2>7 DEF Absorb
    <3>2. batch.versions \o Next1.versions \in Seq(Game) /\ batch.runs \o Next1.runs \in Seq(Game)
      BY <2>2, <2>3, <3>1, ConcatFacts
    <3>3. batch' \in Batches
      BY <3>1, <3>2 DEF Batches
    <3>4. /\ settled' <= taken' /\ taken' - settled' <= Coalesce
          /\ taken' <= Len(handed) /\ Len(handed) - taken' <= QueueCap
      BY <1>1, <3>1
    <3> QED
      BY <1>1, <2>1, <3>1, <3>3, <3>4
  <2>8. CASE InsertVersion \/ InsertRuns \/ Prune
    <3>1. taken' = taken /\ settled' \in {settled, taken} /\ writer' \in WriterAt
      BY <1>1, <2>8 DEF InsertVersion, InsertRuns, Prune, FlushFails, Answer, WriterAt
    <3>2. batch' \in Batches
      <4>1. CASE batch' \in {batch, NoBatch}
        BY <1>1, <2>2, <4>1
      <4>2. CASE InsertVersion /\ batch' = [batch EXCEPT !.versions = Tail(@)]
        <5>1. Tail(batch.versions) \in Seq(Game)
          BY <2>2, <4>2, TailFacts DEF InsertVersion
        <5> QED
          BY <1>1, <4>2, <5>1 DEF Batches
      <4> QED
        BY <2>8, <4>1, <4>2 DEF InsertVersion, InsertRuns, Prune, FlushFails
    <3>3. settled' \in Nat /\ settled' <= taken /\ taken - settled' <= Coalesce
      <4>1. CASE settled' = settled
        BY <1>1, <4>1
      <4>2. CASE settled' = taken
        BY <1>1, <4>2
      <4> QED
        BY <3>1, <4>1, <4>2
    <3> QED
      BY <1>1, <2>1, <3>1, <3>2, <3>3
  <2> QED
    BY <1>3, <2>4, <2>5, <2>6, <2>7, <2>8 DEF Writer
<1> QED
  BY <1>2, <1>3 DEF Next

LEMMA DataTypeStep ==
  ASSUME TypeOK, ThreadAt, Answered, BooksBalance, Next
  PROVE  /\ versionBuffer' \in Seq(Game) /\ runBuffer' \in Seq(Game)
         /\ results' \in Seq([upto : Nat, ok : BOOLEAN])
<1>1. /\ versionBuffer \in Seq(Game) /\ runBuffer \in Seq(Game)
      /\ results \in Seq([upto : Nat, ok : BOOLEAN])
  BY DEF TypeOK
<1>2. CASE Main
  <2>1. versionBuffer' \in Seq(Game) /\ runBuffer' \in Seq(Game)
    <3>1. CASE CompleteGame
      <4>1. PICK g \in Game : runBuffer' = Append(runBuffer, g)
                              /\ (versionBuffer' = Append(versionBuffer, g) \/ UNCHANGED versionBuffer)
        BY <3>1, NextGame
      <4> QED
        BY <1>1, <4>1, AppendFacts
    <3>2. CASE ~CompleteGame
      BY <1>1, <1>2, <3>2, MainMoves, EmptyFacts DEF MainQuiet, MainFlushes, Send, SendFails, buffers
    <3> QED
      BY <3>1, <3>2
  <2>2. settled' = settled
    BY <1>2, MainBooks DEF thread
  <2>3. results' \in Seq([upto : Nat, ok : BOOLEAN])
    <3>1. CASE UNCHANGED results
      BY <1>1, <3>1
    <3>2. CASE \E n \in 1..Len(results) : Record(n) /\ UNCHANGED handed
      BY <2>2, <3>2, RecordBooks
    <3> QED
      BY <1>2, <3>1, <3>2, MainBooks DEF books, Send
  <2> QED
    BY <2>1, <2>3
<1>3. CASE Writer
  <2>1. UNCHANGED buffers
    BY <1>3, WriterMoves
  <2>2. CASE UNCHANGED results
    BY <1>1, <2>1, <2>2 DEF buffers
  <2>3. CASE ~UNCHANGED results
    <3>1. PICK upto \in Nat, ok \in BOOLEAN : settled < upto /\ Answer(upto, ok)
      BY <1>3, <2>3, WriterAnswers
    <3> QED
      BY <1>1, <1>3, <2>1, <3>1, AnswerIsNext, WriterMoves DEF buffers
  <2> QED
    BY <2>2, <2>3
<1> QED
  BY <1>2, <1>3 DEF Next

LEMMA TypeStep ==
  ASSUME TypeOK, ThreadAt, Answered, BooksBalance, MainHas, Next
  PROVE  TypeOK'
<1>1. /\ config' \in Configs /\ main' \in MainAt
      /\ started' \in 0..Games /\ ended' \in 0..started' /\ completed' \in 0..ended'
      /\ returned' \in BOOLEAN /\ made' \subseteq 1..completed'
      /\ firstError' \in BOOLEAN /\ sender' \in BOOLEAN
  <2>1. CASE Main
    BY <2>1, PlayTypeStep
  <2>2. CASE Writer
    BY <2>2, WriterMoves DEF TypeOK
  <2> QED
    BY <2>1, <2>2 DEF Next
<1> QED
  BY <1>1, ThreadTypeStep, DataTypeStep, StoreGrows, BooksStep DEF TypeOK

-----------------------------------------------------------------------------
(* The invariant *)

(* Main waits for results, for room in the channel or for the end of the    *)
(* writer ... *)
MainBlocked ==
  /\ ~WriterEnded
  /\ \/ main = "wait" /\ results = <<>>
     \/ main = "send" /\ Len(handed) - taken >= QueueCap
     \/ main = "collect" /\ pending > 0 /\ results = <<>>
     \/ main = "join"

(* ... and the writer for a batch while main has its sender. *)
WriterBlocked ==
  writer \in {"recv", "unavailable"} /\ taken = Len(handed) /\ sender

(* The two threads never wait for each other, whatever failed before; and   *)
(* the run ends well only after the writer has ended, never beside it.      *)
NoStandstill ==
  /\ ~(MainBlocked /\ WriterBlocked)
  /\ main = "ok" => writer = "done"

\* What main has when it waits, and what has ended when it has.
WaitsFor ==
  /\ main = "wait" => pendingVersions > 0
  /\ main \in {"collect", "join", "ok"} => ~sender
  /\ main = "ok" => writer = "done"

IInv ==
  /\ TypeOK /\ ThreadAt /\ Answered /\ BooksBalance
  /\ OkIsStored /\ ReceivedStored /\ FlushHolds
  /\ HandedInOrder /\ StoreInOrder /\ OneConnection
  /\ NothingLost /\ VersionFirst /\ MainHas

LEMMA InvariantInit == Init => IInv
<1> SUFFICES ASSUME Init PROVE IInv
  OBVIOUS
<1> USE DEF Init
<1>1. TypeOK
  <2>1. 0 \in 0..Games /\ 0 \in 0..0 /\ Coalesce >= 0 /\ QueueCap >= 0
    BY WriterAssumption
  <2>2. batch \in Batches /\ handed \in Seq(Batches) /\ results \in Seq([upto : Nat, ok : BOOLEAN])
    BY EmptyFacts DEF NoBatch, Batches
  <2>3. Len(handed) = 0
    OBVIOUS
  <2>4. config \in Configs /\ main \in MainAt /\ writer \in WriterAt /\ made \subseteq 1..completed
    BY DEF MainAt, WriterAt
  <2>5. /\ started \in 0..Games /\ ended \in 0..started /\ completed \in 0..ended
        /\ settled <= taken /\ taken - settled <= Coalesce
        /\ taken <= Len(handed) /\ Len(handed) - taken <= QueueCap
    BY <2>1, <2>3, WriterAssumption
  <2> QED
    BY <2>2, <2>4, <2>5, EmptyFacts DEF TypeOK
<1>2. ThreadAt /\ Answered
  BY DEF ThreadAt, Answered
<1>3. Handed = {} /\ Len(handed) = 0
  BY DEF Handed
<1>4. BooksBalance
  <2>1. {i \in received + 1..Len(handed) : handed[i].versions # <<>>} = {}
    BY <1>3
  <2>2. VersionBatches(received + 1..Len(handed)) = 0
    BY <2>1, FS_EmptySet DEF VersionBatches
  <2> QED
    BY <1>3, <2>2 DEF BooksBalance
<1>5. OkIsStored /\ ReceivedStored /\ FlushHolds
  BY DEF OkIsStored, ReceivedStored, FlushHolds, Flushing
<1>6. HandedInOrder
  BY <1>3, EmptyFacts DEF HandedInOrder
<1>7. StoreInOrder
  <2>1. \A S, T : S = {} => Below(S, T)
    BY DEF Below
  <2> QED
    BY <1>3, <2>1, EmptyFacts DEF StoreInOrder
<1>8. OneConnection /\ NothingLost /\ VersionFirst
  BY <1>3, EmptyFacts DEF OneConnection, NothingLost, VersionFirst
<1>9. MainHas
  BY DEF MainHas
<1> QED
  BY <1>1, <1>2, <1>4, <1>5, <1>6, <1>7, <1>8, <1>9 DEF IInv

LEMMA InvariantStutter == ASSUME IInv, UNCHANGED vars PROVE IInv'
<1> USE DEF IInv, vars, play, buffers, books, thread, store
<1>1. TypeOK'
  BY DEF TypeOK
<1>2. ThreadAt' /\ Answered' /\ BooksBalance'
  BY DEF ThreadAt, Answered, BooksBalance, VersionBatches
<1> USE DEF HandedRuns, HandedVersions, Handed, Stored, Alive
<1>3. OkIsStored' /\ ReceivedStored'
  BY DEF OkIsStored, ReceivedStored, Covers
<1>4. FlushHolds'
  BY DEF FlushHolds, Flushing
<1>5. HandedInOrder'
  BY DEF HandedInOrder
<1>6. StoreInOrder'
  BY DEF StoreInOrder, Written
<1>7. OneConnection' /\ NothingLost' /\ VersionFirst' /\ MainHas'
  BY DEF OneConnection, BothFlush, NothingLost, VersionFirst, MainHas, BuffersEmpty
<1> QED
  BY <1>1, <1>2, <1>3, <1>4, <1>5, <1>6, <1>7

LEMMA InvariantStep == IInv /\ [Next]_vars => IInv'
<1>1. ASSUME IInv, Next PROVE IInv'
  <2> USE <1>1 DEF IInv
  <2>1. TypeOK' /\ ThreadAt' /\ Answered' /\ BooksBalance' /\ pendingVersions' \in Nat
    BY TypeStep, ThreadStep, AnsweredStep, BooksStep
  <2>2. OkIsStored' /\ ReceivedStored' /\ FlushHolds'
    BY OkIsStoredStep, ReceivedStoredStep, FlushHoldsStep
  <2>3. HandedInOrder' /\ StoreInOrder' /\ OneConnection'
    BY HandedInOrderStep, StoreInOrderStep, OneConnectionStep
  <2>4. NothingLost' /\ VersionFirst' /\ MainHas'
    BY <2>1, NothingLostStep, VersionFirstStep, MainHasStep
  <2> QED
    BY <2>1, <2>2, <2>3, <2>4
<1> QED
  BY <1>1, InvariantStutter

LEMMA Invariance == Spec => []IInv
<1> QED
  BY InvariantInit, InvariantStep, PTL DEF Spec
-----------------------------------------------------------------------------

(* Every variable stays in its range; the channel and the flush keep their  *)
(* bounds. *)
THEOREM WriterTypeCorrect == Spec => []TypeOK
<1>1. IInv => TypeOK
  BY DEF IInv
<1> QED
  BY <1>1, Invariance, PTL

(* The counters of the main thread are the batches, and the batches with a  *)
(* version, whose result it has not received. *)
THEOREM BooksAlwaysBalance == Spec => []BooksBalance
<1>1. IInv => BooksBalance
  BY DEF IInv
<1> QED
  BY <1>1, Invariance, PTL

(* When main has received every result and met no error, everything is in   *)
(* the store. *)
LEMMA AllReceived ==
  ASSUME IInv, Alive, ~firstError, received = Len(handed)
  PROVE  \A i \in Handed : Stored(i)
BY DEF IInv, ReceivedStored, Handed

(* A run that ends well has every run and every version it made in the      *)
(* store, whatever was coalesced, refused or interrupted on the way. *)
THEOREM SuccessIsDurable == Spec => []SuccessMeansDurable
<1>1. IInv => SuccessMeansDurable
  <2> SUFFICES ASSUME IInv, main = "ok"
               PROVE  SetOf(runs) = 1..completed /\ SetOf(versions) = made
    BY DEF SuccessMeansDurable
  <2> USE DEF IInv
  <2>1. Alive /\ ~firstError /\ pending = 0 /\ versionBuffer = <<>> /\ runBuffer = <<>>
    BY DEF Alive, MainHas, BuffersEmpty
  <2>2. received = Len(handed)
    BY <2>1, Places DEF BooksBalance
  <2>3. \A i \in Handed : HandedVersions(i) \subseteq SetOf(versions) /\ HandedRuns(i) \subseteq SetOf(runs)
    BY <2>1, <2>2, AllReceived DEF Stored
  <2>4. made \subseteq SetOf(versions) /\ 1..completed \subseteq SetOf(runs)
    BY <2>1, <2>3, EmptyFacts DEF NothingLost
  <2>5. Written <= Len(handed) /\ Written \in Nat
    BY Places DEF Written
  <2>6. SetOf(runs) \subseteq 1..completed
    <3>1. \A i \in 1..Written : i \in Handed
      BY <2>5, Places DEF Handed
    <3> QED
      BY <3>1 DEF StoreInOrder, HandedInOrder
  <2> QED
    BY <2>4, <2>6 DEF StoreInOrder
<1> QED
  BY <1>1, Invariance, PTL

(* A game that starts from the head of the store finds every version handed *)
(* over, and with the flush before new games every version made. *)
THEOREM HeadAlwaysCurrent == Spec => []HeadIsCurrent
<1>1. IInv => HeadIsCurrent
  <2> SUFFICES ASSUME IInv, main = "load"
               PROVE  /\ \A i \in DOMAIN handed : SetOf(handed[i].versions) \subseteq SetOf(versions)
                      /\ config.flush => made \subseteq SetOf(versions)
    BY DEF HeadIsCurrent
  <2> USE DEF IInv
  <2>1. Alive /\ ~firstError /\ pendingVersions = 0 /\ (config.flush => versionBuffer = <<>>)
    BY DEF Alive, MainHas
  <2>2. /\ received \in Nat /\ Len(handed) \in Nat /\ received <= Len(handed)
    BY Places
  <2>3. \A i \in received + 1..Len(handed) : handed[i].versions = <<>>
    BY <2>1, <2>2, VersionBatchesFacts DEF BooksBalance
  <2>4. \A i \in Handed : i \in 1..received \/ i \in received + 1..Len(handed)
    BY <2>2 DEF Handed
  <2>5. \A i \in Handed : HandedVersions(i) \subseteq SetOf(versions)
    BY <2>1, <2>3, <2>4, EmptyFacts DEF ReceivedStored, Stored, HandedVersions
  <2>6. DOMAIN handed = Handed
    BY DEF TypeOK, Handed
  <2>7. config.flush => made \subseteq SetOf(versions)
    BY <2>1, <2>5, EmptyFacts DEF NothingLost
  <2> QED
    BY <2>5, <2>6, <2>7 DEF HandedVersions
<1> QED
  BY <1>1, Invariance, PTL

(* Versions and runs reach the store in the order of the games, none twice, *)
(* the run of a game never before its version. *)
THEOREM AlwaysWrittenInOrder == Spec => []WrittenInOrder
<1>1. IInv => WrittenInOrder
  BY DEF IInv, StoreInOrder, VersionFirst, WrittenInOrder
<1> QED
  BY <1>1, Invariance, PTL
-----------------------------------------------------------------------------
(* The refinement *)

LEMMA Outcomes ==
  /\ main = "ok" => Outcome = "ok"
  /\ main \in {"err", "exited"} => Outcome = "err"
  /\ main \notin {"ok", "err", "exited"} => Outcome = "open"
  /\ main' = "ok" => Outcome' = "ok"
  /\ main' \in {"err", "exited"} => Outcome' = "err"
  /\ main' \notin {"ok", "err", "exited"} => Outcome' = "open"
BY DEF Outcome

(* The end of the main thread is final, and success comes from the join     *)
(* alone. *)
LEMMA MainEnds ==
  ASSUME Main
  PROVE  /\ main # "ok" /\ main # "exited"
         /\ main = "err" => main' = "exited"
         /\ main' = "ok" => main = "join" /\ ~firstError
<1>1. CASE StartGame \/ RefreshFlush \/ AwaitVersions \/ LoadHead \/ CompleteGame \/ FailedGame
  BY <1>1 DEF StartGame, RefreshFlush, Flush, FlushVersions, AfterRefresh, AwaitVersions, LoadHead,
              CompleteGame, FailedGame, Fail
<1>2. CASE BatchFlush \/ Enqueue \/ Send \/ SendFails \/ RunReturns \/ RunFails
  BY <1>2 DEF BatchFlush, Flush, FlushVersions, Enqueue, Send, SendFails, RunReturns, RunFails,
              AfterEnqueue, Fail
<1>3. CASE Finish \/ Collect \/ Collected \/ Join \/ Exit
  BY <1>3 DEF Finish, Collect, Collected, Join, Exit, Fail
<1> QED
  BY <1>1, <1>2, <1>3 DEF Main

LEMMA DurableIs ==
  /\ handed \in Seq(Batches) => DurableBatches = {i \in Handed : HandedRuns(i) \subseteq SetOf(runs)}
  /\ handed' \in Seq(Batches) =>
       DurableBatches' = {i \in Handed' : HandedRuns(i)' \subseteq SetOf(runs')}
BY DEF DurableBatches, Handed, HandedRuns

LEMMA MainImplements ==
  ASSUME IInv, IInv', Main
  PROVE  [Persistence!Next]_(Persistence!pvars)
<1> USE DEF IInv
<1>1. UNCHANGED <<settled, runs>>
  BY MainBooks, MainMoves DEF thread, MainQuiet, MainFlushes, CompleteGame, Send, SendFails, store
<1>2. CASE UNCHANGED handed
  <2>1. DurableBatches' = DurableBatches
    BY <1>1, <1>2 DEF DurableBatches
  <2>2. CASE Outcome' = Outcome
    BY <1>1, <1>2, <2>1, <2>2 DEF Persistence!pvars
  <2>3. CASE Outcome' # Outcome
    <3>1. Outcome = "open" /\ (Outcome' = "err" \/ (main = "join" /\ ~firstError /\ Outcome' = "ok"))
      BY <2>3, MainEnds, Outcomes
    <3>2. CASE Outcome' = "err"
      BY <1>1, <1>2, <2>1, <3>1, <3>2 DEF Persistence!Next, Persistence!GiveUp
    <3>3. CASE Outcome' # "err"
      <4>1. Alive /\ main = "join" /\ ~firstError /\ pending = 0 /\ Outcome' = "ok"
        BY <3>1, <3>3 DEF Alive, MainHas
      <4>2. received = Len(handed) /\ settled = Len(handed)
        BY <4>1, Places DEF BooksBalance
      <4>3. \A i \in Handed : HandedRuns(i) \subseteq SetOf(runs)
        BY <4>1, <4>2, AllReceived DEF Stored
      <4>4. DurableBatches = 1..Len(handed)
        BY <4>3, DurableIs DEF TypeOK, Handed
      <4> QED
        BY <1>1, <1>2, <2>1, <3>1, <4>1, <4>2, <4>4 DEF Persistence!Next, Persistence!Succeed
    <3> QED
      BY <3>2, <3>3
  <2> QED
    BY <2>2, <2>3
<1>3. CASE Send
  <2>1. PICK m \in Nat : m = Len(handed) + 1
    BY <1>3, SendHandsOver
  <2>2. /\ Handed' = Handed \union {m} /\ handed'[m].runs = runBuffer /\ main = "send"
        /\ \A i \in Handed : handed'[i] = handed[i]
    BY <1>3, <2>1, SendHandsOver
  <2>3. HandedRuns(m)' = SetOf(runBuffer) /\ \A i \in Handed : HandedRuns(i)' = HandedRuns(i)
    BY <2>2 DEF HandedRuns
  <2>4. \A i \in 1..Written : i \in Handed
    BY Places DEF Handed, Written
  <2>5. ~(SetOf(runBuffer) \subseteq SetOf(runs))
    <3>1. SetOf(runBuffer) # {}
      BY <2>2, <2>3 DEF HandedInOrder
    <3>2. PICK g \in SetOf(runBuffer) : TRUE
      BY <3>1
    <3>3. g \in Nat /\ ~(g < g)
      <4>1. runBuffer \in Seq(Game)
        BY DEF TypeOK
      <4>2. g \in Nat
        BY <3>2, <4>1, SetOfGames, GamesAreNumbers
      <4> QED
        BY <4>2
    <3>4. ASSUME g \in SetOf(runs) PROVE FALSE
      BY <2>4, <3>2, <3>3, <3>4 DEF StoreInOrder, HandedInOrder, Below
    <3> QED
      BY <3>2, <3>4
  <2>6. DurableBatches' = DurableBatches
    BY <1>1, <2>2, <2>3, <2>5, DurableIs, ZenonT(60) DEF TypeOK
  <2>7. Len(handed') = Len(handed) + 1
    BY <1>3 DEF TypeOK, Send
  <2>8. Outcome = "open" /\ Outcome' = "open"
    <3>1. main' \in {"finish", "idle"}
      BY <1>3 DEF Send, AfterEnqueue
    <3> QED
      BY <2>2, <3>1, Outcomes
  <2> QED
    BY <1>1, <2>6, <2>7, <2>8 DEF Persistence!Next, Persistence!Accept
<1> QED
  BY <1>2, <1>3, MainMoves DEF MainQuiet, MainFlushes, CompleteGame, SendFails

LEMMA WriterImplements ==
  ASSUME IInv, IInv', Writer
  PROVE  [Persistence!Next]_(Persistence!pvars)
<1> USE DEF IInv
<1>1. UNCHANGED <<main, handed>>
  BY WriterMoves
<1>2. Outcome' = Outcome /\ Len(handed') = Len(handed)
  BY <1>1 DEF Outcome
<1>3. CASE UNCHANGED <<runs, settled>>
  BY <1>1, <1>2, <1>3 DEF Persistence!pvars, DurableBatches
<1>4. CASE UNCHANGED runs /\ settled' # settled
  <2>1. DurableBatches' = DurableBatches
    BY <1>1, <1>4 DEF DurableBatches
  <2>2. PICK upto \in Nat : settled < upto /\ taken' = upto /\ settled' = upto
    BY <1>4, WriterAnswers DEF Answer
  <2>3. upto <= Len(handed)
    BY <1>1, <2>2 DEF TypeOK
  <2>4. settled' \in settled + 1..Len(handed)
    BY <2>2, <2>3, Places
  <2> QED
    BY <1>2, <2>1, <2>4 DEF Persistence!Next, Persistence!Settle
<1>5. CASE InsertRuns /\ ~UNCHANGED runs
  <2>1. writer = "versions" /\ runs' = runs \o batch.runs /\ UNCHANGED settled /\ settled < taken
    BY <1>5 DEF InsertRuns, ThreadAt
  <2>2. Flushing
    BY <2>1 DEF Flushing
  <2>3. SetOf(runs') = SetOf(runs) \union SetOf(batch.runs)
    BY <2>1, ConcatFacts DEF TypeOK, Batches
  <2>4. \A i \in Handed : HandedRuns(i)' = HandedRuns(i)
    BY <1>1 DEF HandedRuns
  <2>5. \A i \in settled + 1..taken : i \in Handed /\ HandedRuns(i) \subseteq SetOf(batch.runs)
    BY <2>2, Places DEF FlushHolds, Handed
  <2>6. ASSUME NEW i \in Handed, i \notin settled + 1..taken, NEW g \in HandedRuns(i)
        PROVE  g \notin SetOf(batch.runs)
    <3>1. SUFFICES ASSUME g \in SetOf(batch.runs) PROVE FALSE
      OBVIOUS
    <3>2. PICK j \in settled + 1..taken : g \in HandedRuns(j)
      BY <2>2, <3>1 DEF FlushHolds
    <3>3. j \in Handed /\ (i < j \/ j < i)
      BY <2>5, <2>6, <3>2, Places DEF Handed
    <3>4. g < g
      BY <2>6, <3>2, <3>3 DEF HandedInOrder, Below
    <3>5. g \in Nat
      <4>1. batch.runs \in Seq(Game)
        BY DEF TypeOK, Batches
      <4> QED
        BY <3>1, <4>1, SetOfGames, GamesAreNumbers
    <3> QED
      BY <3>4, <3>5
  <2>7. DurableBatches' = DurableBatches \union (settled + 1..taken)
    <3>1. DurableBatches = {i \in Handed : HandedRuns(i) \subseteq SetOf(runs)}
      BY DurableIs DEF TypeOK
    <3>2. DurableBatches' = {i \in Handed : HandedRuns(i) \subseteq SetOf(runs')}
      BY <1>1, <2>4, DurableIs DEF TypeOK, Handed
    <3>3. \A i \in Handed : HandedRuns(i) \subseteq SetOf(runs')
                            <=> HandedRuns(i) \subseteq SetOf(runs) \/ i \in settled + 1..taken
      BY <2>3, <2>5, <2>6
    <3> QED
      BY <2>5, <3>1, <3>2, <3>3
  <2>8. taken \in settled + 1..Len(handed)
    BY <2>1, Places
  <2> QED
    BY <1>2, <2>1, <2>7, <2>8 DEF Persistence!Next, Persistence!Persist
<1> QED
  <2>1. UNCHANGED runs \/ InsertRuns
    BY DEF Writer, Connect, Refuse, TakeBatch, WriterDone, Absorb, StartFlush, InsertVersion,
           Prune, Panic, store
  <2> QED
    BY <1>3, <1>4, <1>5, <2>1

LEMMA InitImplements == Init => Persistence!Init
<1> SUFFICES ASSUME Init PROVE Persistence!Init
  OBVIOUS
<1>1. Len(handed) = 0 /\ DOMAIN handed = {} /\ main = "idle" /\ settled = 0
  BY DEF Init
<1>2. DurableBatches = {} /\ Outcome = "open"
  BY <1>1, Outcomes DEF DurableBatches
<1> QED
  BY <1>1, <1>2 DEF Persistence!Init

(* The writer implements RunPersistence: what it answers it answers in      *)
(* order, what becomes durable does so from the oldest batch on and at      *)
(* once, and the run succeeds only with all of it durable. *)
THEOREM WriterImplementsPersistence == Spec => ImplementsPersistence
<1>1. IInv /\ IInv' /\ [Next]_vars => [Persistence!Next]_(Persistence!pvars)
  <2>1. CASE UNCHANGED vars
    BY <2>1 DEF vars, thread, store, Persistence!pvars, DurableBatches, Outcome
  <2> QED
    BY <2>1, MainImplements, WriterImplements DEF Next
<1> QED
  BY <1>1, InitImplements, Invariance, PTL DEF Spec, ImplementsPersistence, Persistence!Spec

(* A wait starts only with something to wait for, and once main has given   *)
(* up its sender it never sends again. *)
LEMMA WaitsForStep ==
  ASSUME IInv, IInv', WaitsFor, [Next]_vars
  PROVE  WaitsFor'
<1> USE DEF WaitsFor
<1>0. pendingVersions \in Nat /\ pendingVersions' \in Nat
  BY DEF IInv, TypeOK
<1>1. CASE StartGame \/ LoadHead \/ CompleteGame \/ FailedGame \/ RunReturns \/ RunFails
  BY <1>1 DEF StartGame, LoadHead, CompleteGame, FailedGame, RunReturns, RunFails, Fail
<1>2. CASE RefreshFlush
  <2>1. \/ main' = AfterRefresh /\ UNCHANGED pendingVersions
        \/ main' = "err"
    BY <1>2 DEF RefreshFlush, Flush, FlushVersions, Fail, books
  <2>2. main' \in {"wait", "load", "err"} /\ (main' = "wait" => pendingVersions' > 0)
    BY <2>1 DEF AfterRefresh
  <2> QED
    BY <2>2
<1>3. CASE AwaitVersions
  <2>1. \/ main' = IF pendingVersions' = 0 THEN "load" ELSE "wait"
        \/ main' = "err"
    BY <1>3 DEF AwaitVersions, Fail
  <2>2. main' \in {"wait", "load", "err"} /\ (main' = "wait" => pendingVersions' > 0)
    BY <1>0, <2>1
  <2> QED
    BY <2>2
<1>4. CASE BatchFlush \/ Enqueue \/ Send \/ SendFails
  BY <1>4 DEF BatchFlush, Flush, FlushVersions, Enqueue, Send, SendFails, AfterEnqueue, Fail
<1>5. CASE Finish \/ Collect \/ Collected \/ Exit
  BY <1>5 DEF Finish, Collect, Collected, Exit, Fail
<1>6. CASE Join
  BY <1>6 DEF Join, WriterEnded, thread
<1>7. CASE Writer
  <2>1. UNCHANGED <<main, sender, pendingVersions>> /\ writer # "done"
    BY <1>7 DEF Writer, Connect, Refuse, TakeBatch, WriterDone, Absorb, StartFlush, InsertVersion,
                InsertRuns, Prune, Panic, FlushFails, main_
  <2> QED
    BY <2>1
<1>8. CASE UNCHANGED vars
  BY <1>8 DEF vars, books, thread
<1> QED
  BY <1>1, <1>2, <1>3, <1>4, <1>5, <1>6, <1>7, <1>8 DEF Next, Main

(* For every channel and every flush size: main and the writer never wait   *)
(* for each other, and a run that ended well has joined its writer.         *)
THEOREM NeverStandstill == Spec => []NoStandstill
<1>1. Init => WaitsFor
  BY DEF Init, WaitsFor
<1>2. IInv /\ IInv' /\ WaitsFor /\ [Next]_vars => WaitsFor'
  BY WaitsForStep
<1>3. ASSUME IInv, WaitsFor, MainBlocked, WriterBlocked PROVE FALSE
  <2>1. /\ received \in Nat /\ taken \in Nat /\ settled \in Nat /\ Len(handed) \in Nat
        /\ taken = settled /\ taken = Len(handed)
    BY <1>3 DEF IInv, TypeOK, ThreadAt, WriterBlocked
  <2>2. CASE main = "wait" /\ results = <<>>
    <3>1. received = Len(handed)
      BY <2>1, <2>2, <1>3 DEF IInv, Answered
    <3>2. received + 1..Len(handed) = {}
      BY <2>1, <3>1
    <3>3. VersionBatches(received + 1..Len(handed)) = 0
      BY <3>2, FS_EmptySet DEF VersionBatches
    <3> QED
      BY <1>3, <2>2, <3>3 DEF IInv, BooksBalance, WaitsFor
  <2>3. CASE main = "send" /\ Len(handed) - taken >= QueueCap
    BY <2>1, <2>3, WriterAssumption
  <2>4. CASE main \in {"collect", "join"}
    BY <1>3, <2>4 DEF WaitsFor, WriterBlocked
  <2> QED
    BY <1>3, <2>2, <2>3, <2>4 DEF MainBlocked
<1>4. IInv /\ WaitsFor => NoStandstill
  BY <1>3 DEF WaitsFor, NoStandstill
<1> QED
  BY <1>1, <1>2, <1>4, Invariance, PTL DEF Spec
=============================================================================
