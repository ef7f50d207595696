-------------------------- MODULE NeuralWorkerProofs --------------------------
(***************************************************************************)
(* For every size of the channels, every number of batches of a call and   *)
(* every cadence of snapshots: the learner's books agree with what the     *)
(* worker owes it, and a snapshot with the steps it is recorded with.      *)
(*                                                                         *)
(* What is owed is a sum over the messages in the channels, so the first   *)
(* part is about sums: what appending a message and taking the first one   *)
(* do to them, by induction on the length.  Counting only from below       *)
(* (OwesAtLeast) the books agree in every state, also after a panic or a   *)
(* shutdown; from above (PendingIsOwed) they do until then.                *)
(***************************************************************************)
EXTENDS NeuralWorker, SequenceTheorems, WellFoundedInduction, TLAPS

\* The batches that were learnt, of a message and up to a place of a channel.
Learnt(msg) == IF msg.kind = "Trained" THEN msg.ok ELSE 0
LearntUpTo(msgs) == PartialSums([i \in 1..Len(msgs) |-> Learnt(msgs[i])])

InHand == IF worker \in {"train", "sendTrained"} THEN job.left + job.ok + job.bad ELSE 0

OwesAtLeast == pending >= UnderWay(cmds) + UnderWay(results) + InHand

JobFits ==
  /\ job.left + job.ok + job.bad <= MaxPerTick
  /\ worker = "sendTrained" => job.left = 0

\* Once the learner is dropped it makes no call, and only then is it deaf.
Shutdown == (cancel => pc = "idle") /\ (~receiving => cancel)

\* What the network has learnt is what was reported and what will be.
NetTrue ==
  receiving /\ worker # "exited" /\ (cancel => worker = "sendSnapshot") =>
    net = steps + LearntUpTo(results)[Len(results)]
          + (IF worker \in {"train", "sendTrained"} THEN job.ok ELSE 0)

\* A snapshot in the channel is of what is learnt in the answers before it.
SnapshotsTrue ==
  /\ snapshot <= steps
  /\ \A i \in 1..Len(results) :
       results[i].kind = "Snapshot" => results[i].version = steps + LearntUpTo(results)[i]

(* The learner waits for the batches that are pending ... *)
LearnerWaits == pc = "untilIdle" /\ pending > 0 /\ results = <<>> /\ worker # "exited"

(* ... and the worker for a command or for room in the result channel. *)
WorkerBlocked ==
  \/ worker = "recv" /\ cmds = <<>> /\ sending
  \/ worker \in {"sendTrained", "sendSnapshot"} /\ receiving /\ Len(results) >= MaxPending

(* The learner never waits for pending batches beside a worker that waits   *)
(* itself: whatever was dropped, failed or refused before, only a worker    *)
(* that is at work makes the call wait for its deadline.  (The wait for a   *)
(* snapshot can be in vain: the drain of a slice may have taken it.)        *)
NoMutualWait == ~(LearnerWaits /\ WorkerBlocked)

IInv ==
  /\ TypeOK /\ OwesAtLeast /\ JobFits /\ Shutdown /\ BooksAgree
  /\ NetTrue /\ SnapshotsTrue

-----------------------------------------------------------------------------
(* Induction over the natural numbers, as a fact about sets. *)

LEMMA LeastNumber ==
  ASSUME NEW T \in SUBSET Nat, T # {}
  PROVE  \E n \in T : \A m \in T : n <= m
<1> DEFINE Less == {ss \in Nat \X Nat : ss[1] < ss[2]}
<1>1. IsWellFoundedOn(Less, Nat)
  BY NatLessThanWellFounded DEF OpToRel
<1>2. PICK x \in T : \A y \in T : <<y, x>> \notin Less
  <2> HIDE DEF Less
  <2> QED
    BY <1>1, WFMin
<1>3. ASSUME NEW y \in T PROVE x <= y
  <2>1. x \in Nat /\ y \in Nat /\ <<y, x>> \notin Less
    BY <1>2
  <2>2. <<y, x>> \in Less <=> y < x
    BY <2>1
  <2> QED
    BY <2>1, <2>2
<1> QED
  BY <1>3

LEMMA SetInduction ==
  ASSUME NEW S, 0 \in S, \A n \in Nat : n \in S => n + 1 \in S
  PROVE  Nat \subseteq S
<1> SUFFICES ASSUME Nat \ S # {} PROVE FALSE
  OBVIOUS
<1>1. PICK n \in Nat \ S : \A m \in Nat \ S : n <= m
  BY LeastNumber
<1>2. n # 0 /\ n - 1 \in Nat
  BY <1>1
<1>3. n - 1 \in S
  BY <1>1, <1>2
<1>4. (n - 1) + 1 = n
  BY <1>1
<1> QED
  BY <1>1, <1>2, <1>3, <1>4

-----------------------------------------------------------------------------
(* Partial sums exist, are unique, and follow their sequence. *)

SumsUpTo(g, w, n) == g[0] = 0 /\ \A i \in 1..n : g[i] = g[i - 1] + w[i]

LEMMA SumsExist ==
  ASSUME NEW w, NEW last \in Nat, \A i \in 1..last : w[i] \in Nat
  PROVE  \E g \in [0..last -> Nat] : SumsUpTo(g, w, last)
<1> DEFINE Fits(n) == \E g \in [0..n -> Nat] : SumsUpTo(g, w, n)
           S == {n \in Nat : n <= last => Fits(n)}
<1>1. 0 \in S
  <2> DEFINE g == [i \in 0..0 |-> 0]
  <2>1. g \in [0..0 -> Nat] /\ g[0] = 0
    OBVIOUS
  <2>2. SumsUpTo(g, w, 0)
    BY <2>1 DEF SumsUpTo
  <2> HIDE DEF g
  <2>3. Fits(0)
    BY <2>1, <2>2
  <2> HIDE DEF Fits
  <2> QED
    BY <2>3
<1>2. ASSUME NEW n \in Nat, n \in S PROVE n + 1 \in S
  <2> SUFFICES ASSUME n + 1 <= last PROVE Fits(n + 1)
    <3> HIDE DEF Fits
    <3> QED
      OBVIOUS
  <2>1. PICK g \in [0..n -> Nat] : SumsUpTo(g, w, n)
    BY <1>2
  <2>2. w[n + 1] \in Nat
    OBVIOUS
  <2> DEFINE h == [i \in 0..n + 1 |-> IF i = n + 1 THEN g[n] + w[n + 1] ELSE g[i]]
  <2>3. h \in [0..n + 1 -> Nat]
    BY <2>1, <2>2
  <2>4. \A i \in 0..n : h[i] = g[i]
    OBVIOUS
  <2>5. h[n + 1] = g[n] + w[n + 1]
    OBVIOUS
  <2> HIDE DEF h
  <2>6. h[0] = 0
    BY <2>1, <2>4 DEF SumsUpTo
  <2>7. ASSUME NEW i \in 1..n + 1 PROVE h[i] = h[i - 1] + w[i]
    <3>1. CASE i = n + 1
      <4>1. i - 1 = n /\ h[n] = g[n]
        BY <2>4, <3>1
      <4> QED
        BY <2>5, <3>1, <4>1
    <3>2. CASE i # n + 1
      <4>1. i \in 1..n /\ i - 1 \in 0..n /\ i \in 0..n
        BY <3>2
      <4>2. h[i] = g[i] /\ h[i - 1] = g[i - 1]
        BY <2>4, <4>1
      <4> QED
        BY <2>1, <4>1, <4>2 DEF SumsUpTo
    <3> QED
      BY <3>1, <3>2
  <2> QED
    BY <2>3, <2>6, <2>7 DEF SumsUpTo
<1> HIDE DEF S
<1>3. Nat \subseteq S
  BY <1>1, <1>2, SetInduction
<1> QED
  BY <1>3 DEF S

LEMMA SumsAre ==
  ASSUME NEW s \in Seq(Nat)
  PROVE  PartialSums(s) \in [0..Len(s) -> Nat] /\ SumsUpTo(PartialSums(s), s, Len(s))
<1> DEFINE Eqn(f) == f = [n \in 0..Len(s) |-> IF n = 0 THEN 0 ELSE f[n - 1] + s[n]]
           total == CHOOSE f : Eqn(f)
<1>1. PartialSums(s) = total
  BY DEF PartialSums
<1>2. Len(s) \in Nat /\ \A i \in 1..Len(s) : s[i] \in Nat
  OBVIOUS
<1>3. PICK g \in [0..Len(s) -> Nat] : SumsUpTo(g, s, Len(s))
  BY <1>2, SumsExist
<1>4. Eqn(g)
  <2>1. ASSUME NEW n \in 0..Len(s) PROVE g[n] = IF n = 0 THEN 0 ELSE g[n - 1] + s[n]
    BY <1>2, <1>3 DEF SumsUpTo
  <2> QED
    BY <1>3, <2>1
<1> HIDE DEF Eqn
<1>5. Eqn(total)
  BY <1>4
<1> HIDE DEF total
<1>6. total = [n \in 0..Len(s) |-> IF n = 0 THEN 0 ELSE total[n - 1] + s[n]]
  BY <1>5 DEF Eqn
<1>7. SumsUpTo(total, s, Len(s))
  <2>1. total[0] = 0
    BY <1>2, <1>6
  <2>2. ASSUME NEW i \in 1..Len(s) PROVE total[i] = total[i - 1] + s[i]
    <3>1. i \in 0..Len(s) /\ i # 0
      BY <1>2
    <3> QED
      BY <1>6, <3>1
  <2> QED
    BY <2>1, <2>2 DEF SumsUpTo
<1>8. total \in [0..Len(s) -> Nat]
  <2> DEFINE S == {n \in Nat : n <= Len(s) => total[n] \in Nat}
  <2>1. 0 \in S
    BY <1>7 DEF SumsUpTo
  <2>2. ASSUME NEW n \in Nat, n \in S PROVE n + 1 \in S
    <3> SUFFICES ASSUME n + 1 <= Len(s) PROVE total[n + 1] \in Nat
      OBVIOUS
    <3>1. n + 1 \in 1..Len(s) /\ (n + 1) - 1 = n /\ total[n] \in Nat
      BY <1>2, <2>2
    <3>2. total[n + 1] = total[n] + s[n + 1]
      BY <1>7, <3>1 DEF SumsUpTo
    <3> QED
      BY <1>2, <3>1, <3>2
  <2> HIDE DEF S
  <2>3. Nat \subseteq S
    BY <2>1, <2>2, SetInduction
  <2>4. \A n \in 0..Len(s) : total[n] \in Nat
    BY <1>2, <2>3 DEF S
  <2>5. DOMAIN total = 0..Len(s) /\ total = [n \in 0..Len(s) |-> total[n]]
    BY <1>6
  <2> QED
    BY <2>4, <2>5
<1> QED
  BY <1>1, <1>7, <1>8

(* Sums that add alike stay a fixed number apart. *)
AddAlike(g, h, w, last) ==
  /\ \A n \in 0..last : g[n] \in Nat /\ h[n] \in Nat
  /\ \A n \in 1..last : w[n] \in Nat /\ g[n] = g[n - 1] + w[n] /\ h[n] = h[n - 1] + w[n]

LEMMA SumsApart ==
  ASSUME NEW last \in Nat, NEW g, NEW h, NEW w, AddAlike(g, h, w, last),
         NEW c \in Nat, g[0] = c + h[0]
  PROVE  \A n \in 0..last : g[n] = c + h[n]
<1> USE DEF AddAlike
<1> DEFINE S == {n \in Nat : n <= last => g[n] = c + h[n]}
<1>1. 0 \in S
  OBVIOUS
<1>2. ASSUME NEW n \in Nat, n \in S PROVE n + 1 \in S
  <2> SUFFICES ASSUME n + 1 <= last PROVE g[n + 1] = c + h[n + 1]
    OBVIOUS
  <2>1. n + 1 \in 1..last /\ n + 1 - 1 = n /\ n \in 0..last /\ g[n] = c + h[n]
    BY <1>2
  <2>2. g[n + 1] = g[n] + w[n + 1] /\ h[n + 1] = h[n] + w[n + 1]
    BY <2>1
  <2>3. h[n] \in Nat /\ w[n + 1] \in Nat
    BY <2>1
  <2> QED
    BY <2>1, <2>2, <2>3
<1> HIDE DEF S
<1>3. Nat \subseteq S
  BY <1>1, <1>2, SetInduction
<1> QED
  BY <1>3 DEF S

LEMMA SumsAppend ==
  ASSUME NEW s \in Seq(Nat), NEW e \in Nat
  PROVE  /\ \A n \in 0..Len(s) : PartialSums(Append(s, e))[n] = PartialSums(s)[n]
         /\ PartialSums(Append(s, e))[Len(s) + 1] = PartialSums(s)[Len(s)] + e
<1> DEFINE t == Append(s, e)
           g == PartialSums(t)
           h == PartialSums(s)
<1>1. /\ t \in Seq(Nat) /\ Len(s) \in Nat /\ Len(t) = Len(s) + 1 /\ t[Len(s) + 1] = e
      /\ \A n \in 1..Len(s) : t[n] = s[n] /\ s[n] \in Nat
  OBVIOUS
<1> HIDE DEF t
<1>2. g \in [0..Len(s) + 1 -> Nat] /\ h \in [0..Len(s) -> Nat]
  BY <1>1, SumsAre
<1>3. SumsUpTo(g, t, Len(s) + 1) /\ SumsUpTo(h, s, Len(s))
  BY <1>1, SumsAre
<1> HIDE DEF g, h
<1>4. \A n \in 0..Len(s) : g[n] \in Nat /\ h[n] \in Nat
  BY <1>1, <1>2
<1>5. g[0] = 0 + h[0]
  BY <1>3 DEF SumsUpTo
<1>6. \A n \in 1..Len(s) : s[n] \in Nat /\ g[n] = g[n - 1] + s[n] /\ h[n] = h[n - 1] + s[n]
  BY <1>1, <1>3 DEF SumsUpTo
<1>7. AddAlike(g, h, s, Len(s))
  BY <1>4, <1>6 DEF AddAlike
<1>8. \A n \in 0..Len(s) : g[n] = 0 + h[n]
  BY <1>1, <1>5, <1>7, SumsApart
<1>9. \A n \in 0..Len(s) : g[n] = h[n]
  BY <1>4, <1>8
<1>10. g[Len(s) + 1] = h[Len(s)] + e
  <2>1. g[Len(s) + 1] = g[Len(s) + 1 - 1] + t[Len(s) + 1]
    BY <1>1, <1>3 DEF SumsUpTo
  <2> QED
    BY <1>1, <1>9, <2>1
<1> QED
  BY <1>9, <1>10 DEF g, h, t

LEMMA SumsTail ==
  ASSUME NEW s \in Seq(Nat), s # <<>>
  PROVE  \A n \in 0..Len(Tail(s)) : PartialSums(s)[n + 1] = s[1] + PartialSums(Tail(s))[n]
<1> DEFINE t == Tail(s)
           g == PartialSums(s)
           h == PartialSums(t)
<1>1. /\ t \in Seq(Nat) /\ Len(t) \in Nat /\ Len(s) = Len(t) + 1 /\ s[1] \in Nat
      /\ \A n \in 1..Len(t) : t[n] = s[n + 1] /\ t[n] \in Nat
  OBVIOUS
<1> HIDE DEF t
<1>2. g \in [0..Len(t) + 1 -> Nat] /\ h \in [0..Len(t) -> Nat]
  BY <1>1, SumsAre
<1>3. SumsUpTo(g, s, Len(t) + 1) /\ SumsUpTo(h, t, Len(t))
  BY <1>1, SumsAre
<1> HIDE DEF g, h
<1> DEFINE k == [n \in 0..Len(t) |-> g[n + 1]]
<1>4. \A n \in 0..Len(t) : k[n] = g[n + 1] /\ n + 1 \in 0..Len(t) + 1
  BY <1>1
<1> HIDE DEF k
<1>5. \A n \in 0..Len(t) : k[n] \in Nat /\ h[n] \in Nat
  BY <1>2, <1>4
<1>6. k[0] = s[1] + h[0]
  <2>1. g[1] = g[1 - 1] + s[1] /\ g[0] = 0 /\ h[0] = 0
    BY <1>1, <1>3 DEF SumsUpTo
  <2>2. k[0] = g[0 + 1]
    BY <1>1, <1>4
  <2> QED
    BY <1>1, <2>1, <2>2
<1>7. ASSUME NEW n \in 1..Len(t)
      PROVE  t[n] \in Nat /\ k[n] = k[n - 1] + t[n] /\ h[n] = h[n - 1] + t[n]
  <2>1. n + 1 \in 1..Len(t) + 1 /\ n + 1 - 1 = n /\ n - 1 + 1 = n /\ n - 1 \in 0..Len(t) /\ n \in 0..Len(t)
    BY <1>1
  <2>2. g[n + 1] = g[n] + s[n + 1] /\ h[n] = h[n - 1] + t[n]
    BY <1>3, <2>1 DEF SumsUpTo
  <2>3. k[n] = g[n + 1] /\ k[n - 1] = g[n]
    BY <1>4, <2>1
  <2> QED
    BY <1>1, <2>2, <2>3
<1>8. AddAlike(k, h, t, Len(t))
  BY <1>5, <1>7 DEF AddAlike
<1>9. \A n \in 0..Len(t) : k[n] = s[1] + h[n]
  BY <1>1, <1>6, <1>8, SumsApart
<1>10. \A n \in 0..Len(t) : g[n + 1] = s[1] + h[n]
  BY <1>4, <1>9
<1> QED
  BY <1>10 DEF g, h, t

-----------------------------------------------------------------------------
(* What appending a message and taking the first one do to a sum over them. *)

Mapped(s, f) == [i \in 1..Len(s) |-> f[s[i]]]
SumOf(s, f) == PartialSums(Mapped(s, f))

LEMMA MappedIs ==
  ASSUME NEW S, NEW f \in [S -> Nat], NEW s \in Seq(S)
  PROVE  Len(s) \in Nat /\ Mapped(s, f) \in Seq(Nat) /\ Len(Mapped(s, f)) = Len(s)
         /\ \A i \in 1..Len(s) : s[i] \in S /\ Mapped(s, f)[i] = f[s[i]]
<1>1. Len(s) \in Nat /\ \A i \in 1..Len(s) : s[i] \in S /\ f[s[i]] \in Nat
  OBVIOUS
<1> QED
  BY <1>1 DEF Mapped

LEMMA MappedAppend ==
  ASSUME NEW S, NEW f \in [S -> Nat], NEW s \in Seq(S), NEW m \in S
  PROVE  Mapped(Append(s, m), f) = Append(Mapped(s, f), f[m])
<1> DEFINE a == Mapped(Append(s, m), f)
           b == Append(Mapped(s, f), f[m])
<1>1. /\ Append(s, m) \in Seq(S) /\ Len(Append(s, m)) = Len(s) + 1 /\ Len(s) \in Nat
      /\ Append(s, m)[Len(s) + 1] = m /\ \A i \in 1..Len(s) : Append(s, m)[i] = s[i]
  OBVIOUS
<1>2. /\ Mapped(s, f) \in Seq(Nat) /\ Len(Mapped(s, f)) = Len(s) /\ f[m] \in Nat
      /\ \A i \in 1..Len(s) : Mapped(s, f)[i] = f[s[i]]
  BY MappedIs
<1>3. /\ b \in Seq(Nat) /\ Len(b) = Len(s) + 1 /\ b[Len(s) + 1] = f[m]
      /\ \A i \in 1..Len(s) : b[i] = f[s[i]]
  BY <1>2
<1>4. a \in Seq(Nat) /\ Len(a) = Len(s) + 1 /\ \A i \in 1..Len(s) + 1 : a[i] = f[Append(s, m)[i]]
  <2>1. \A r \in Seq(S) : Len(r) \in Nat /\ Mapped(r, f) \in Seq(Nat) /\ Len(Mapped(r, f)) = Len(r)
           /\ \A i \in 1..Len(r) : Mapped(r, f)[i] = f[r[i]]
    BY MappedIs
  <2> QED
    BY <1>1, <2>1
<1> HIDE DEF a, b
<1>5. ASSUME NEW i \in 1..Len(s) + 1 PROVE a[i] = b[i]
  <2>1. CASE i = Len(s) + 1
    BY <1>1, <1>3, <1>4, <2>1
  <2>2. CASE i # Len(s) + 1
    <3>1. i \in 1..Len(s)
      BY <1>1, <2>2
    <3>2. b[i] = f[s[i]]
      BY <1>3, <3>1
    <3>3. Append(s, m)[i] = s[i]
      BY <1>1, <3>1
    <3> QED
      BY <1>4, <3>2, <3>3
  <2> QED
    BY <2>1, <2>2
<1>6. a = b
  BY <1>3, <1>4, <1>5, SeqEqual
<1> QED
  BY <1>6 DEF a, b

LEMMA MappedTail ==
  ASSUME NEW S, NEW f \in [S -> Nat], NEW s \in Seq(S), s # <<>>
  PROVE  /\ Mapped(Tail(s), f) = Tail(Mapped(s, f))
         /\ Mapped(s, f) # <<>> /\ Mapped(s, f)[1] = f[Head(s)]
<1> DEFINE m == Mapped(s, f)
           a == Mapped(Tail(s), f)
           b == Tail(m)
<1>1. /\ Tail(s) \in Seq(S) /\ Len(Tail(s)) \in Nat /\ Len(s) = Len(Tail(s)) + 1 /\ Head(s) = s[1]
      /\ \A i \in 1..Len(Tail(s)) : Tail(s)[i] = s[i + 1] /\ i + 1 \in 1..Len(s)
  OBVIOUS
<1>2. m \in Seq(Nat) /\ Len(m) = Len(s) /\ \A i \in 1..Len(s) : m[i] = f[s[i]]
  BY MappedIs
<1>3. a \in Seq(Nat) /\ Len(a) = Len(Tail(s)) /\ \A i \in 1..Len(Tail(s)) : a[i] = f[Tail(s)[i]]
  <2>1. \A r \in Seq(S) : Len(r) \in Nat /\ Mapped(r, f) \in Seq(Nat) /\ Len(Mapped(r, f)) = Len(r)
           /\ \A i \in 1..Len(r) : Mapped(r, f)[i] = f[r[i]]
    BY MappedIs
  <2> QED
    BY <1>1, <2>1
<1> HIDE DEF m, a
<1>4. m # <<>> /\ m[1] = f[Head(s)]
  BY <1>1, <1>2
<1>5. b \in Seq(Nat) /\ Len(b) = Len(Tail(s)) /\ \A i \in 1..Len(Tail(s)) : b[i] = m[i + 1]
  BY <1>1, <1>2, <1>4
<1> HIDE DEF b
<1>6. ASSUME NEW i \in 1..Len(Tail(s)) PROVE a[i] = b[i]
  BY <1>1, <1>2, <1>3, <1>5
<1>7. a = b
  BY <1>3, <1>5, <1>6, SeqEqual
<1> QED
  BY <1>4, <1>7 DEF m, a, b

LEMMA SumOfFacts ==
  ASSUME NEW S, NEW f \in [S -> Nat], NEW s \in Seq(S)
  PROVE  /\ SumOf(s, f) \in [0..Len(s) -> Nat] /\ SumOf(s, f)[0] = 0
         /\ \A m \in S :
              /\ \A n \in 0..Len(s) : SumOf(Append(s, m), f)[n] = SumOf(s, f)[n]
              /\ SumOf(Append(s, m), f)[Len(s) + 1] = SumOf(s, f)[Len(s)] + f[m]
         /\ s # <<>> =>
              \A n \in 0..Len(Tail(s)) : SumOf(s, f)[n + 1] = f[Head(s)] + SumOf(Tail(s), f)[n]
<1>1. Mapped(s, f) \in Seq(Nat) /\ Len(Mapped(s, f)) = Len(s)
  BY MappedIs
<1>2. SumOf(s, f) \in [0..Len(s) -> Nat] /\ SumOf(s, f)[0] = 0
  BY <1>1, SumsAre DEF SumOf, SumsUpTo
<1>3. ASSUME NEW m \in S
      PROVE  /\ \A n \in 0..Len(s) : SumOf(Append(s, m), f)[n] = SumOf(s, f)[n]
             /\ SumOf(Append(s, m), f)[Len(s) + 1] = SumOf(s, f)[Len(s)] + f[m]
  <2>1. SumOf(Append(s, m), f) = PartialSums(Append(Mapped(s, f), f[m])) /\ f[m] \in Nat
    BY MappedAppend DEF SumOf
  <2> QED
    BY <1>1, <2>1, SumsAppend DEF SumOf
<1>4. ASSUME s # <<>>
      PROVE  \A n \in 0..Len(Tail(s)) : SumOf(s, f)[n + 1] = f[Head(s)] + SumOf(Tail(s), f)[n]
  <2>1. /\ SumOf(Tail(s), f) = PartialSums(Tail(Mapped(s, f)))
        /\ Mapped(s, f) # <<>> /\ Mapped(s, f)[1] = f[Head(s)]
    BY <1>4, MappedTail DEF SumOf
  <2>2. Len(Tail(Mapped(s, f))) = Len(Tail(s))
    BY <1>1, <1>4, <2>1
  <2> QED
    BY <1>1, <2>1, <2>2, SumsTail DEF SumOf
<1> QED
  BY <1>2, <1>3, <1>4

-----------------------------------------------------------------------------
(* The two sums: what is under way in a channel, and what is learnt in it.  *)

LEMMA NoneUnderWay == UnderWay(<<>>) = 0
<1> DEFINE s == [i \in 1..0 |-> Batches(<<>>[i])]
<1>1. s \in Seq(Nat) /\ Len(s) = 0
  OBVIOUS
<1>2. UnderWay(<<>>) = PartialSums(s)[0]
  BY DEF UnderWay
<1> HIDE DEF s
<1>3. PartialSums(s)[0] = 0
  BY <1>1, SumsAre DEF SumsUpTo
<1> QED
  BY <1>2, <1>3

LEMMA UnderWayFacts ==
  ASSUME NEW S, NEW s \in Seq(S), \A m \in S : Batches(m) \in Nat
  PROVE  /\ UnderWay(s) \in Nat
         /\ \A m \in S : UnderWay(Append(s, m)) = UnderWay(s) + Batches(m)
         /\ s # <<>> => UnderWay(s) = Batches(Head(s)) + UnderWay(Tail(s)) /\ UnderWay(Tail(s)) \in Nat
<1> DEFINE f == [m \in S |-> Batches(m)]
<1>1. f \in [S -> Nat] /\ \A m \in S : f[m] = Batches(m)
  OBVIOUS
<1> HIDE DEF f
<1>2. ASSUME NEW r \in Seq(S) PROVE UnderWay(r) = SumOf(r, f)[Len(r)] /\ UnderWay(r) \in Nat
  <2>1. Len(r) \in Nat /\ \A i \in 1..Len(r) : r[i] \in S /\ f[r[i]] = Batches(r[i])
    BY <1>1
  <2>2. [i \in 1..Len(r) |-> Batches(r[i])] = [i \in 1..Len(r) |-> f[r[i]]]
    BY <2>1
  <2>3. UnderWay(r) = SumOf(r, f)[Len(r)]
    BY <2>2 DEF UnderWay, SumOf, Mapped
  <2>4. SumOf(r, f) \in [0..Len(r) -> Nat] /\ Len(r) \in 0..Len(r)
    BY <1>1, <2>1, SumOfFacts, SMTT(30)
  <2> QED
    BY <2>3, <2>4
<1>3. ASSUME NEW m \in S PROVE UnderWay(Append(s, m)) = UnderWay(s) + Batches(m)
  <2>1. Append(s, m) \in Seq(S) /\ Len(Append(s, m)) = Len(s) + 1
    OBVIOUS
  <2>2. SumOf(Append(s, m), f)[Len(s) + 1] = SumOf(s, f)[Len(s)] + f[m]
    BY <1>1, SumOfFacts
  <2>3. UnderWay(Append(s, m)) = SumOf(Append(s, m), f)[Len(s) + 1] /\ UnderWay(s) = SumOf(s, f)[Len(s)]
    BY <1>2, <2>1
  <2> QED
    BY <1>1, <2>2, <2>3
<1>4. ASSUME s # <<>> PROVE UnderWay(s) = Batches(Head(s)) + UnderWay(Tail(s)) /\ UnderWay(Tail(s)) \in Nat
  <2>1. /\ Tail(s) \in Seq(S) /\ Len(s) = Len(Tail(s)) + 1 /\ Len(Tail(s)) \in 0..Len(Tail(s))
        /\ Head(s) \in S
    BY <1>4
  <2>2. SumOf(s, f)[Len(Tail(s)) + 1] = f[Head(s)] + SumOf(Tail(s), f)[Len(Tail(s))]
    <3>1. \A n \in 0..Len(Tail(s)) : SumOf(s, f)[n + 1] = f[Head(s)] + SumOf(Tail(s), f)[n]
      BY <1>1, <1>4, SumOfFacts
    <3> QED
      BY <2>1, <3>1
  <2>3. UnderWay(s) = SumOf(s, f)[Len(s)] /\ UnderWay(Tail(s)) = SumOf(Tail(s), f)[Len(Tail(s))]
        /\ UnderWay(Tail(s)) \in Nat
    BY <1>2, <2>1
  <2> QED
    BY <1>1, <2>1, <2>2, <2>3
<1> QED
  BY <1>2, <1>3, <1>4

LEMMA LearntFacts ==
  ASSUME NEW s \in Seq(Answers)
  PROVE  /\ LearntUpTo(s) \in [0..Len(s) -> Nat] /\ LearntUpTo(s)[0] = 0
         /\ \A m \in Answers :
              /\ Learnt(m) \in Nat
              /\ \A n \in 0..Len(s) : LearntUpTo(Append(s, m))[n] = LearntUpTo(s)[n]
              /\ LearntUpTo(Append(s, m))[Len(s) + 1] = LearntUpTo(s)[Len(s)] + Learnt(m)
         /\ s # <<>> =>
              \A n \in 0..Len(Tail(s)) : LearntUpTo(s)[n + 1] = Learnt(Head(s)) + LearntUpTo(Tail(s))[n]
<1> DEFINE f == [m \in Answers |-> Learnt(m)]
<1>1. \A m \in Answers : Learnt(m) \in Nat
  BY NeuralAssumption DEF Answers, Learnt
<1>2. f \in [Answers -> Nat] /\ \A m \in Answers : f[m] = Learnt(m)
  BY <1>1
<1> HIDE DEF f
<1>3. ASSUME NEW r \in Seq(Answers) PROVE LearntUpTo(r) = SumOf(r, f)
  <2>1. \A i \in 1..Len(r) : r[i] \in Answers /\ f[r[i]] = Learnt(r[i])
    BY <1>2
  <2>2. [i \in 1..Len(r) |-> Learnt(r[i])] = [i \in 1..Len(r) |-> f[r[i]]]
    BY <2>1
  <2> QED
    BY <2>2 DEF LearntUpTo, SumOf, Mapped
<1>4. \A m \in Answers : Append(s, m) \in Seq(Answers)
  OBVIOUS
<1>5. s # <<>> => Tail(s) \in Seq(Answers) /\ Head(s) \in Answers
  OBVIOUS
<1>6. LearntUpTo(s) = SumOf(s, f)
  BY <1>3
<1>7. LearntUpTo(s) \in [0..Len(s) -> Nat] /\ LearntUpTo(s)[0] = 0
  BY <1>2, <1>6, SumOfFacts
<1>8. ASSUME NEW m \in Answers
      PROVE  /\ \A n \in 0..Len(s) : LearntUpTo(Append(s, m))[n] = LearntUpTo(s)[n]
             /\ LearntUpTo(Append(s, m))[Len(s) + 1] = LearntUpTo(s)[Len(s)] + Learnt(m)
  <2>1. /\ \A n \in 0..Len(s) : SumOf(Append(s, m), f)[n] = SumOf(s, f)[n]
        /\ SumOf(Append(s, m), f)[Len(s) + 1] = SumOf(s, f)[Len(s)] + f[m]
    BY <1>2, SumOfFacts
  <2>2. LearntUpTo(Append(s, m)) = SumOf(Append(s, m), f) /\ f[m] = Learnt(m)
    BY <1>2, <1>3, <1>4
  <2> QED
    BY <1>6, <2>1, <2>2
<1>9. ASSUME s # <<>>
      PROVE  \A n \in 0..Len(Tail(s)) : LearntUpTo(s)[n + 1] = Learnt(Head(s)) + LearntUpTo(Tail(s))[n]
  <2>1. \A n \in 0..Len(Tail(s)) : SumOf(s, f)[n + 1] = f[Head(s)] + SumOf(Tail(s), f)[n]
    BY <1>2, <1>9, SumOfFacts
  <2>2. LearntUpTo(Tail(s)) = SumOf(Tail(s), f) /\ f[Head(s)] = Learnt(Head(s))
    BY <1>2, <1>3, <1>5, <1>9
  <2> QED
    BY <1>6, <2>1, <2>2
<1> QED
  BY <1>1, <1>7, <1>8, <1>9

LEMMA MessageBatches ==
  /\ \A m \in Commands : Batches(m) \in Nat
  /\ \A m \in Answers : Batches(m) \in Nat
BY NeuralAssumption DEF Commands, Answers, Batches

LEMMA Channels ==
  ASSUME TypeOK
  PROVE  /\ UnderWay(cmds) \in Nat /\ UnderWay(results) \in Nat /\ InHand \in Nat
         /\ \A m \in Commands : UnderWay(Append(cmds, m)) = UnderWay(cmds) + Batches(m)
         /\ \A m \in Answers : UnderWay(Append(results, m)) = UnderWay(results) + Batches(m)
         /\ cmds # <<>> =>
              /\ Head(cmds) \in Commands /\ Batches(Head(cmds)) \in Nat
              /\ UnderWay(Tail(cmds)) \in Nat
              /\ UnderWay(cmds) = Batches(Head(cmds)) + UnderWay(Tail(cmds))
         /\ results # <<>> =>
              /\ Head(results) \in Answers /\ Batches(Head(results)) \in Nat
              /\ UnderWay(Tail(results)) \in Nat
              /\ UnderWay(results) = Batches(Head(results)) + UnderWay(Tail(results))
<1>1. cmds \in Seq(Commands) /\ results \in Seq(Answers)
  BY DEF TypeOK
<1>2. InHand \in Nat
  BY NeuralAssumption DEF TypeOK, InHand
<1>3. UnderWay(cmds) \in Nat /\ \A m \in Commands : UnderWay(Append(cmds, m)) = UnderWay(cmds) + Batches(m)
  BY <1>1, MessageBatches, UnderWayFacts
<1>4. UnderWay(results) \in Nat /\ \A m \in Answers : UnderWay(Append(results, m)) = UnderWay(results) + Batches(m)
  BY <1>1, MessageBatches, UnderWayFacts
<1>5. ASSUME cmds # <<>>
      PROVE  /\ Head(cmds) \in Commands /\ Batches(Head(cmds)) \in Nat
             /\ UnderWay(Tail(cmds)) \in Nat
             /\ UnderWay(cmds) = Batches(Head(cmds)) + UnderWay(Tail(cmds))
  <2>1. Head(cmds) \in Commands
    BY <1>1, <1>5
  <2> QED
    BY <1>1, <1>5, <2>1, MessageBatches, UnderWayFacts
<1>6. ASSUME results # <<>>
      PROVE  /\ Head(results) \in Answers /\ Batches(Head(results)) \in Nat
             /\ UnderWay(Tail(results)) \in Nat
             /\ UnderWay(results) = Batches(Head(results)) + UnderWay(Tail(results))
  <2>1. Head(results) \in Answers
    BY <1>1, <1>6
  <2> QED
    BY <1>1, <1>6, <2>1, MessageBatches, UnderWayFacts
<1> QED
  BY <1>2, <1>3, <1>4, <1>5, <1>6

-----------------------------------------------------------------------------
(* The invariant holds at first, and every action keeps it. *)

LEMMA Owed ==
  PendingIsOwed <=> (worker # "exited" /\ ~cancel =>
                       pending = UnderWay(cmds) + UnderWay(results) + InHand)
BY DEF PendingIsOwed, InHand


LEMMA InitInv == Init => IInv
<1> SUFFICES ASSUME Init PROVE IInv
  OBVIOUS
<1>1. TypeOK
  <2>1. /\ cmds \in Seq(Commands) /\ results \in Seq(Answers) /\ Len(cmds) <= MaxPending
        /\ Len(results) <= MaxPending
    BY NeuralAssumption DEF Init
  <2>2. job \in [left : 0..MaxPerTick, ok : 0..MaxPerTick, bad : 0..MaxPerTick, snap : BOOLEAN]
    BY NeuralAssumption DEF Init, NoJob
  <2>3. want \in 0..MaxPerTick /\ pending \in 0..MaxPending
    BY NeuralAssumption DEF Init
  <2> QED
    BY <2>1, <2>2, <2>3 DEF Init, TypeOK
<1>2. UnderWay(cmds) = 0 /\ UnderWay(results) = 0 /\ InHand = 0
  BY NoneUnderWay DEF Init, InHand
<1>3. LearntUpTo(results)[Len(results)] = 0 /\ Len(results) = 0
  BY <1>1, LearntFacts DEF Init, TypeOK
<1>4. OwesAtLeast /\ JobFits /\ Shutdown
  BY <1>2, NeuralAssumption DEF Init, OwesAtLeast, JobFits, Shutdown, NoJob
<1>5. BooksAgree
  BY <1>2 DEF Init, BooksAgree, PendingIsOwed, BatchesAccounted
<1>6. NetTrue
  BY <1>3 DEF Init, NetTrue
<1>7. SnapshotsTrue
  BY <1>3 DEF Init, SnapshotsTrue
<1> QED
  BY <1>1, <1>4, <1>5, <1>6, <1>7 DEF IInv

\* A step of the learner's control only.
LEMMA QuietKeeps ==
  ASSUME IInv, UNCHANGED <<pending, steps, dropped, snapshot, offered, handle, cmds, results, thread>>,
         pc' \in {"idle", "drain", "submit", "untilIdle", "request", "await"},
         then' \in {"idle", "submit", "untilIdle", "request"},
         want' \in 0..MaxPerTick, cancel => pc' = "idle"
  PROVE  IInv'
<1> USE DEF IInv, handle, thread
<1>1. TypeOK'
  BY DEF TypeOK
<1>2. OwesAtLeast' /\ JobFits' /\ Shutdown'
  BY DEF OwesAtLeast, JobFits, Shutdown, InHand
<1>3. BooksAgree'
  BY DEF BooksAgree, PendingIsOwed, BatchesAccounted
<1>4. NetTrue'
  BY DEF NetTrue
<1>5. SnapshotsTrue'
  BY DEF SnapshotsTrue
<1> QED
  BY <1>1, <1>2, <1>3, <1>4, <1>5

\* A step of the worker that takes nothing from a channel and puts nothing in.
LEMMA WorkKeeps ==
  ASSUME IInv, UNCHANGED <<learner, handle, cmds, results>>,
         TypeOK', JobFits', NetTrue', InHand' <= InHand, InHand' \in Nat,
         worker' # "exited" /\ ~cancel => InHand' = InHand /\ worker # "exited"
  PROVE  IInv'
<1> USE DEF IInv, learner, handle
<1>1. UnderWay(cmds) \in Nat /\ UnderWay(results) \in Nat /\ InHand \in Nat
  BY Channels
<1>2. OwesAtLeast' /\ Shutdown'
  BY <1>1, SMTT(30) DEF OwesAtLeast, Shutdown, TypeOK
<1>3. BooksAgree'
  <2>1. BatchesAccounted'
    BY DEF BooksAgree, BatchesAccounted
  <2>2. PendingIsOwed'
    BY <1>1 DEF BooksAgree, PendingIsOwed, InHand
  <2> QED
    BY <2>1, <2>2 DEF BooksAgree
<1>4. SnapshotsTrue'
  BY DEF SnapshotsTrue
<1> QED
  BY <1>2, <1>3, <1>4

LEMMA LearnerQuiet ==
  ASSUME IInv, DrainDone \/ NothingPending \/ Deadline \/ Disconnected \/ DrainUntilIdle
               \/ \E n \in 0..MaxPerTick : SubmitSamples(n)
  PROVE  IInv'
<1> USE DEF DrainThen, Waiting, handle, thread
<1>1. /\ pc \in {"idle", "drain", "submit", "untilIdle", "request", "await"}
      /\ then \in {"idle", "submit", "untilIdle", "request"} /\ want \in 0..MaxPerTick
      /\ (cancel => pc = "idle") /\ (cancel' <=> cancel)
  BY DEF IInv, TypeOK, Shutdown, DrainDone, NothingPending, Deadline, Disconnected,
         DrainUntilIdle, SubmitSamples
<1>2. CASE DrainDone
  BY <1>1, <1>2, QuietKeeps DEF DrainDone
<1>3. CASE NothingPending
  BY <1>1, <1>3, QuietKeeps DEF NothingPending
<1>4. CASE Deadline
  BY <1>1, <1>4, QuietKeeps DEF Deadline
<1>5. CASE Disconnected
  BY <1>1, <1>5, QuietKeeps DEF Disconnected
<1>6. CASE DrainUntilIdle
  BY <1>1, <1>6, QuietKeeps DEF DrainUntilIdle
<1>7. CASE \E n \in 0..MaxPerTick : SubmitSamples(n)
  BY <1>1, <1>7, QuietKeeps DEF SubmitSamples
<1> QED
  BY <1>2, <1>3, <1>4, <1>5, <1>6, <1>7

\* Nothing is learnt in the answers up to a snapshot that is the first.
LEMMA SnapshotFirst ==
  ASSUME NEW s \in Seq(Answers), s # <<>>, Head(s).kind = "Snapshot"
  PROVE  LearntUpTo(s)[1] = 0
<1>1. Tail(s) \in Seq(Answers) /\ Head(s) \in Answers /\ 0 \in 0..Len(Tail(s)) /\ 0 + 1 = 1
  OBVIOUS
<1>2. LearntUpTo(Tail(s))[0] = 0
  BY <1>1, LearntFacts
<1>3. \A n \in 0..Len(Tail(s)) : LearntUpTo(s)[n + 1] = Learnt(Head(s)) + LearntUpTo(Tail(s))[n]
  BY LearntFacts
<1>4. LearntUpTo(s)[0 + 1] = Learnt(Head(s)) + LearntUpTo(Tail(s))[0] /\ Learnt(Head(s)) = 0
  BY <1>1, <1>3 DEF Learnt
<1> QED
  BY <1>1, <1>2, <1>4

\* What taking the first answer does to the counters.
LEMMA ReceiveCounts ==
  ASSUME IInv, Receive
  PROVE  /\ results # <<>> /\ Head(results) \in Answers
         /\ pending' = pending - Batches(Head(results)) /\ pending' \in 0..MaxPending
         /\ steps' = steps + Learnt(Head(results)) /\ steps' \in Nat
         /\ dropped' = dropped + (Batches(Head(results)) - Learnt(Head(results))) /\ dropped' \in Nat
         /\ snapshot' <= steps' /\ snapshot' \in Nat
<1> DEFINE h == Head(results)
<1>1. results # <<>> /\ results \in Seq(Answers) /\ h \in Answers
  BY DEF Receive, IInv, TypeOK
<1>2. Batches(h) \in Nat /\ Batches(h) <= pending
  BY <1>1, Channels DEF IInv, OwesAtLeast, TypeOK
<1>3. Learnt(h) \in Nat
  BY <1>1, LearntFacts
<1>4. pending \in 0..MaxPending /\ steps \in Nat /\ dropped \in Nat /\ snapshot \in Nat /\ snapshot <= steps
  BY DEF IInv, TypeOK, SnapshotsTrue
<1>5. CASE h.kind = "Snapshot"
  <2>1. Batches(h) = 0 /\ Learnt(h) = 0
    BY <1>5 DEF Batches, Learnt
  <2>2. snapshot' = h.version /\ UNCHANGED <<pending, steps, dropped>>
    BY <1>5 DEF Receive, Record
  <2>3. h.version = steps + LearntUpTo(results)[1]
    <3>1. 1 \in 1..Len(results) /\ results[1] = h
      BY <1>1
    <3> QED
      BY <1>5, <3>1 DEF IInv, SnapshotsTrue
  <2>4. LearntUpTo(results)[1] = 0
    BY <1>1, <1>5, SnapshotFirst
  <2> HIDE DEF h
  <2> QED
    BY <1>1, <1>2, <1>4, <2>1, <2>2, <2>3, <2>4, NeuralAssumption DEF h
<1>6. CASE h.kind # "Snapshot"
  <2>1. h.kind = "Trained" /\ h.ok \in Nat /\ h.bad \in Nat
    BY <1>1, <1>6, NeuralAssumption DEF Answers
  <2>2. Batches(h) = h.ok + h.bad /\ Learnt(h) = h.ok
    BY <2>1 DEF Batches, Learnt
  <2>3. /\ pending' = pending - (h.ok + h.bad) /\ steps' = steps + h.ok
        /\ dropped' = dropped + h.bad /\ snapshot' = snapshot
    BY <1>6 DEF Receive, Record
  <2> HIDE DEF h
  <2>4. pending - Batches(h) \in 0..MaxPending
    BY <1>2, <1>4, NeuralAssumption
  <2>5. steps + h.ok \in Nat /\ dropped + h.bad \in Nat /\ snapshot <= steps + h.ok
    BY <1>4, <2>1
  <2>6. (h.ok + h.bad) - h.ok = h.bad
    BY <2>1
  <2> QED
    BY <1>1, <1>4, <2>2, <2>3, <2>4, <2>5, <2>6 DEF h
<1> QED
  BY <1>5, <1>6

LEMMA ReceiveKeeps ==
  ASSUME IInv, Receive, ~cancel,
         pc' \in {"idle", "drain", "submit", "untilIdle", "request", "await"},
         then' \in {"idle", "submit", "untilIdle", "request"}
  PROVE  IInv'
<1> DEFINE h == Head(results)
           rest == Tail(results)
           L == LearntUpTo(results)
           M == LearntUpTo(rest)
<1> USE DEF handle, thread
<1>1. /\ results # <<>> /\ h \in Answers
      /\ pending' = pending - Batches(h) /\ pending' \in 0..MaxPending
      /\ steps' = steps + Learnt(h) /\ steps' \in Nat
      /\ dropped' = dropped + (Batches(h) - Learnt(h)) /\ dropped' \in Nat
      /\ snapshot' <= steps' /\ snapshot' \in Nat
  BY ReceiveCounts
<1>2. results' = rest /\ UNCHANGED <<want, offered, receiving, cancel, sending, cmds, worker, job, net>>
  BY DEF Receive
<1>3. /\ results \in Seq(Answers) /\ rest \in Seq(Answers) /\ Len(results) = Len(rest) + 1
      /\ Len(rest) \in Nat
      /\ \A i \in 1..Len(rest) : rest[i] = results[i + 1] /\ i + 1 \in 1..Len(results)
  BY <1>1 DEF IInv, TypeOK
<1>4. \A n \in 0..Len(rest) : L[n + 1] = Learnt(h) + M[n] /\ M[n] \in Nat
  BY <1>1, <1>3, LearntFacts
<1>5. Batches(h) \in Nat /\ Learnt(h) \in Nat
  BY <1>1, <1>3, Channels, LearntFacts DEF IInv
<1>6. /\ UnderWay(cmds) \in Nat /\ UnderWay(rest) \in Nat /\ InHand \in Nat
      /\ UnderWay(results) = Batches(h) + UnderWay(rest)
  BY <1>1, Channels DEF IInv
<1> HIDE DEF h, rest, L, M
<1>7. TypeOK'
  <2>1. results' \in Seq(Answers) /\ Len(results') <= MaxPending
    BY <1>2, <1>3, NeuralAssumption DEF IInv, TypeOK
  <2> QED
    BY <1>1, <1>2, <2>1 DEF IInv, TypeOK
<1>8. JobFits' /\ Shutdown'
  BY <1>2 DEF IInv, JobFits, Shutdown
<1>9. /\ UnderWay(results)' = UnderWay(rest) /\ UnderWay(cmds)' = UnderWay(cmds) /\ InHand' = InHand
  BY <1>2 DEF InHand
<1>10. pending \in Nat /\ steps \in Nat /\ dropped \in Nat
  BY DEF IInv, TypeOK
<1>11. OwesAtLeast'
  <2>1. pending >= UnderWay(cmds) + UnderWay(results) + InHand
    BY DEF IInv, OwesAtLeast
  <2>2. pending - Batches(h) >= UnderWay(cmds) + UnderWay(rest) + InHand
    BY <1>5, <1>6, <1>10, <2>1
  <2> QED
    BY <1>1, <1>9, <2>2 DEF OwesAtLeast
<1>12. BooksAgree'
  <2>1. BatchesAccounted'
    <3>1. offered = steps + dropped + pending
      BY DEF IInv, BooksAgree, BatchesAccounted
    <3>2. steps + dropped + pending =
            (steps + Learnt(h)) + (dropped + (Batches(h) - Learnt(h))) + (pending - Batches(h))
      BY <1>5, <1>10
    <3> QED
      BY <1>1, <1>2, <3>1, <3>2 DEF BatchesAccounted
  <2>2. PendingIsOwed'
    <3>1. PendingIsOwed' <=> (worker # "exited" /\ ~cancel =>
                                pending = UnderWay(cmds) + UnderWay(results) + InHand)'
      BY Owed, PTL
    <3>2. worker # "exited" => pending = UnderWay(cmds) + UnderWay(results) + InHand
      BY Owed DEF IInv, BooksAgree
    <3>3. worker # "exited" => pending - Batches(h) = UnderWay(cmds) + UnderWay(rest) + InHand
      BY <1>5, <1>6, <1>10, <3>2
    <3> QED
      BY <1>1, <1>2, <1>9, <3>1, <3>3
  <2> QED
    BY <2>1, <2>2 DEF BooksAgree
<1>13. NetTrue'
  <2>1. L[Len(results)] = Learnt(h) + M[Len(rest)] /\ M[Len(rest)] \in Nat
    BY <1>3, <1>4
  <2>2. LearntUpTo(results')[Len(results')] = M[Len(rest)]
    BY <1>2 DEF M
  <2>3. net \in Nat /\ job.ok \in Nat
    BY NeuralAssumption DEF IInv, TypeOK
  <2>4. receiving /\ worker # "exited" /\ (cancel => worker = "sendSnapshot") =>
           net = steps + L[Len(results)] + (IF worker \in {"train", "sendTrained"} THEN job.ok ELSE 0)
    BY DEF IInv, NetTrue, L
  <2> QED
    BY <1>1, <1>2, <1>5, <1>10, <2>1, <2>2, <2>3, <2>4, SMTT(30) DEF NetTrue
<1>14. SnapshotsTrue'
  <2>1. ASSUME NEW i \in 1..Len(rest), rest[i].kind = "Snapshot"
        PROVE  rest[i].version = steps' + M[i]
    <3>1. results[i + 1].version = steps + L[i + 1]
      <4>1. i + 1 \in 1..Len(results) /\ results[i + 1].kind = "Snapshot"
        BY <1>3, <2>1
      <4> QED
        BY <4>1 DEF IInv, SnapshotsTrue, L
    <3>2. i \in 0..Len(rest)
      BY <1>3
    <3>3. L[i + 1] = Learnt(h) + M[i] /\ M[i] \in Nat /\ rest[i] = results[i + 1]
      BY <1>3, <1>4, <3>2
    <3>4. steps + (Learnt(h) + M[i]) = (steps + Learnt(h)) + M[i]
      BY <1>5, <1>10, <3>3
    <3> QED
      BY <1>1, <3>1, <3>3, <3>4
  <2> QED
    BY <1>1, <1>2, <2>1 DEF SnapshotsTrue, M
<1> QED
  BY <1>7, <1>8, <1>11, <1>12, <1>13, <1>14 DEF IInv

LEMMA LearnerReceives ==
  ASSUME IInv, DrainOne \/ AwaitPending \/ AwaitSnapshot PROVE IInv'
<1>1. Receive /\ ~cancel
  BY DEF DrainOne, AwaitPending, AwaitSnapshot, IInv, Shutdown
<1>2. /\ pc' \in {"idle", "drain", "submit", "untilIdle", "request", "await"}
      /\ then' \in {"idle", "submit", "untilIdle", "request"}
  BY DEF DrainOne, AwaitPending, AwaitSnapshot, DrainThen, IInv, TypeOK
<1> QED
  BY <1>1, <1>2, ReceiveKeeps

\* A step that leaves the answers, the net, and what is owed for it alone.
LEMMA SendsCommand ==
  ASSUME IInv, NEW m \in Commands, ~cancel, cmds' = Append(cmds, m), Len(cmds) < MaxPending,
         pending' = pending + Batches(m), pending' <= MaxPending, offered' = offered + Batches(m),
         UNCHANGED <<want, steps, dropped, snapshot, handle, results, thread>>,
         pc' \in {"idle", "drain", "submit", "untilIdle", "request", "await"},
         then' \in {"idle", "submit", "untilIdle", "request"}
  PROVE  IInv'
<1> USE DEF handle, thread
<1>1. Batches(m) \in Nat /\ pending \in Nat /\ offered \in Nat /\ steps \in Nat /\ dropped \in Nat
  BY MessageBatches DEF IInv, TypeOK
<1>2. /\ UnderWay(cmds) \in Nat /\ UnderWay(results) \in Nat /\ InHand \in Nat
      /\ UnderWay(Append(cmds, m)) = UnderWay(cmds) + Batches(m)
  BY Channels DEF IInv
<1>3. /\ UnderWay(cmds)' = UnderWay(cmds) + Batches(m)
      /\ UnderWay(results)' = UnderWay(results) /\ InHand' = InHand
  BY <1>2 DEF InHand
<1>4. TypeOK'
  <2>1. cmds \in Seq(Commands) /\ Len(cmds) <= MaxPending
    BY DEF IInv, TypeOK
  <2>2. cmds' \in Seq(Commands) /\ Len(cmds') <= MaxPending
    BY <2>1, NeuralAssumption
  <2>3. pending' \in 0..MaxPending /\ offered' \in Nat
    BY <1>1, NeuralAssumption
  <2> QED
    BY <2>2, <2>3 DEF IInv, TypeOK
<1>5. JobFits' /\ Shutdown'
  BY DEF IInv, JobFits, Shutdown
<1>6. OwesAtLeast'
  <2>1. pending >= UnderWay(cmds) + UnderWay(results) + InHand
    BY DEF IInv, OwesAtLeast
  <2>2. pending + Batches(m) >= (UnderWay(cmds) + Batches(m)) + UnderWay(results) + InHand
    BY <1>1, <1>2, <2>1
  <2> QED
    BY <1>3, <2>2 DEF OwesAtLeast
<1>7. BooksAgree'
  <2>1. BatchesAccounted'
    <3>1. offered = steps + dropped + pending
      BY DEF IInv, BooksAgree, BatchesAccounted
    <3>2. offered + Batches(m) = steps + dropped + (pending + Batches(m))
      BY <1>1, <3>1
    <3> QED
      BY <3>2 DEF BatchesAccounted
  <2>2. PendingIsOwed'
    <3>1. PendingIsOwed' <=> (worker # "exited" /\ ~cancel =>
                                pending = UnderWay(cmds) + UnderWay(results) + InHand)'
      BY Owed, PTL
    <3>2. worker # "exited" => pending = UnderWay(cmds) + UnderWay(results) + InHand
      BY Owed DEF IInv, BooksAgree
    <3>3. worker # "exited" =>
            pending + Batches(m) = (UnderWay(cmds) + Batches(m)) + UnderWay(results) + InHand
      BY <1>1, <1>2, <3>2
    <3> QED
      BY <1>3, <3>1, <3>3
  <2> QED
    BY <2>1, <2>2 DEF BooksAgree
<1>8. NetTrue'
  BY DEF IInv, NetTrue
<1>9. SnapshotsTrue'
  BY DEF IInv, SnapshotsTrue
<1> QED
  BY <1>4, <1>5, <1>6, <1>7, <1>8, <1>9 DEF IInv

LEMMA LearnerSends ==
  ASSUME IInv, Submit \/ RequestSnapshot PROVE IInv'
<1> USE DEF DrainThen
<1>1. /\ ~cancel /\ want \in 0..MaxPerTick /\ want \in Nat /\ pending \in Nat /\ dropped \in Nat
      /\ steps \in Nat /\ offered \in Nat /\ MaxPending \in Nat
      /\ then \in {"idle", "submit", "untilIdle", "request"}
  BY NeuralAssumption DEF IInv, TypeOK, Shutdown, Submit, RequestSnapshot
<1>2. CASE RequestSnapshot
  <2>1. CASE Accepts
    <3>1. AskSnapshot \in Commands /\ Batches(AskSnapshot) = 0
      BY DEF AskSnapshot, Commands, Batches
    <3>2. /\ cmds' = Append(cmds, AskSnapshot) /\ pc' = "await" /\ Len(cmds) < MaxPending
          /\ UNCHANGED <<then, want, pending, steps, dropped, snapshot, offered, handle, results, thread>>
      BY <1>2, <2>1 DEF RequestSnapshot, Accepts
    <3>3. pending' = pending + 0 /\ offered' = offered + 0 /\ pending' <= MaxPending
      BY <1>1, <3>2 DEF IInv, TypeOK
    <3> QED
      BY <1>1, <3>1, <3>2, <3>3, SendsCommand
  <2>2. CASE ~Accepts
    BY <1>1, <1>2, <2>2, QuietKeeps DEF RequestSnapshot
  <2> QED
    BY <2>1, <2>2
<1>3. CASE Submit
  <2>1. offered' = offered + want /\ UNCHANGED <<want, steps, snapshot, handle, results, thread>>
    BY <1>3 DEF Submit
  <2>2. CASE pending + want <= MaxPending /\ Accepts
    <3> DEFINE m == Train(want, SnapshotDue(want))
    <3>1. SnapshotDue(want) \in BOOLEAN
      BY Zenon DEF SnapshotDue
    <3>2. m \in Commands /\ Batches(m) = want
      BY <1>1, <3>1 DEF Train, Commands, Batches
    <3>3. cmds' = Append(cmds, m) /\ pending' = pending + want /\ UNCHANGED dropped /\ DrainThen("idle")
      BY <1>1, <1>3, <2>2 DEF Submit
    <3>4. Len(cmds) < MaxPending
      BY <2>2 DEF Accepts
    <3> HIDE DEF m
    <3> QED
      BY <1>1, <2>1, <2>2, <3>2, <3>3, <3>4, SendsCommand
  <2>3. CASE ~(pending + want <= MaxPending /\ Accepts)
    <3> USE DEF handle, thread
    <3>1. /\ dropped' = dropped + want /\ UNCHANGED <<pending, cmds>>
          /\ pc' \in {"idle", "drain"} /\ then' \in {"idle", "submit", "untilIdle", "request"}
      BY <1>1, <1>3, <2>3 DEF Submit
    <3>2. TypeOK'
      BY <1>1, <2>1, <3>1 DEF IInv, TypeOK
    <3>3. OwesAtLeast' /\ JobFits' /\ Shutdown'
      BY <1>1, <2>1, <3>1 DEF IInv, OwesAtLeast, JobFits, Shutdown, InHand
    <3>4. BooksAgree'
      BY <1>1, <2>1, <3>1 DEF IInv, BooksAgree, PendingIsOwed, BatchesAccounted
    <3>5. NetTrue' /\ SnapshotsTrue'
      BY <2>1 DEF IInv, NetTrue, SnapshotsTrue
    <3> QED
      BY <3>2, <3>3, <3>4, <3>5 DEF IInv
  <2> QED
    BY <2>2, <2>3
<1> QED
  BY <1>2, <1>3

LEMMA LearnerGoes ==
  ASSUME IInv, SignalShutdown \/ DropReceiver PROVE IInv'
<1> USE DEF learner, thread
<1>1. CASE SignalShutdown
  <2> USE <1>1 DEF SignalShutdown
  <2>1. TypeOK'
    BY DEF IInv, TypeOK
  <2>2. OwesAtLeast' /\ JobFits' /\ Shutdown'
    BY DEF IInv, OwesAtLeast, JobFits, Shutdown, InHand
  <2>3. BooksAgree'
    BY DEF IInv, BooksAgree, PendingIsOwed, BatchesAccounted
  <2>4. NetTrue' /\ SnapshotsTrue'
    BY DEF IInv, NetTrue, SnapshotsTrue
  <2> QED
    BY <2>1, <2>2, <2>3, <2>4 DEF IInv
<1>2. CASE DropReceiver
  <2> USE <1>2 DEF DropReceiver
  <2>1. TypeOK'
    <3>1. results' \in Seq(Answers) /\ Len(results') <= MaxPending
      BY NeuralAssumption
    <3> QED
      BY <3>1 DEF IInv, TypeOK
  <2>2. UnderWay(cmds) \in Nat /\ UnderWay(results) \in Nat /\ InHand \in Nat /\ pending \in Nat
    BY Channels DEF IInv, TypeOK
  <2>3. UnderWay(cmds)' = UnderWay(cmds) /\ UnderWay(results)' = 0 /\ InHand' = InHand
    BY NoneUnderWay DEF InHand
  <2>4. OwesAtLeast'
    BY <2>2, <2>3 DEF IInv, OwesAtLeast
  <2>5. JobFits' /\ Shutdown'
    BY DEF IInv, JobFits, Shutdown
  <2>6. BooksAgree'
    BY DEF IInv, BooksAgree, PendingIsOwed, BatchesAccounted
  <2>7. NetTrue' /\ SnapshotsTrue'
    BY DEF IInv, NetTrue, SnapshotsTrue
  <2> QED
    BY <2>1, <2>4, <2>5, <2>6, <2>7 DEF IInv
<1> QED
  BY <1>1, <1>2

\* The worker alone.
LEMMA WorkerWorks ==
  ASSUME IInv, CommandsClosed \/ TrainBatch \/ Panic \/ TrainedAll \/ SnapshotCheck PROVE IInv'
<1> USE DEF InHand
<1>1. /\ job \in [left : 0..MaxPerTick, ok : 0..MaxPerTick, bad : 0..MaxPerTick, snap : BOOLEAN]
      /\ job.left + job.ok + job.bad <= MaxPerTick /\ MaxPerTick \in Nat /\ net \in Nat
      /\ job.left \in Nat /\ job.ok \in Nat /\ job.bad \in Nat /\ steps \in Nat
  BY NeuralAssumption DEF IInv, TypeOK, JobFits
<1>2. CASE CommandsClosed \/ Panic
  <2>1. worker' = "exited" /\ UNCHANGED <<learner, handle, cmds, results, job, net>>
    BY <1>2 DEF CommandsClosed, Panic
  <2>2. TypeOK' /\ JobFits' /\ NetTrue'
    BY <2>1 DEF IInv, TypeOK, JobFits, NetTrue, learner, handle
  <2>3. InHand' = 0 /\ InHand \in Nat
    BY <1>1, <2>1
  <2> QED
    BY <2>1, <2>2, <2>3, WorkKeeps
<1>3. CASE TrainedAll
  <2>1. worker' = IF cancel THEN "snapshotCheck" ELSE "sendTrained"
    BY <1>3 DEF TrainedAll
  <2>2. worker = "train" /\ (job.left = 0 \/ cancel) /\ UNCHANGED <<learner, handle, cmds, results, job,
                                                                    net>>
    BY <1>3 DEF TrainedAll
  <2>3. TypeOK' /\ JobFits' /\ NetTrue'
    BY <2>1, <2>2 DEF IInv, TypeOK, JobFits, NetTrue, learner, handle
  <2> QED
    BY <1>1, <2>1, <2>2, <2>3, WorkKeeps
<1>4. CASE SnapshotCheck
  <2>1. /\ worker' = IF job.snap /\ ~cancel THEN "sendSnapshot" ELSE "recv"
        /\ worker = "snapshotCheck" /\ job' = NoJob /\ UNCHANGED <<learner, handle, cmds, results, net>>
    BY <1>4 DEF SnapshotCheck
  <2>2. TypeOK' /\ JobFits' /\ NetTrue'
    BY <1>1, <2>1 DEF IInv, TypeOK, JobFits, NetTrue, learner, handle, NoJob
  <2> QED
    BY <1>1, <2>1, <2>2, WorkKeeps
<1>5. CASE TrainBatch
  <2>1. worker = "train" /\ job.left > 0 /\ ~cancel /\ UNCHANGED <<learner, handle, cmds, results, worker>>
    BY <1>5 DEF TrainBatch
  <2> DEFINE Trains(ok) ==
               /\ net' = net + ok /\ job'.left = job.left - 1
               /\ job'.ok = job.ok + ok /\ job'.bad = job.bad + (1 - ok)
               /\ job' \in [left : 0..MaxPerTick, ok : 0..MaxPerTick, bad : 0..MaxPerTick, snap : BOOLEAN]
  <2>2. \E ok \in {0, 1} : Trains(ok)
    <3>1. job.left - 1 \in 0..MaxPerTick /\ job.ok + 1 \in 0..MaxPerTick /\ job.bad + 1 \in 0..MaxPerTick
      BY <1>1, <2>1
    <3>2. CASE job' = [job EXCEPT !.left = @ - 1, !.ok = @ + 1] /\ net' = net + 1
      <4>1. job'.left = job.left - 1 /\ job'.ok = job.ok + 1 /\ job'.bad = job.bad
        BY <1>1, <3>2
      <4>2. job' \in [left : 0..MaxPerTick, ok : 0..MaxPerTick, bad : 0..MaxPerTick, snap : BOOLEAN]
        BY <1>1, <3>1, <3>2
      <4>3. Trains(1)
        BY <1>1, <3>2, <4>1, <4>2
      <4> QED
        BY <4>3
    <3>3. CASE job' = [job EXCEPT !.left = @ - 1, !.bad = @ + 1] /\ UNCHANGED net
      <4>1. job'.left = job.left - 1 /\ job'.ok = job.ok /\ job'.bad = job.bad + 1
        BY <1>1, <3>3
      <4>2. job' \in [left : 0..MaxPerTick, ok : 0..MaxPerTick, bad : 0..MaxPerTick, snap : BOOLEAN]
        BY <1>1, <3>1, <3>3
      <4>3. Trains(0)
        BY <1>1, <3>3, <4>1, <4>2
      <4> QED
        BY <4>3
    <3> QED
      BY <1>5, <3>2, <3>3 DEF TrainBatch
  <2>3. PICK ok \in {0, 1} : Trains(ok)
    BY <2>2
  <2>4. TypeOK' /\ JobFits'
    <3>1. net' \in Nat /\ job'.left + job'.ok + job'.bad = job.left + job.ok + job.bad
      BY <1>1, <2>1, <2>3
    <3>2. TypeOK'
      BY <2>1, <2>3, <3>1 DEF IInv, TypeOK, learner, handle
    <3> QED
      BY <1>1, <2>1, <3>1, <3>2 DEF JobFits
  <2>5. NetTrue'
    <3>1. results \in Seq(Answers)
      BY DEF IInv, TypeOK
    <3>2. LearntUpTo(results)[Len(results)] \in Nat
      BY <3>1, LearntFacts
    <3> QED
      <4>1. receiving => net = steps + LearntUpTo(results)[Len(results)] + job.ok
        BY <2>1 DEF IInv, NetTrue
      <4>2. receiving => net + ok = steps + LearntUpTo(results)[Len(results)] + (job.ok + ok)
        BY <1>1, <3>2, <4>1, SMTT(30)
      <4> QED
        BY <2>1, <2>3, <4>2 DEF NetTrue, learner, handle
  <2> QED
    BY <1>1, <2>1, <2>3, <2>4, <2>5, WorkKeeps
<1> QED
  BY <1>2, <1>3, <1>4, <1>5

\* The worker takes the first command.
LEMMA WorkerTakes == ASSUME IInv, TakeCommand PROVE IInv'
<1> DEFINE h == Head(cmds)
           rest == Tail(cmds)
<1> USE DEF learner, handle
<1>1. /\ worker = "recv" /\ cmds # <<>> /\ cmds' = rest
      /\ UNCHANGED <<learner, handle, results, net>>
  BY DEF TakeCommand
<1>2. /\ h \in Commands /\ Batches(h) \in Nat /\ UnderWay(rest) \in Nat /\ UnderWay(results) \in Nat
      /\ UnderWay(cmds) = Batches(h) + UnderWay(rest)
  BY <1>1, Channels DEF IInv
<1>3. cmds' \in Seq(Commands) /\ Len(cmds') <= MaxPending
  BY <1>1, NeuralAssumption DEF IInv, TypeOK
<1>4. /\ worker' \in {"exited", "sendSnapshot", "train"} /\ (cancel => worker' = "exited")
      /\ ~cancel /\ h.kind = "Snapshot" => worker' = "sendSnapshot"
      /\ ~cancel /\ h.kind # "Snapshot" => worker' = "train"
      /\ worker' # "train" => UNCHANGED job
      /\ worker' = "train" =>
           h.kind # "Snapshot" /\ job' = [left |-> h.n, ok |-> 0, bad |-> 0, snap |-> h.snap]
  BY DEF TakeCommand
<1>5. /\ h.kind = "Snapshot" => Batches(h) = 0
      /\ h.kind # "Snapshot" => h.n \in 0..MaxPerTick /\ h.snap \in BOOLEAN /\ Batches(h) = h.n
  BY <1>2 DEF Commands, Batches
<1>6. UnderWay(cmds)' = UnderWay(rest) /\ UnderWay(results)' = UnderWay(results)
  BY <1>1
<1> HIDE DEF h, rest
<1>7. /\ job' \in [left : 0..MaxPerTick, ok : 0..MaxPerTick, bad : 0..MaxPerTick, snap : BOOLEAN]
      /\ JobFits'
  <2>1. CASE worker' = "train"
    <3>1. /\ job' = [left |-> h.n, ok |-> 0, bad |-> 0, snap |-> h.snap] /\ h.n \in 0..MaxPerTick
          /\ h.snap \in BOOLEAN
      BY <1>4, <1>5, <2>1
    <3>2. job' \in [left : 0..MaxPerTick, ok : 0..MaxPerTick, bad : 0..MaxPerTick, snap : BOOLEAN]
      BY <3>1, NeuralAssumption
    <3>3. job'.left + job'.ok + job'.bad <= MaxPerTick
      BY <3>1, NeuralAssumption
    <3> QED
      BY <2>1, <3>2, <3>3 DEF JobFits
  <2>2. CASE worker' # "train"
    BY <1>4, <2>2 DEF IInv, TypeOK, JobFits
  <2> QED
    BY <2>1, <2>2
<1>8. TypeOK' /\ Shutdown'
  BY <1>1, <1>3, <1>4, <1>7 DEF IInv, TypeOK, Shutdown
<1>9. InHand = 0 /\ InHand' \in Nat /\ InHand' <= Batches(h) /\ (worker' # "exited" => InHand' = Batches(h))
  <2>1. InHand = 0
    BY <1>1 DEF InHand
  <2>2. CASE worker' = "train"
    BY <1>2, <1>4, <1>5, <2>1, <2>2 DEF InHand
  <2>3. CASE worker' # "train"
    BY <1>2, <1>4, <1>5, <2>1, <2>3 DEF InHand
  <2> QED
    BY <2>1, <2>2, <2>3
<1>10. pending' = pending /\ pending \in Nat
  BY <1>1 DEF IInv, TypeOK
<1>11. OwesAtLeast'
  <2>1. pending >= UnderWay(cmds) + UnderWay(results) + InHand
    BY DEF IInv, OwesAtLeast
  <2>2. pending >= UnderWay(rest) + UnderWay(results) + InHand'
    BY <1>2, <1>9, <1>10, <2>1
  <2> QED
    BY <1>6, <1>10, <2>2 DEF OwesAtLeast
<1>12. BooksAgree'
  <2>1. BatchesAccounted'
    BY <1>1 DEF IInv, BooksAgree, BatchesAccounted
  <2>2. PendingIsOwed'
    <3>1. PendingIsOwed' <=> (worker # "exited" /\ ~cancel =>
                                pending = UnderWay(cmds) + UnderWay(results) + InHand)'
      BY Owed, PTL
    <3>2. ~cancel => pending = UnderWay(cmds) + UnderWay(results) + InHand
      BY <1>1, Owed DEF IInv, BooksAgree
    <3>3. worker' # "exited" /\ ~cancel => pending = UnderWay(rest) + UnderWay(results) + InHand'
      BY <1>2, <1>9, <1>10, <3>2
    <3> QED
      BY <1>1, <1>6, <1>10, <3>1, <3>3
  <2> QED
    BY <2>1, <2>2 DEF BooksAgree
<1>13. NetTrue'
  <2>1. LearntUpTo(results)[Len(results)] \in Nat /\ steps \in Nat
    BY LearntFacts DEF IInv, TypeOK
  <2>2. receiving /\ ~cancel => net = steps + LearntUpTo(results)[Len(results)] + 0
    BY <1>1 DEF IInv, NetTrue
  <2>3. worker' = "train" => job'.ok = 0
    BY <1>4
  <2> QED
    BY <1>1, <1>4, <2>1, <2>2, <2>3 DEF NetTrue
<1>14. SnapshotsTrue'
  BY <1>1 DEF IInv, SnapshotsTrue
<1> QED
  BY <1>7, <1>8, <1>11, <1>12, <1>13, <1>14 DEF IInv

\* The worker answers: the answer is in the channel, or nobody receives.
LEMMA SendsAnswer ==
  ASSUME IInv, NEW m \in Answers, receiving, Len(results) < MaxPending,
         results' = Append(results, m), Batches(m) = InHand,
         InHand' = 0, UNCHANGED <<learner, handle, cmds, job, net>>,
         worker \in {"sendTrained", "sendSnapshot"}, worker' \in {"recv", "snapshotCheck"},
         Learnt(m) = (IF worker = "sendTrained" THEN job.ok ELSE 0),
         m.kind = "Snapshot" => m.version = net /\ worker = "sendSnapshot"
  PROVE  IInv'
<1> DEFINE L == LearntUpTo(results)
           M == LearntUpTo(results')
           n == Len(results)
<1> USE DEF learner, handle
<1>1. results \in Seq(Answers) /\ n \in Nat /\ results' \in Seq(Answers) /\ Len(results') = n + 1
      /\ results'[n + 1] = m /\ \A i \in 1..n : results'[i] = results[i]
  BY DEF IInv, TypeOK
<1>2. /\ \A i \in 0..n : M[i] = L[i] /\ L[i] \in Nat
      /\ M[n + 1] = L[n] + Learnt(m) /\ Learnt(m) \in Nat
  <2>1. /\ \A i \in 0..Len(results) : LearntUpTo(Append(results, m))[i] = LearntUpTo(results)[i]
        /\ LearntUpTo(Append(results, m))[Len(results) + 1] = LearntUpTo(results)[Len(results)] + Learnt(m)
        /\ Learnt(m) \in Nat /\ LearntUpTo(results) \in [0..Len(results) -> Nat]
    BY <1>1, LearntFacts
  <2> QED
    BY <2>1
<1>3. /\ UnderWay(cmds) \in Nat /\ UnderWay(results) \in Nat /\ InHand \in Nat
      /\ UnderWay(Append(results, m)) = UnderWay(results) + Batches(m)
  BY Channels DEF IInv
<1>4. UnderWay(cmds)' = UnderWay(cmds) /\ UnderWay(results)' = UnderWay(results) + InHand
  BY <1>3
<1>5. pending \in Nat /\ steps \in Nat /\ net \in Nat /\ snapshot <= steps
  BY DEF IInv, TypeOK, SnapshotsTrue
<1>6. TypeOK'
  <2>1. Len(results') <= MaxPending
    BY <1>1, NeuralAssumption
  <2> QED
    BY <1>1, <2>1 DEF IInv, TypeOK
<1>7. JobFits' /\ Shutdown'
  BY DEF IInv, JobFits, Shutdown
<1>8. OwesAtLeast'
  <2>1. pending >= UnderWay(cmds) + UnderWay(results) + InHand
    BY DEF IInv, OwesAtLeast
  <2>2. pending >= UnderWay(cmds) + (UnderWay(results) + InHand) + 0
    BY <1>3, <1>5, <2>1
  <2> QED
    BY <1>4, <2>2 DEF OwesAtLeast
<1>9. BooksAgree'
  <2>1. BatchesAccounted'
    BY DEF IInv, BooksAgree, BatchesAccounted
  <2>2. PendingIsOwed'
    <3>1. PendingIsOwed' <=> (worker # "exited" /\ ~cancel =>
                                pending = UnderWay(cmds) + UnderWay(results) + InHand)'
      BY Owed, PTL
    <3>2. ~cancel => pending = UnderWay(cmds) + UnderWay(results) + InHand
      BY Owed DEF IInv, BooksAgree
    <3>3. ~cancel => pending = UnderWay(cmds) + (UnderWay(results) + InHand) + 0
      BY <1>3, <1>5, <3>2
    <3> QED
      BY <1>4, <3>1, <3>3
  <2> QED
    BY <2>1, <2>2 DEF BooksAgree
<1> HIDE DEF L, M, n
<1>10. n \in 0..n
  BY <1>1
<1>11. ~cancel \/ worker = "sendSnapshot" => net = steps + (L[n] + Learnt(m))
  <2>1. ~cancel \/ worker = "sendSnapshot" =>
           net = steps + L[n] + (IF worker \in {"train", "sendTrained"} THEN job.ok ELSE 0)
    BY DEF IInv, NetTrue, L, n
  <2> QED
    BY <1>2, <1>5, <1>10, <2>1
<1>12. NetTrue'
  <2>1. LearntUpTo(results')[Len(results')] = M[n + 1]
    BY <1>1 DEF M
  <2>2. ~cancel => net = steps + M[n + 1] + 0
    BY <1>2, <1>5, <1>10, <1>11
  <2> QED
    BY <2>1, <2>2 DEF NetTrue
<1>13. SnapshotsTrue'
  <2>1. ASSUME NEW i \in 1..Len(results'), results'[i].kind = "Snapshot"
        PROVE  results'[i].version = steps + M[i]
    <3>1. CASE i = n + 1
      <4>1. worker = "sendSnapshot" /\ m.version = net
        BY <1>1, <2>1, <3>1
      <4> QED
        BY <1>1, <1>2, <1>5, <1>10, <1>11, <3>1, <4>1
    <3>2. CASE i # n + 1
      <4>1. i \in 1..n /\ i \in 0..n
        BY <1>1, <3>2
      <4>2. results'[i] = results[i] /\ M[i] = L[i]
        BY <1>1, <1>2, <4>1
      <4>3. results[i].version = steps + L[i]
        BY <2>1, <4>1, <4>2 DEF IInv, SnapshotsTrue, L, n
      <4> QED
        BY <4>2, <4>3
    <3> QED
      BY <3>1, <3>2
  <2> QED
    BY <1>5, <2>1 DEF SnapshotsTrue, M
<1> QED
  BY <1>6, <1>7, <1>8, <1>9, <1>12, <1>13 DEF IInv

LEMMA WorkerAnswers == ASSUME IInv, SendTrained \/ SendSnapshot PROVE IInv'
<1>1. /\ job \in [left : 0..MaxPerTick, ok : 0..MaxPerTick, bad : 0..MaxPerTick, snap : BOOLEAN]
      /\ net \in Nat /\ job.ok \in Nat /\ job.bad \in Nat /\ job.left \in Nat
  BY NeuralAssumption DEF IInv, TypeOK
<1>2. CASE ~receiving
  <2>1. /\ UNCHANGED <<learner, handle, cmds, results, job, net>>
        /\ worker' \in {"recv", "snapshotCheck"}
    BY <1>2 DEF SendTrained, SendSnapshot, Send
  <2>2. TypeOK' /\ JobFits' /\ NetTrue' /\ cancel
    BY <1>2, <2>1 DEF IInv, TypeOK, JobFits, NetTrue, Shutdown, learner, handle
  <2>3. InHand' = 0 /\ InHand \in Nat
    BY <1>1, <2>1 DEF InHand
  <2> QED
    BY <2>1, <2>2, <2>3, WorkKeeps
<1>3. CASE receiving /\ SendTrained
  <2> DEFINE m == Trained(job.ok, job.bad)
  <2>1. /\ worker = "sendTrained" /\ worker' = "snapshotCheck" /\ job.left = 0
        /\ Len(results) < MaxPending /\ results' = Append(results, m)
        /\ UNCHANGED <<learner, handle, cmds, job, net>>
    BY <1>3 DEF SendTrained, Send, IInv, JobFits
  <2>2. m \in Answers /\ Batches(m) = job.ok + job.bad /\ Learnt(m) = job.ok /\ m.kind # "Snapshot"
    BY <1>1 DEF Trained, Answers, Batches, Learnt
  <2>3. InHand = job.ok + job.bad /\ InHand' = 0
    BY <1>1, <2>1 DEF InHand
  <2> HIDE DEF m
  <2> QED
    BY <1>3, <2>1, <2>2, <2>3, SendsAnswer
<1>4. CASE receiving /\ SendSnapshot
  <2> DEFINE m == SnapshotOf(net)
  <2>1. /\ worker = "sendSnapshot" /\ worker' = "recv"
        /\ Len(results) < MaxPending /\ results' = Append(results, m)
        /\ UNCHANGED <<learner, handle, cmds, job, net>>
    BY <1>4 DEF SendSnapshot, Send
  <2>2. m \in Answers /\ Batches(m) = 0 /\ Learnt(m) = 0 /\ m.version = net
    BY <1>1 DEF SnapshotOf, Answers, Batches, Learnt
  <2>3. InHand = 0 /\ InHand' = 0
    BY <2>1 DEF InHand
  <2> HIDE DEF m
  <2> QED
    BY <1>4, <2>1, <2>2, <2>3, SendsAnswer
<1> QED
  BY <1>2, <1>3, <1>4

LEMMA StutterKeeps == ASSUME IInv, UNCHANGED vars PROVE IInv'
<1>1. /\ pc \in {"idle", "drain", "submit", "untilIdle", "request", "await"}
      /\ then \in {"idle", "submit", "untilIdle", "request"} /\ want \in 0..MaxPerTick
      /\ (cancel => pc = "idle")
  BY DEF IInv, TypeOK, Shutdown
<1>2. /\ UNCHANGED <<pending, steps, dropped, snapshot, offered, handle, cmds, results, thread>>
      /\ pc' = pc /\ then' = then /\ want' = want
  BY DEF vars, handle, thread
<1> QED
  BY <1>1, <1>2, QuietKeeps

LEMMA Invariance == Spec => []IInv
<1>1. ASSUME IInv, [Next]_vars PROVE IInv'
  <2>1. CASE LearnerStep
    BY <1>1, <2>1, LearnerQuiet, LearnerReceives, LearnerSends DEF LearnerStep
  <2>2. CASE Call
    BY <1>1, <2>2, LearnerQuiet, LearnerGoes DEF Call
  <2>3. CASE DropReceiver
    BY <1>1, <2>3, LearnerGoes
  <2>4. CASE WorkerStep
    BY <1>1, <2>4, WorkerWorks, WorkerTakes, WorkerAnswers DEF WorkerStep
  <2>5. CASE Panic
    BY <1>1, <2>5, WorkerWorks
  <2>6. CASE UNCHANGED vars
    BY <1>1, <2>6, StutterKeeps
  <2> QED
    BY <1>1, <2>1, <2>2, <2>3, <2>4, <2>5, <2>6 DEF Next
<1> QED
  BY <1>1, InitInv, PTL DEF Spec

-----------------------------------------------------------------------------

(* Every counter, channel and job stays in its range; the counters never go *)
(* below zero (saturating_sub in record_worker_result never saturates).     *)
THEOREM NeuralTypeCorrect == Spec => []TypeOK
<1>1. IInv => TypeOK
  BY DEF IInv
<1> QED
  BY <1>1, Invariance, PTL

(* The learner's books agree with the other thread, whatever the channels   *)
(* refuse: every batch that was offered is learnt, dropped or pending, and  *)
(* until a panic or the shutdown the pending ones are what the worker owes. *)
THEOREM BooksAlwaysAgree == Spec => []BooksAgree
<1>1. IInv => BooksAgree
  BY DEF IInv
<1> QED
  BY <1>1, Invariance, PTL

(* A snapshot of the network is recorded with exactly the training steps    *)
(* it has learnt, and never overtakes the report of them.                   *)
THEOREM SnapshotsMatch == Spec => []SnapshotMatchesSteps
<1>1. ASSUME IInv PROVE SnapshotMatchesSteps
  <2>1. snapshot <= steps
    BY <1>1 DEF IInv, SnapshotsTrue
  <2>2. ASSUME results # <<>>, Head(results).kind = "Snapshot"
        PROVE  Head(results).version = steps
    <3>1. results \in Seq(Answers) /\ steps \in Nat
      BY <1>1 DEF IInv, TypeOK
    <3>2. 1 \in 1..Len(results) /\ results[1] = Head(results) /\ Head(results) \in Answers
      BY <2>2, <3>1
    <3>3. Head(results).version = steps + LearntUpTo(results)[1]
      BY <1>1, <2>2, <3>2 DEF IInv, SnapshotsTrue
    <3>4. LearntUpTo(results)[1] = 0
      BY <2>2, <3>1, SnapshotFirst
    <3> QED
      BY <3>1, <3>3, <3>4
  <2> QED
    BY <2>1, <2>2 DEF SnapshotMatchesSteps
<1> QED
  BY <1>1, Invariance, PTL

(* For channels of any size: while the learner waits for pending batches    *)
(* the worker has a command, a job or room for its answer.                  *)
THEOREM WaitIsNotMutual == Spec => []NoMutualWait
<1>1. ASSUME IInv, LearnerWaits, WorkerBlocked PROVE FALSE
  <2>1. ~cancel
    BY <1>1 DEF IInv, Shutdown, LearnerWaits
  <2>2. pending = UnderWay(cmds) + UnderWay(results) + InHand
    BY <1>1, <2>1, Owed DEF IInv, BooksAgree, LearnerWaits
  <2>3. UnderWay(results) = 0
    BY <1>1, NoneUnderWay DEF LearnerWaits
  <2>4. CASE worker = "recv" /\ cmds = <<>>
    <3>1. UnderWay(cmds) = 0
      BY <2>4, NoneUnderWay
    <3>2. InHand = 0
      BY <2>4 DEF InHand
    <3> QED
      BY <1>1, <2>2, <2>3, <3>1, <3>2 DEF LearnerWaits
  <2>5. CASE Len(results) >= MaxPending
    <3>1. Len(results) = 0
      BY <1>1 DEF LearnerWaits
    <3> QED
      BY <2>5, <3>1, NeuralAssumption
  <2> QED
    BY <1>1, <2>4, <2>5 DEF WorkerBlocked
<1>2. IInv => NoMutualWait
  BY <1>1 DEF NoMutualWait
<1> QED
  BY <1>2, Invariance, PTL
=============================================================================
