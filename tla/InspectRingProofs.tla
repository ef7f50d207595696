-------------------------- MODULE InspectRingProofs --------------------------
(***************************************************************************)
(* Proofs about InspectRing, for every number of slots, words, readers and *)
(* attempts: readers get whole frames, never older than the index they     *)
(* asked for.                                                              *)
(*                                                                         *)
(* The argument: an even sequence number means a whole slot, the sequence  *)
(* number of a slot only grows, and the writer makes it odd before it      *)
(* touches a word.  A reader that sees the same even number before and     *)
(* after its copy has therefore copied from a slot that did not change.    *)
(***************************************************************************)
EXTENDS InspectRing, TLAPS

SlotIds == 0..(Slots - 1)

WriterTyped ==
  /\ next \in Nat /\ latest \in Nat
  /\ seq \in [SlotIds -> Nat]
  /\ data \in [SlotIds -> Frames]
  /\ stage \in {"idle", "copying", "written"}
  /\ unwritten \in SUBSET Words

(* A reader that copies has an attempt left: this bounds the attempts. *)
ReadersTyped ==
  /\ pc \in [Readers -> {"idle", "load", "copy"}]
  /\ at \in [Readers -> Nat]
  /\ upto \in [Readers -> Nat]
  /\ seen \in [Readers -> Nat]
  /\ uncopied \in [Readers -> SUBSET Words]
  /\ copy \in [Readers -> Frames]
  /\ tries \in [Readers -> 0..MaxTries]
  /\ \A r \in Readers : pc[r] = "copy" => tries[r] < MaxTries
  /\ out \in [Readers -> Seq([asked : Nat, frame : Frames])]

(* The sequence number is odd exactly while the writer copies into the slot. *)
OddWhileCopying ==
  /\ \A s \in SlotIds : seq[s] % 2 # 0 => stage = "copying" /\ s = Slot(next)
  /\ stage = "copying" => seq[Slot(next)] % 2 = 1

(* What the writer has copied so far is its frame. *)
WrittenWords ==
  /\ stage = "copying" => \A w \in Words \ unwritten : data[Slot(next)][w] = next
  /\ stage = "written" => \A w \in Words : data[Slot(next)][w] = next

EvenIsWhole ==
  \A s \in SlotIds : seq[s] % 2 = 0 =>
    \A v, w \in Words : data[s][v] = data[s][w]

(* The slot of a published frame holds that frame or words of later ones.   *)
PublishedStays ==
  /\ latest = next
  /\ \A i \in 0..(next - 1) : \A w \in Words : data[Slot(i)][w] >= i

(* A reader at work asks for published frames only. *)
AsksForPublished ==
  \A r \in Readers : upto[r] <= latest /\ (pc[r] # "idle" => at[r] < upto[r])

(* While the sequence number has not moved, the copy agrees with the slot.  *)
CopyAgrees ==
  \A r \in Readers : pc[r] = "copy" =>
    /\ seen[r] % 2 = 0
    /\ seen[r] <= seq[Slot(at[r])]
    /\ \A w \in Words \ uncopied[r] :
         /\ copy[r][w] >= at[r]
         /\ seen[r] = seq[Slot(at[r])] => copy[r][w] = data[Slot(at[r])][w]

AnswersGood ==
  \A r \in Readers : \A k \in DOMAIN out[r] : \A v, w \in Words :
    /\ out[r][k].frame[v] = out[r][k].frame[w]
    /\ out[r][k].frame[w] >= out[r][k].asked

RingInv ==
  /\ WriterTyped /\ ReadersTyped
  /\ OddWhileCopying /\ WrittenWords /\ EvenIsWhole
  /\ PublishedStays /\ AsksForPublished /\ CopyAgrees /\ AnswersGood

(* Every publish index has a slot. *)
LEMMA SlotInRing == \A i \in Nat : Slot(i) \in SlotIds
BY RingAssumption DEF Slot, SlotIds

(* A history grows by one answer. *)
LEMMA AppendedAnswers ==
  ASSUME NEW T, NEW s \in Seq(T), NEW e \in T
  PROVE  /\ Append(s, e) \in Seq(T)
         /\ \A k \in DOMAIN Append(s, e) :
              Append(s, e)[k] = e \/ (k \in DOMAIN s /\ Append(s, e)[k] = s[k])
OBVIOUS

LEMMA RingInit == Init => RingInv
<1> SUFFICES ASSUME Init PROVE RingInv
  OBVIOUS
<1>1. WriterTyped /\ ReadersTyped
  BY RingAssumption DEF Init, WriterTyped, ReadersTyped, Frames, Blank, SlotIds
<1>2. OddWhileCopying /\ WrittenWords /\ EvenIsWhole
  BY DEF Init, OddWhileCopying, WrittenWords, EvenIsWhole, SlotIds
<1>3. PublishedStays /\ AsksForPublished /\ CopyAgrees
  BY DEF Init, PublishedStays, AsksForPublished, CopyAgrees
<1>4. AnswersGood
  BY DEF Init, AnswersGood
<1> QED
  BY <1>1, <1>2, <1>3, <1>4 DEF RingInv

-----------------------------------------------------------------------------
(* The writer *)

LEMMA BeginWriteKeeps == RingInv /\ BeginWrite => RingInv'
<1> SUFFICES ASSUME RingInv, BeginWrite PROVE RingInv'
  OBVIOUS
<1> USE DEF RingInv
<1>1. Slot(next) \in SlotIds /\ \A r \in Readers : Slot(at[r]) \in SlotIds
  BY SlotInRing DEF WriterTyped, ReadersTyped
<1>2. /\ seq[Slot(next)] % 2 = 0
      /\ seq' = [seq EXCEPT ![Slot(next)] = @ + 1]
  BY <1>1 DEF BeginWrite, OddWhileCopying
<1>3. WriterTyped' /\ ReadersTyped'
  <2>1. WriterTyped'
    BY <1>1, <1>2 DEF WriterTyped, BeginWrite
  <2>2. ReadersTyped'
    BY DEF ReadersTyped, BeginWrite, readers
  <2> QED
    BY <2>1, <2>2
<1>4. OddWhileCopying'
  BY <1>1, <1>2 DEF OddWhileCopying, WriterTyped, BeginWrite
<1>5. WrittenWords'
  BY DEF WrittenWords, BeginWrite
<1>6. EvenIsWhole'
  BY <1>1, <1>2 DEF EvenIsWhole, WriterTyped, BeginWrite
<1>7. PublishedStays' /\ AsksForPublished'
  BY DEF PublishedStays, AsksForPublished, BeginWrite, readers
<1>8. CopyAgrees'
  <2>1. UNCHANGED <<pc, at, seen, uncopied, copy, data>>
    BY DEF BeginWrite, readers
  <2>2. \A s \in SlotIds : seq[s] \in Nat /\ seq'[s] \in Nat /\ seq'[s] >= seq[s]
    BY <1>1, <1>2 DEF WriterTyped
  <2>3. \A r \in Readers : pc[r] = "copy" =>
          seen[r] # seq'[Slot(at[r])] \/ seq'[Slot(at[r])] = seq[Slot(at[r])]
    BY <1>1, <1>2 DEF CopyAgrees, WriterTyped, ReadersTyped
  <2>4. ASSUME NEW r \in Readers, pc[r] = "copy"
        PROVE  seen[r] <= seq'[Slot(at[r])]
    <3>1. seen[r] \in Nat /\ seen[r] <= seq[Slot(at[r])]
      BY <2>4 DEF CopyAgrees, ReadersTyped
    <3> QED
      BY <1>1, <2>2, <3>1
  <2> QED
    BY <2>1, <2>3, <2>4 DEF CopyAgrees
<1>9. AnswersGood'
  BY DEF AnswersGood, BeginWrite, readers
<1> QED
  BY <1>3, <1>4, <1>5, <1>6, <1>7, <1>8, <1>9

LEMMA WriteWordKeeps == RingInv /\ WriteWord => RingInv'
<1> SUFFICES ASSUME RingInv, WriteWord PROVE RingInv'
  OBVIOUS
<1> USE DEF RingInv
<1>1. PICK w \in unwritten :
        /\ data' = [data EXCEPT ![Slot(next)][w] = next]
        /\ unwritten' = unwritten \ {w}
  BY DEF WriteWord
<1>2. /\ w \in Words /\ Slot(next) \in SlotIds
      /\ \A r \in Readers : Slot(at[r]) \in SlotIds
      /\ \A i \in 0..(next - 1) : Slot(i) \in SlotIds
  BY <1>1, SlotInRing DEF WriterTyped, ReadersTyped
<1>3. stage = "copying" /\ UNCHANGED <<next, latest, seq, stage>> /\ UNCHANGED readers
  BY DEF WriteWord
<1>4. WriterTyped' /\ ReadersTyped'
  <2>1. WriterTyped'
    BY <1>1, <1>2, <1>3 DEF WriterTyped, Frames
  <2>2. ReadersTyped'
    BY <1>3 DEF ReadersTyped, readers
  <2> QED
    BY <2>1, <2>2
<1>5. \A s \in SlotIds, v \in Words :
        data'[s][v] = IF s = Slot(next) /\ v = w THEN next ELSE data[s][v]
  BY <1>1, <1>2 DEF WriterTyped, Frames
<1>6. OddWhileCopying'
  BY <1>3 DEF OddWhileCopying, Slot
<1>7. WrittenWords'
  BY <1>1, <1>2, <1>3, <1>5 DEF WrittenWords, Slot
<1>8. EvenIsWhole'
  BY <1>2, <1>3, <1>5 DEF EvenIsWhole, OddWhileCopying
<1>9. PublishedStays'
  BY <1>2, <1>3, <1>5 DEF PublishedStays, WriterTyped, Slot
<1>10. AsksForPublished' /\ AnswersGood'
  BY <1>3 DEF AsksForPublished, AnswersGood, readers
<1>11. CopyAgrees'
  <2> SUFFICES ASSUME NEW r \in Readers, pc[r] = "copy",
                      NEW v \in Words \ uncopied[r], seen[r] = seq[Slot(at[r])]
               PROVE  copy[r][v] = data'[Slot(at[r])][v]
    BY <1>3 DEF CopyAgrees, readers, Slot
  <2>1. Slot(at[r]) # Slot(next)
    BY <1>3 DEF CopyAgrees, OddWhileCopying
  <2> QED
    BY <1>2, <1>5, <2>1 DEF CopyAgrees
<1> QED
  BY <1>4, <1>6, <1>7, <1>8, <1>9, <1>10, <1>11

LEMMA EndWriteKeeps == RingInv /\ EndWrite => RingInv'
<1> SUFFICES ASSUME RingInv, EndWrite PROVE RingInv'
  OBVIOUS
<1> USE DEF RingInv
<1>1. Slot(next) \in SlotIds /\ \A r \in Readers : Slot(at[r]) \in SlotIds
  BY SlotInRing DEF WriterTyped, ReadersTyped
<1>2. \A w \in Words : data[Slot(next)][w] = next
  BY DEF EndWrite, WrittenWords
<1>3. WriterTyped' /\ ReadersTyped'
  <2>1. WriterTyped'
    BY <1>1 DEF WriterTyped, EndWrite
  <2>2. ReadersTyped'
    BY DEF ReadersTyped, EndWrite, readers
  <2> QED
    BY <2>1, <2>2
<1>4. OddWhileCopying'
  BY <1>1 DEF OddWhileCopying, WriterTyped, EndWrite, Slot
<1>5. WrittenWords'
  BY <1>2 DEF WrittenWords, EndWrite, Slot
<1>6. EvenIsWhole'
  BY <1>1, <1>2 DEF EvenIsWhole, WriterTyped, EndWrite
<1>7. PublishedStays' /\ AsksForPublished' /\ AnswersGood'
  BY DEF PublishedStays, AsksForPublished, AnswersGood, EndWrite, readers, Slot
<1>8. CopyAgrees'
  <2>1. UNCHANGED <<pc, at, seen, uncopied, copy, data>>
    BY DEF EndWrite, readers
  <2>2. \A s \in SlotIds : seq[s] \in Nat /\ seq'[s] \in Nat /\ seq'[s] >= seq[s]
    BY <1>1 DEF WriterTyped, EndWrite
  <2>3. \A r \in Readers : pc[r] = "copy" =>
          seen[r] # seq'[Slot(at[r])] \/ seq'[Slot(at[r])] = seq[Slot(at[r])]
    BY <1>1 DEF CopyAgrees, WriterTyped, ReadersTyped, EndWrite
  <2>4. ASSUME NEW r \in Readers, pc[r] = "copy"
        PROVE  seen[r] <= seq'[Slot(at[r])]
    <3>1. seen[r] \in Nat /\ seen[r] <= seq[Slot(at[r])]
      BY <2>4 DEF CopyAgrees, ReadersTyped
    <3> QED
      BY <1>1, <2>2, <3>1
  <2> QED
    BY <2>1, <2>3, <2>4 DEF CopyAgrees
<1> QED
  BY <1>3, <1>4, <1>5, <1>6, <1>7, <1>8

LEMMA AnnounceKeeps == RingInv /\ Announce => RingInv'
<1> SUFFICES ASSUME RingInv, Announce PROVE RingInv'
  OBVIOUS
<1> USE DEF RingInv
<1>1. WriterTyped' /\ ReadersTyped'
  <2>1. WriterTyped'
    BY DEF WriterTyped, Announce
  <2>2. ReadersTyped'
    BY DEF ReadersTyped, Announce, readers
  <2> QED
    BY <2>1, <2>2
<1>2. OddWhileCopying' /\ WrittenWords' /\ EvenIsWhole'
  BY DEF OddWhileCopying, WrittenWords, EvenIsWhole, Announce
<1>3. PublishedStays'
  BY DEF PublishedStays, WrittenWords, WriterTyped, Announce
<1>4. AsksForPublished'
  BY DEF AsksForPublished, PublishedStays, WriterTyped, ReadersTyped,
         Announce, readers
<1>5. CopyAgrees' /\ AnswersGood'
  BY DEF CopyAgrees, AnswersGood, Announce, readers, Slot
<1> QED
  BY <1>1, <1>2, <1>3, <1>4, <1>5

-----------------------------------------------------------------------------
(* The readers: the writer's part of the invariant speaks of the writer's   *)
(* variables only.                                                          *)

WriterInv ==
  WriterTyped /\ OddWhileCopying /\ WrittenWords /\ EvenIsWhole /\ PublishedStays

LEMMA WriterAlone == WriterInv /\ UNCHANGED writer => WriterInv'
<1> SUFFICES ASSUME WriterInv, UNCHANGED writer PROVE WriterInv'
  OBVIOUS
<1>1. UNCHANGED <<next, latest, seq, data, stage, unwritten>>
  BY DEF writer
<1>2. WriterTyped' /\ OddWhileCopying' /\ EvenIsWhole'
  BY <1>1 DEF WriterInv, WriterTyped, OddWhileCopying, EvenIsWhole
<1>3. WrittenWords' /\ PublishedStays'
  BY <1>1 DEF WriterInv, WrittenWords, PublishedStays
<1> QED
  BY <1>2, <1>3 DEF WriterInv

LEMMA RequestKeeps ==
  ASSUME NEW r \in Readers, RingInv, Request(r) PROVE RingInv'
<1> USE DEF RingInv
<1>1. WriterInv'
  BY WriterAlone DEF WriterInv, Request
<1>2. PICK want \in 1..Slots :
        want <= latest /\ at' = [at EXCEPT ![r] = latest - want]
  BY DEF Request
<1>3. latest - want \in Nat /\ latest - want < latest
  BY <1>2, RingAssumption DEF WriterTyped
<1>4. ReadersTyped'
  <2>1. /\ at' \in [Readers -> Nat] /\ upto' \in [Readers -> Nat]
        /\ pc' \in [Readers -> {"idle", "load", "copy"}]
    BY <1>2, <1>3 DEF ReadersTyped, WriterTyped, Request
  <2>2. /\ tries' \in [Readers -> 0..MaxTries]
        /\ \A q \in Readers : pc'[q] = "copy" => tries'[q] < MaxTries
    BY RingAssumption DEF ReadersTyped, Request
  <2>3. out' \in [Readers -> Seq([asked : Nat, frame : Frames])]
    <3> DEFINE A == [asked : Nat, frame : Frames]
    <3>1. out \in [Readers -> Seq(A)]
      BY DEF ReadersTyped
    <3>2. << >> \in Seq(A)
      OBVIOUS
    <3> HIDE DEF A
    <3>3. out' \in [Readers -> Seq(A)]
      BY <3>1, <3>2 DEF Request
    <3> QED
      BY <3>3 DEF A
  <2> QED
    BY <2>1, <2>2, <2>3 DEF ReadersTyped, Request
<1>5. AsksForPublished'
  BY <1>2, <1>3 DEF AsksForPublished, ReadersTyped, WriterTyped, Request, writer
<1>6. CopyAgrees'
  BY <1>2 DEF CopyAgrees, ReadersTyped, Request, writer
<1>7. AnswersGood'
  BY DEF AnswersGood, ReadersTyped, Request
<1> QED
  BY <1>1, <1>4, <1>5, <1>6, <1>7 DEF WriterInv

(* Going on to the next index leaves the answers alone. *)
LEMMA NextIndexKeeps ==
  ASSUME NEW r \in Readers, ReadersTyped, AsksForPublished, pc[r] # "idle",
         NextIndex(r), UNCHANGED <<latest, upto>>, latest \in Nat
  PROVE  /\ at' \in [Readers -> Nat] /\ tries' \in [Readers -> 0..MaxTries]
         /\ pc' \in [Readers -> {"idle", "load", "copy"}]
         /\ \A q \in Readers : pc'[q] = "copy" =>
              q # r /\ pc[q] = "copy" /\ at'[q] = at[q] /\ tries'[q] = tries[q]
         /\ AsksForPublished'
<1>1. /\ at' \in [Readers -> Nat] /\ tries' \in [Readers -> 0..MaxTries]
      /\ pc' \in [Readers -> {"idle", "load", "copy"}]
  BY RingAssumption DEF NextIndex, ReadersTyped
<1>2. \A q \in Readers : pc'[q] = "copy" =>
         q # r /\ pc[q] = "copy" /\ at'[q] = at[q] /\ tries'[q] = tries[q]
  BY DEF NextIndex, ReadersTyped
<1>3. AsksForPublished'
  BY DEF NextIndex, ReadersTyped, AsksForPublished
<1> QED
  BY <1>1, <1>2, <1>3

LEMMA LoadSeqKeeps ==
  ASSUME NEW r \in Readers, RingInv, LoadSeq(r) PROVE RingInv'
<1> USE DEF RingInv
<1>1. WriterInv' /\ UNCHANGED <<latest, seq, data, upto, copy, out>>
  BY WriterAlone DEF WriterInv, LoadSeq, writer
<1>2. AnswersGood'
  BY <1>1 DEF AnswersGood
<1>3. Slot(at[r]) \in SlotIds /\ seq[Slot(at[r])] \in Nat
  BY SlotInRing DEF WriterTyped, ReadersTyped
<1>4. CASE tries[r] = MaxTries
  <2>1. NextIndex(r) /\ UNCHANGED <<seen, uncopied>>
    BY <1>4 DEF LoadSeq
  <2>2. /\ at' \in [Readers -> Nat] /\ tries' \in [Readers -> 0..MaxTries]
        /\ pc' \in [Readers -> {"idle", "load", "copy"}]
        /\ \A q \in Readers : pc'[q] = "copy" =>
             q # r /\ pc[q] = "copy" /\ at'[q] = at[q] /\ tries'[q] = tries[q]
        /\ AsksForPublished'
    BY <1>1, <2>1, NextIndexKeeps DEF LoadSeq, WriterTyped
  <2>3. ReadersTyped'
    BY <1>1, <2>1, <2>2 DEF ReadersTyped
  <2>4. CopyAgrees'
    BY <1>1, <2>1, <2>2 DEF CopyAgrees
  <2> QED
    BY <1>1, <1>2, <2>2, <2>3, <2>4 DEF WriterInv
<1>5. CASE tries[r] # MaxTries /\ seq[Slot(at[r])] % 2 # 0
  <2>1. /\ tries' = [tries EXCEPT ![r] = @ + 1]
        /\ UNCHANGED <<at, pc, seen, uncopied>>
    BY <1>5 DEF LoadSeq
  <2>2. ReadersTyped'
    <3>1. /\ tries' \in [Readers -> 0..MaxTries]
          /\ \A q \in Readers : pc'[q] = "copy" => tries'[q] < MaxTries
      BY <1>5, <2>1, RingAssumption DEF ReadersTyped, LoadSeq
    <3> QED
      BY <1>1, <2>1, <3>1 DEF ReadersTyped
  <2>3. AsksForPublished' /\ CopyAgrees'
    BY <1>1, <2>1 DEF AsksForPublished, CopyAgrees
  <2> QED
    BY <1>1, <1>2, <2>2, <2>3 DEF WriterInv
<1>6. CASE tries[r] # MaxTries /\ seq[Slot(at[r])] % 2 = 0
  <2>1. /\ seen' = [seen EXCEPT ![r] = seq[Slot(at[r])]]
        /\ uncopied' = [uncopied EXCEPT ![r] = Words]
        /\ pc' = [pc EXCEPT ![r] = "copy"]
        /\ UNCHANGED <<at, tries>>
    BY <1>6 DEF LoadSeq
  <2>2. ReadersTyped'
    <3>1. \A q \in Readers : pc'[q] = "copy" => tries'[q] < MaxTries
      BY <1>6, <2>1, RingAssumption DEF ReadersTyped
    <3>2. /\ seen' \in [Readers -> Nat] /\ uncopied' \in [Readers -> SUBSET Words]
          /\ pc' \in [Readers -> {"idle", "load", "copy"}]
      BY <1>3, <2>1 DEF ReadersTyped
    <3> QED
      BY <1>1, <2>1, <3>1, <3>2 DEF ReadersTyped
  <2>3. AsksForPublished'
    BY <1>1, <2>1 DEF AsksForPublished, ReadersTyped, LoadSeq
  <2>4. CopyAgrees'
    BY <1>1, <1>3, <1>6, <2>1 DEF CopyAgrees, ReadersTyped
  <2> QED
    BY <1>1, <1>2, <2>2, <2>3, <2>4 DEF WriterInv
<1> QED
  BY <1>4, <1>5, <1>6

LEMMA CopyWordKeeps ==
  ASSUME NEW r \in Readers, RingInv, CopyWord(r) PROVE RingInv'
<1> USE DEF RingInv
<1>1. WriterInv' /\ UNCHANGED <<latest, seq, data, pc, at, upto, seen, tries, out>>
  BY WriterAlone DEF WriterInv, CopyWord, writer
<1>2. PICK w \in uncopied[r] :
        /\ copy' = [copy EXCEPT ![r][w] = data[Slot(at[r])][w]]
        /\ uncopied' = [uncopied EXCEPT ![r] = @ \ {w}]
  BY DEF CopyWord
<1>3. w \in Words /\ Slot(at[r]) \in SlotIds /\ at[r] \in 0..(next - 1)
  <2>1. /\ uncopied[r] \in SUBSET Words
        /\ at[r] \in Nat /\ upto[r] \in Nat /\ next \in Nat
    BY DEF WriterTyped, ReadersTyped
  <2>2. at[r] < upto[r] /\ upto[r] <= next
    BY DEF AsksForPublished, PublishedStays, CopyWord
  <2> QED
    BY <1>2, <2>1, <2>2, SlotInRing
<1>4. data[Slot(at[r])][w] \in Int /\ data[Slot(at[r])][w] >= at[r]
  BY <1>3 DEF WriterTyped, Frames, PublishedStays
<1>5. ReadersTyped'
  <2>1. copy' \in [Readers -> Frames]
    BY <1>2, <1>3, <1>4 DEF ReadersTyped, Frames
  <2>2. uncopied' \in [Readers -> SUBSET Words]
    BY <1>2 DEF ReadersTyped
  <2> QED
    BY <1>1, <2>1, <2>2 DEF ReadersTyped
<1>6. \A q \in Readers, v \in Words :
        copy'[q][v] = IF q = r /\ v = w THEN data[Slot(at[r])][w] ELSE copy[q][v]
  BY <1>2, <1>3 DEF ReadersTyped, Frames
<1>7. \A q \in Readers :
        uncopied'[q] = IF q = r THEN uncopied[q] \ {w} ELSE uncopied[q]
  BY <1>2 DEF ReadersTyped
<1>8. CopyAgrees'
  <2> SUFFICES ASSUME NEW q \in Readers, pc[q] = "copy",
                      NEW v \in Words \ uncopied'[q]
               PROVE  /\ copy'[q][v] >= at[q]
                      /\ seen[q] = seq[Slot(at[q])] =>
                           copy'[q][v] = data[Slot(at[q])][v]
    BY <1>1 DEF CopyAgrees
  <2>1. CASE q = r /\ v = w
    BY <1>4, <1>6, <2>1
  <2>2. CASE ~(q = r /\ v = w)
    <3>1. copy'[q][v] = copy[q][v] /\ v \in Words \ uncopied[q]
      BY <1>6, <1>7, <2>2
    <3> QED
      BY <3>1 DEF CopyAgrees
  <2> QED
    BY <2>1, <2>2
<1>9. AsksForPublished' /\ AnswersGood'
  BY <1>1 DEF AsksForPublished, AnswersGood
<1> QED
  BY <1>1, <1>5, <1>8, <1>9 DEF WriterInv

(* An accepted copy is whole and fresh: the slot was even and unchanged.    *)
LEMMA AcceptedCopy ==
  ASSUME NEW r \in Readers, RingInv, pc[r] = "copy", uncopied[r] = {},
         seq[Slot(at[r])] = seen[r]
  PROVE  \A v, w \in Words : copy[r][v] = copy[r][w] /\ copy[r][w] >= at[r]
<1>1. Slot(at[r]) \in SlotIds
  BY SlotInRing DEF RingInv, ReadersTyped
<1>2. \A v, w \in Words : data[Slot(at[r])][v] = data[Slot(at[r])][w]
  BY <1>1 DEF RingInv, CopyAgrees, EvenIsWhole
<1> QED
  BY <1>2 DEF RingInv, CopyAgrees

LEMMA CheckSeqKeeps ==
  ASSUME NEW r \in Readers, RingInv, CheckSeq(r) PROVE RingInv'
<1> USE DEF RingInv
<1>1. WriterInv' /\ UNCHANGED <<latest, seq, data, upto, seen, uncopied, copy>>
  BY WriterAlone DEF WriterInv, CheckSeq, writer
<1>2. CASE seq[Slot(at[r])] = seen[r]
  <2> DEFINE A == [asked : Nat, frame : Frames]
             e == [asked |-> at[r], frame |-> copy[r]]
  <2>1. out' = [out EXCEPT ![r] = Append(@, e)] /\ NextIndex(r)
    BY <1>2 DEF CheckSeq
  <2>2. /\ at' \in [Readers -> Nat] /\ tries' \in [Readers -> 0..MaxTries]
        /\ pc' \in [Readers -> {"idle", "load", "copy"}]
        /\ \A q \in Readers : pc'[q] = "copy" =>
             q # r /\ pc[q] = "copy" /\ at'[q] = at[q] /\ tries'[q] = tries[q]
        /\ AsksForPublished'
    BY <1>1, <2>1, NextIndexKeeps DEF CheckSeq, WriterTyped
  <2>3. out \in [Readers -> Seq(A)] /\ e \in A
    BY DEF ReadersTyped
  <2>4. /\ Append(out[r], e) \in Seq(A)
        /\ \A k \in DOMAIN Append(out[r], e) :
             \/ Append(out[r], e)[k] = e
             \/ k \in DOMAIN out[r] /\ Append(out[r], e)[k] = out[r][k]
    <3> HIDE DEF A, e
    <3>1. out[r] \in Seq(A)
      BY <2>3
    <3> QED
      BY <2>3, <3>1, AppendedAnswers
  <2>5. out' \in [Readers -> Seq(A)]
    <3> HIDE DEF A, e
    <3> QED
      BY <2>1, <2>3, <2>4
  <2>6. ReadersTyped'
    BY <1>1, <2>2, <2>5 DEF ReadersTyped
  <2>7. CopyAgrees'
    BY <1>1, <2>2 DEF CopyAgrees
  <2>8. \A v, w \in Words : e.frame[v] = e.frame[w] /\ e.frame[w] >= e.asked
    BY <1>2, AcceptedCopy DEF CheckSeq
  <2>9. AnswersGood'
    <3> SUFFICES ASSUME NEW q \in Readers, NEW k \in DOMAIN out'[q],
                        NEW v \in Words, NEW w \in Words
                 PROVE  /\ out'[q][k].frame[v] = out'[q][k].frame[w]
                        /\ out'[q][k].frame[w] >= out'[q][k].asked
      BY DEF AnswersGood
    <3> HIDE DEF A, e
    <3>1. CASE q # r
      <4>1. out'[q] = out[q]
        BY <2>1, <2>3, <3>1
      <4> QED
        BY <4>1 DEF AnswersGood
    <3>2. CASE q = r
      <4>1. out'[q] = Append(out[r], e)
        BY <2>1, <2>3, <3>2
      <4>2. CASE out'[q][k] = e
        BY <2>8, <4>2
      <4>3. CASE k \in DOMAIN out[r] /\ out'[q][k] = out[r][k]
        BY <4>3 DEF AnswersGood
      <4> QED
        BY <2>4, <4>1, <4>2, <4>3
    <3> QED
      BY <3>1, <3>2
  <2> QED
    BY <1>1, <2>2, <2>6, <2>7, <2>9 DEF WriterInv
<1>3. CASE seq[Slot(at[r])] # seen[r]
  <2>1. /\ tries' = [tries EXCEPT ![r] = @ + 1]
        /\ pc' = [pc EXCEPT ![r] = "load"]
        /\ UNCHANGED <<at, out>>
    BY <1>3 DEF CheckSeq
  <2>2. /\ pc' \in [Readers -> {"idle", "load", "copy"}]
        /\ tries' \in [Readers -> 0..MaxTries]
        /\ \A q \in Readers : pc'[q] = "copy" => tries'[q] < MaxTries
    BY <2>1, RingAssumption DEF ReadersTyped, CheckSeq
  <2>3. ReadersTyped'
    BY <1>1, <2>1, <2>2 DEF ReadersTyped
  <2>4. AsksForPublished' /\ CopyAgrees' /\ AnswersGood'
    BY <1>1, <2>1
       DEF AsksForPublished, CopyAgrees, AnswersGood, ReadersTyped, CheckSeq
  <2> QED
    BY <1>1, <2>3, <2>4 DEF WriterInv
<1> QED
  BY <1>2, <1>3

-----------------------------------------------------------------------------
(* Theorems *)

LEMMA RingStep == RingInv /\ [Next]_vars => RingInv'
<1> SUFFICES ASSUME RingInv, [Next]_vars PROVE RingInv'
  OBVIOUS
<1>1. CASE BeginWrite
  BY <1>1, BeginWriteKeeps
<1>2. CASE WriteWord
  BY <1>2, WriteWordKeeps
<1>3. CASE EndWrite
  BY <1>3, EndWriteKeeps
<1>4. CASE Announce
  BY <1>4, AnnounceKeeps
<1>5. ASSUME NEW r \in Readers, Request(r) PROVE RingInv'
  BY <1>5, RequestKeeps
<1>6. ASSUME NEW r \in Readers, Read(r) PROVE RingInv'
  BY <1>6, LoadSeqKeeps, CopyWordKeeps, CheckSeqKeeps DEF Read
<1>7. CASE UNCHANGED vars
  <2>1. UNCHANGED writer /\ UNCHANGED readers
    BY <1>7 DEF vars, writer, readers
  <2>2. WriterInv'
    BY <2>1, WriterAlone DEF RingInv, WriterInv
  <2>3. ReadersTyped'
    BY <2>1 DEF RingInv, ReadersTyped, readers
  <2>4. AsksForPublished' /\ CopyAgrees' /\ AnswersGood'
    BY <2>1 DEF RingInv, AsksForPublished, CopyAgrees, AnswersGood, readers, writer
  <2> QED
    BY <2>2, <2>3, <2>4 DEF RingInv, WriterInv
<1> QED
  BY <1>1, <1>2, <1>3, <1>4, <1>5, <1>6, <1>7 DEF Next

LEMMA RingAlways == Spec => []RingInv
BY RingInit, RingStep, PTL DEF Spec

(* InspectReader and InspectRing keep every variable in its range, and no   *)
(* slot takes more than MaxTries attempts.                                  *)
THEOREM RingTypeCorrect == Spec => []TypeOK
<1>1. RingInv => TypeOK
  BY DEF RingInv, WriterTyped, ReadersTyped, TypeOK, SlotIds
<1> QED
  BY <1>1, RingAlways, PTL

(* read_slot never returns a frame that mixes the words of two frames, for  *)
(* any number of concurrent readers and any speed of the writer.            *)
THEOREM ReadsAreTornFree == Spec => []TornFree
<1>1. RingInv => TornFree
  BY DEF RingInv, AnswersGood, TornFree, Answers
<1> QED
  BY <1>1, RingAlways, PTL

(* What latest and history return for an index is that frame or a later one.*)
THEOREM ReadsAreFresh == Spec => []NoStaleFrame
<1>1. RingInv => NoStaleFrame
  BY DEF RingInv, AnswersGood, NoStaleFrame, Answers
<1> QED
  BY <1>1, RingAlways, PTL
=============================================================================
