----------------------------- MODULE InspectRing -----------------------------
(***************************************************************************)
(* The shared-memory inspector ring of                                     *)
(* src/src/des/general/soccer/inspect.rs: the match writes one frame per   *)
(* tick into a memory-mapped ring (InspectRing::record) while readers in   *)
(* other processes copy frames out of it without a lock                    *)
(* (InspectReader::latest, history and read_slot).                         *)
(*                                                                         *)
(* A frame is larger than a machine word: it is written and read word by   *)
(* word, in no particular order, and only the sequence number of its slot  *)
(* tells a reader that a writer was at work.  The fences of both sides     *)
(* order the words between the two accesses to the sequence number, so     *)
(* the model interleaves the accesses.  The content of a frame is its      *)
(* publish index: all that the properties tell apart.                      *)
(***************************************************************************)
EXTENDS Integers, Sequences

CONSTANTS
  Slots,      \* INSPECT_RING_SLOTS
  Words,      \* the separately written parts of a FrameInspect
  Readers,    \* processes that map the file
  MaxTries,   \* attempts of read_slot (64 in the code)
  MaxFrames   \* bound on the frames of a behaviour (not in the code)

ASSUME RingAssumption ==
  /\ Slots \in Nat \ {0}
  /\ MaxTries \in Nat \ {0}
  /\ MaxFrames \in Nat

VARIABLES
  next,      \* next_index of the writer
  latest,    \* header: latest_index, the count of published frames
  seq,       \* write_seq of every slot
  data,      \* data[s][w]: the frame whose word w is in slot s
  stage,     \* where record is: idle, copying, written
  unwritten, \* words that record has not copied yet
  pc,        \* where a reader is: idle, load, copy
  at,        \* the publish index whose slot a reader reads
  upto,      \* the latest_index its request loaded
  seen,      \* s1: the sequence number before the copy
  uncopied,  \* words it has not copied yet
  copy,      \* the frame it is copying
  tries,     \* attempts on this slot
  out        \* the frames of its request so far, each with the index asked for

writer == <<next, latest, seq, data, stage, unwritten>>
readers == <<pc, at, upto, seen, uncopied, copy, tries, out>>
vars == <<next, latest, seq, data, stage, unwritten,
          pc, at, upto, seen, uncopied, copy, tries, out>>

Slot(i) == i % Slots

\* The content of a slot in the freshly sized file: zeros, no frame.
Blank == -1

Init ==
  /\ next = 0 /\ latest = 0
  /\ seq = [s \in 0..(Slots - 1) |-> 0]
  /\ data = [s \in 0..(Slots - 1) |-> [w \in Words |-> Blank]]
  /\ stage = "idle" /\ unwritten = {}
  /\ pc = [r \in Readers |-> "idle"]
  /\ at = [r \in Readers |-> 0]
  /\ upto = [r \in Readers |-> 0]
  /\ seen = [r \in Readers |-> 0]
  /\ uncopied = [r \in Readers |-> {}]
  /\ copy = [r \in Readers |-> [w \in Words |-> Blank]]
  /\ tries = [r \in Readers |-> 0]
  /\ out = [r \in Readers |-> <<>>]

-----------------------------------------------------------------------------
(* InspectRing::record *)

(* The sequence number becomes odd; an odd one, left by a writer that died   *)
(* in mid-frame, becomes the next odd one.                                   *)
BeginWrite ==
  /\ stage = "idle" /\ next < MaxFrames
  /\ seq' = [seq EXCEPT ![Slot(next)] = IF @ % 2 = 0 THEN @ + 1 ELSE @ + 2]
  /\ stage' = "copying" /\ unwritten' = Words
  /\ UNCHANGED <<next, latest, data, readers>>

WriteWord ==
  /\ stage = "copying"
  /\ \E w \in unwritten :
       /\ data' = [data EXCEPT ![Slot(next)][w] = next]
       /\ unwritten' = unwritten \ {w}
  /\ UNCHANGED <<next, latest, seq, stage, readers>>

(* Mutant: latest_index is published with the sequence number still odd and *)
(* one frame ahead.                                                         *)
EndWriteAhead ==
  /\ stage = "copying" /\ unwritten = {}
  /\ seq' = [seq EXCEPT ![Slot(next)] = @ + 1]
  /\ latest' = next + 2
  /\ stage' = "written"
  /\ UNCHANGED <<next, data, unwritten, readers>>

(* The even number publishes the slot. *)
EndWrite ==
  /\ stage = "copying" /\ unwritten = {}
  /\ seq' = [seq EXCEPT ![Slot(next)] = @ + 1]
  /\ stage' = "written"
  /\ UNCHANGED <<next, latest, data, unwritten, readers>>

Announce ==
  /\ stage = "written" /\ stage' = "idle"
  /\ next' = next + 1 /\ latest' = next + 1
  /\ UNCHANGED <<seq, data, unwritten, readers>>

-----------------------------------------------------------------------------
(* InspectReader *)

(* history(count); latest() is the request for a single frame.              *)
Request(r) ==
  /\ pc[r] = "idle" /\ latest > 0
  /\ \E want \in 1..Slots :
       /\ want <= latest
       /\ at' = [at EXCEPT ![r] = latest - want]
  /\ upto' = [upto EXCEPT ![r] = latest]
  /\ pc' = [pc EXCEPT ![r] = "load"]
  /\ tries' = [tries EXCEPT ![r] = 0]
  /\ out' = [out EXCEPT ![r] = <<>>]
  /\ UNCHANGED <<writer, seen, uncopied, copy>>

\* On to the next index of the request, or done.
NextIndex(r) ==
  /\ at' = [at EXCEPT ![r] = @ + 1]
  /\ tries' = [tries EXCEPT ![r] = 0]
  /\ pc' = [pc EXCEPT ![r] = IF at[r] + 1 = upto[r] THEN "idle" ELSE "load"]

(* read_slot: the attempts are bounded, then the index is left out.         *)
LoadSeq(r) ==
  /\ pc[r] = "load"
  /\ LET s == seq[Slot(at[r])] IN
     IF tries[r] = MaxTries THEN NextIndex(r) /\ UNCHANGED <<seen, uncopied>>
     ELSE IF s % 2 # 0
     THEN /\ tries' = [tries EXCEPT ![r] = @ + 1]
          /\ UNCHANGED <<at, pc, seen, uncopied>>
     ELSE /\ seen' = [seen EXCEPT ![r] = s]
          /\ uncopied' = [uncopied EXCEPT ![r] = Words]
          /\ pc' = [pc EXCEPT ![r] = "copy"]
          /\ UNCHANGED <<at, tries>>
  /\ UNCHANGED <<writer, upto, copy, out>>

CopyWord(r) ==
  /\ pc[r] = "copy"
  /\ \E w \in uncopied[r] :
       /\ copy' = [copy EXCEPT ![r][w] = data[Slot(at[r])][w]]
       /\ uncopied' = [uncopied EXCEPT ![r] = @ \ {w}]
  /\ UNCHANGED <<writer, pc, at, upto, seen, tries, out>>

(* Mutant: a copy is accepted if the slot is even again. *)
CheckSeqEven(r) ==
  /\ pc[r] = "copy" /\ uncopied[r] = {}
  /\ IF seq[Slot(at[r])] % 2 = 0
     THEN /\ out' = [out EXCEPT ![r] = Append(@, [asked |-> at[r], frame |-> copy[r]])]
          /\ NextIndex(r)
     ELSE /\ tries' = [tries EXCEPT ![r] = @ + 1]
          /\ pc' = [pc EXCEPT ![r] = "load"]
          /\ UNCHANGED <<at, out>>
  /\ UNCHANGED <<writer, upto, seen, uncopied, copy>>

CheckSeq(r) ==
  /\ pc[r] = "copy" /\ uncopied[r] = {}
  /\ IF seq[Slot(at[r])] = seen[r]
     THEN /\ out' = [out EXCEPT ![r] = Append(@, [asked |-> at[r], frame |-> copy[r]])]
          /\ NextIndex(r)
     ELSE /\ tries' = [tries EXCEPT ![r] = @ + 1]
          /\ pc' = [pc EXCEPT ![r] = "load"]
          /\ UNCHANGED <<at, out>>
  /\ UNCHANGED <<writer, upto, seen, uncopied, copy>>

Read(r) == LoadSeq(r) \/ CopyWord(r) \/ CheckSeq(r)

Next ==
  \/ BeginWrite \/ WriteWord \/ EndWrite \/ Announce
  \/ \E r \in Readers : Request(r) \/ Read(r)

\* A reader runs on; the match may stop between any two steps of a write.
Spec == Init /\ [][Next]_vars /\ \A r \in Readers : WF_vars(Read(r))

-----------------------------------------------------------------------------
(* Properties *)

Frames == [Words -> Int]

(* Every variable stays in its range; in particular a slot is given up after *)
(* MaxTries attempts.                                                       *)
TypeOK ==
  /\ next \in Nat /\ latest \in Nat
  /\ seq \in [0..(Slots - 1) -> Nat]
  /\ data \in [0..(Slots - 1) -> Frames]
  /\ stage \in {"idle", "copying", "written"}
  /\ unwritten \in SUBSET Words
  /\ pc \in [Readers -> {"idle", "load", "copy"}]
  /\ at \in [Readers -> Nat]
  /\ upto \in [Readers -> Nat]
  /\ seen \in [Readers -> Nat]
  /\ uncopied \in [Readers -> SUBSET Words]
  /\ copy \in [Readers -> Frames]
  /\ tries \in [Readers -> 0..MaxTries]
  /\ out \in [Readers -> Seq([asked : Nat, frame : Frames])]

Answers(r) == {out[r][k] : k \in DOMAIN out[r]}

(* No reader is ever given a frame that mixes the words of two frames,      *)
(* however often the writer laps it during the copy.                        *)
TornFree ==
  \A r \in Readers : \A f \in Answers(r) :
    \A v, w \in Words : f.frame[v] = f.frame[w]

(* A frame is never older than the index it was read for: a published       *)
(* frame is in its slot before latest_index counts it.                      *)
NoStaleFrame ==
  \A r \in Readers : \A f \in Answers(r) :
    \A w \in Words : f.frame[w] >= f.asked

(* inspect.rs:717: the frames of a history are in chronological order.      *)
HistoryChronological ==
  \A r \in Readers : \A j, k \in DOMAIN out[r] :
    j < k => \A w \in Words : out[r][j].frame[w] < out[r][k].frame[w]
=============================================================================
