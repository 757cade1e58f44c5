---------------------------- MODULE CfgSyncProofs ----------------------------
(***************************************************************************)
(* The reconciler for any number of zones, edits and faults: the transfer  *)
(* slot keeps its books, a web write stays with the master until its zone  *)
(* has run it, and no zone is given the contents of another.               *)
(***************************************************************************)
EXTENDS CfgSync, RingTrkProofs

-----------------------------------------------------------------------------
(* Types, with m for the number of edits made so far: a value that is       *)
(* anywhere in the system was written by one of them.                       *)

Src        == {"none", "local", "master", "hw"}
Seqs       == 0 .. MAX_SEQ
Statuses   == {"ok", "err", "missing", "crc", "version", "invalid"}
Asserted   == Statuses \cup {"none", "busy", "accepted", "timeout", "reverted"}
BlobTo(m)  == [gen : Nat, val : {-1} \cup 0 .. m, src : Src]
Pair(m)    == [cfg : BlobTo(m), hw : BlobTo(m)]
Asm(m)     == [kind : Kinds \cup {"none"}, gen : Nat, got : [Chunks -> BlobTo(m)]]

ChunkFrame(m) == [type : {"CFG_CHUNK"}, seq : {0}, arg : [kind : Kinds, idx : Chunks, blob : BlobTo(m)]]
DownFrame(m) ==
  ChunkFrame(m)
    \cup [type : {"CMD"}, seq : Seqs, arg : 1 .. m]
    \cup [type : {"CFG_COMMIT"}, seq : Seqs, arg : Nat]
    \cup [type : {"CFG_GET"}, seq : Seqs, arg : Kinds]
UpFrame(m) ==
  ChunkFrame(m)
    \cup [type : {"ACK"}, seq : Seqs, status : Statuses]
    \cup [type : {"HEARTBEAT"}, seq : {0}, arg : Pair(m)]
Entry(m) ==
  [seq : Seqs, dst : Zones, type : {"CMD"}, att : Nat, arg : 1 .. m]
    \cup [seq : Seqs, dst : Zones, type : {"CFG_COMMIT"}, att : Nat, arg : Nat]
    \cup [seq : Seqs, dst : Zones, type : {"CFG_GET"}, att : Nat, arg : Kinds]

Ids(m)  == [hb : BlobTo(m), cached : BlobTo(m)]
Slot(m) == [state : CxState, zone : 0 .. ZONES, kind : Kinds, attempt : 0 .. CX_ATTEMPTS, seq : Seqs,
            wire : BlobTo(m), id : Ids(m)]
Fwd(m)  == [phase : {"idle", "submitted", "waiting"}, seq : Seqs, zone : 0 .. ZONES, edit : 0 .. m]
Log     == [Edits -> [by : {"none", "fwd", "web", "local"}, zone : 0 .. ZONES, told : Asserted]]

MasterTyped(m) ==
  /\ q \in Seq(Entry(m)) /\ Len(q) <= RING_TRK_DEPTH
  /\ cache \in [Zones -> BlobTo(m)] /\ hwCache \in [Zones -> BlobTo(m)]
  /\ hb \in [Zones -> Pair(m)]
  /\ turn \in Zones /\ inbox \in [Zones -> 0 .. m] /\ pushReq \in 0 .. ZONES
  /\ cx \in Slot(m)
  /\ casm \in Asm(m)
  /\ fwd \in Fwd(m) /\ edit \in Log

ZonesTyped(m) ==
  /\ down \in [Zones -> Seq(DownFrame(m))] /\ up \in [Zones -> Seq(UpFrame(m))]
  /\ cfg \in [Zones -> BlobTo(m)] /\ hw \in [Zones -> BlobTo(m)] /\ nvs \in [Zones -> BlobTo(m)]
  /\ flushing \subseteq Zones
  /\ zasm \in [Zones -> Asm(m)]
  /\ dup \in [Zones -> [seq : Seqs, status : Statuses]]
  /\ had \in [Zones -> SUBSET BlobTo(m)]

Counted == used \in [edit : 0 .. MAX_EDIT, fault : Nat]

-----------------------------------------------------------------------------
(* What the transfer slot owes to whom. *)

Pulling == {"PULL_ACK", "PULL_STREAM", "RETRY_PULL"}
Pushing == {"PUSH_COMMIT", "RETRY_PUSH"}

(* A taken slot keeps web writes of its zone out; a pull of the CFG plane   *)
(* has nothing to overwrite, a push sends what is cached.                   *)
SlotTrue ==
  /\ cx.state = "IDLE" => cx = NoTransfer
  /\ cx.state # "IDLE" => cx.zone \in Zones /\ cx.attempt \in 1 .. CX_ATTEMPTS /\ inbox[cx.zone] = 0
  /\ cx.state \in {"PULL_ACK", "PUSH_COMMIT"} <=> cx.seq # 0
  /\ cx.seq # 0 => cx.seq \in SeqsOf(q)
  /\ cx.state \in Pulling /\ cx.kind = CFG => cache[cx.zone] = NoBlob
  /\ cx.state \in Pushing => cx.kind = CFG /\ cx.wire.val = cache[cx.zone].val /\ cache[cx.zone] # NoBlob

(* A SET that is being forwarded has a number of its own, and its author    *)
(* has not been told OK.                                                    *)
ForwardTrue ==
  /\ fwd.phase = "idle" => fwd = NoForward
  /\ fwd.phase # "idle" =>
       /\ fwd.zone \in Zones /\ fwd.edit \in Edits /\ edit[fwd.edit].told # "ok"
       /\ fwd.seq # 0 /\ fwd.seq # cx.seq

(* What waits in an inbox was written there, after everything cached.       *)
Written(z, k) == k \in Edits /\ edit[k].by = "web" /\ edit[k].zone = z

InboxTrue ==
  \A z \in Zones : inbox[z] # 0 => Written(z, inbox[z]) /\ inbox[z] > cache[z].val

(* Where what is cached comes from: the zone's own history, through the    *)
(* chunks of a pull, or a web write.                                        *)
Ran(z, k) == \E b \in had[z] : b.val = k

CacheTrue ==
  \A z \in Zones : cache[z] # NoBlob => Ran(z, cache[z].val) \/ Written(z, cache[z].val)

AssemblyTrue ==
  /\ cx.state = "PULL_ACK" => casm = Empty
  /\ cx.state = "PULL_STREAM" /\ casm.kind = CFG =>
       \A i \in Chunks : casm.got[i] = NoBlob \/ casm.got[i] \in had[cx.zone]

Genuine(m, z) ==
  {f \in UpFrame(m) : f.type = "CFG_CHUNK" /\ f.arg.kind = CFG => f.arg.blob \in had[z]}

HistoryTrue(m) ==
  \A z \in Zones : cfg[z] \in had[z] /\ nvs[z] \in had[z] /\ up[z] \in Seq(Genuine(m, z))

MasterInv(m) ==
  MasterTyped(m) /\ SlotTrue /\ ForwardTrue /\ InboxTrue /\ CacheTrue /\ AssemblyTrue

ZoneInv(m) == ZonesTyped(m) /\ HistoryTrue(m)

SyncInv == Counted /\ MasterInv(used.edit) /\ ZoneInv(used.edit)

-----------------------------------------------------------------------------
(* Sequences, numbers and type sets.                                        *)

LEMMA TailTyped ==
  ASSUME NEW S, NEW s \in Seq(S), s # <<>>
  PROVE  /\ Head(s) \in S /\ Tail(s) \in Seq(S) /\ Len(Tail(s)) = Len(s) - 1
         /\ \A i \in DOMAIN s : i # 1 => i - 1 \in DOMAIN Tail(s) /\ Tail(s)[i - 1] = s[i]
         /\ s[1] = Head(s) /\ 1 \in DOMAIN s
OBVIOUS

LEMMA SeqGrows ==
  ASSUME NEW S, NEW T, S \subseteq T
  PROVE  Seq(S) \subseteq Seq(T)
OBVIOUS

LEMMA SeqsOfTail ==
  ASSUME NEW S, NEW s \in Seq(S), s # <<>>
  PROVE  SeqsOf(s) \subseteq SeqsOf(Tail(s)) \cup {s[1].seq}
<1> SUFFICES ASSUME NEW x \in SeqsOf(s), x # s[1].seq PROVE x \in SeqsOf(Tail(s))
  OBVIOUS
<1>1. PICK i \in DOMAIN s : s[i].seq = x
  BY DEF SeqsOf
<1>2. i # 1
  BY <1>1
<1>3. i - 1 \in DOMAIN Tail(s) /\ Tail(s)[i - 1] = s[i]
  BY <1>2, TailTyped
<1> QED
  BY <1>1, <1>3 DEF SeqsOf

LEMMA AppendTyped ==
  ASSUME NEW S, NEW s \in Seq(S), NEW x \in S
  PROVE  Append(s, x) \in Seq(S)
OBVIOUS

LEMMA JoinTyped ==
  ASSUME NEW S, NEW s \in Seq(S), NEW t \in Seq(S)
  PROVE  s \o t \in Seq(S)
OBVIOUS

LEMMA Bounds ==
  /\ ZONES \in Nat /\ ZONES >= 1 /\ CHUNKS \in Nat /\ CHUNKS >= 1
  /\ CX_ATTEMPTS \in Nat /\ CX_ATTEMPTS >= 1 /\ MAX_SEQ \in Nat /\ MAX_SEQ >= 1
  /\ MAX_EDIT \in Nat /\ MAX_FAULT \in Nat
BY CfgSyncAssumption

LEMMA NextSeqFree ==
  ASSUME FreeSeqs # {}
  PROVE  NextSeq \in 1 .. MAX_SEQ /\ NextSeq \notin SeqsInUse
<1>1. FreeSeqs \in SUBSET Nat
  BY Bounds DEF FreeSeqs
<1>2. \E s \in FreeSeqs : \A t \in FreeSeqs : s <= t
  BY <1>1, LeastNat
<1>3. NextSeq \in FreeSeqs
  BY <1>2 DEF NextSeq
<1> QED
  BY <1>3 DEF FreeSeqs

(* What is typed for m edits is typed for more.                             *)
LEMMA BlobGrows ==
  ASSUME NEW m \in Nat, NEW n \in Nat, m <= n
  PROVE  BlobTo(m) \subseteq BlobTo(n) /\ Pair(m) \subseteq Pair(n) /\ Asm(m) \subseteq Asm(n)
<1>1. BlobTo(m) \subseteq BlobTo(n)
  BY DEF BlobTo
<1>2. Pair(m) \subseteq Pair(n)
  BY <1>1 DEF Pair
<1>3. Asm(m) \subseteq Asm(n)
  BY <1>1 DEF Asm
<1> QED
  BY <1>1, <1>2, <1>3

LEMMA FrameGrows ==
  ASSUME NEW m \in Nat, NEW n \in Nat, m <= n
  PROVE  DownFrame(m) \subseteq DownFrame(n) /\ UpFrame(m) \subseteq UpFrame(n) /\ Entry(m) \subseteq Entry(n)
<1>1. ChunkFrame(m) \subseteq ChunkFrame(n)
  BY BlobGrows DEF ChunkFrame
<1>2. DownFrame(m) \subseteq DownFrame(n)
  BY <1>1 DEF DownFrame
<1>3. UpFrame(m) \subseteq UpFrame(n)
  BY <1>1, BlobGrows DEF UpFrame
<1>4. Entry(m) \subseteq Entry(n)
  BY DEF Entry
<1> QED
  BY <1>2, <1>3, <1>4

LEMMA SlotGrows ==
  ASSUME NEW m \in Nat, NEW n \in Nat, m <= n
  PROVE  Ids(m) \subseteq Ids(n) /\ Slot(m) \subseteq Slot(n) /\ Fwd(m) \subseteq Fwd(n)
<1>1. Ids(m) \subseteq Ids(n)
  BY BlobGrows DEF Ids
<1>2. Slot(m) \subseteq Slot(n)
  BY <1>1, BlobGrows DEF Slot
<1>3. Fwd(m) \subseteq Fwd(n)
  BY DEF Fwd
<1> QED
  BY <1>1, <1>2, <1>3

LEMMA MasterGrows ==
  ASSUME NEW m \in Nat, NEW n \in Nat, m <= n, MasterInv(m)
  PROVE  MasterInv(n)
<1>1. /\ Seq(Entry(m)) \subseteq Seq(Entry(n))
      /\ BlobTo(m) \subseteq BlobTo(n) /\ Pair(m) \subseteq Pair(n) /\ Asm(m) \subseteq Asm(n)
      /\ 0 .. m \subseteq 0 .. n
  BY FrameGrows, BlobGrows, SeqGrows
<1>2. MasterTyped(n)
  BY <1>1, SlotGrows DEF MasterInv, MasterTyped
<1> QED
  BY <1>2 DEF MasterInv

LEMMA ZonesGrow ==
  ASSUME NEW m \in Nat, NEW n \in Nat, m <= n, ZoneInv(m)
  PROVE  ZoneInv(n)
<1>1. /\ Seq(DownFrame(m)) \subseteq Seq(DownFrame(n)) /\ Seq(UpFrame(m)) \subseteq Seq(UpFrame(n))
      /\ BlobTo(m) \subseteq BlobTo(n) /\ Asm(m) \subseteq Asm(n)
  BY FrameGrows, BlobGrows, SeqGrows
<1>2. ZonesTyped(n)
  BY <1>1 DEF ZoneInv, ZonesTyped
<1>3. ASSUME NEW z \in Zones PROVE Seq(Genuine(m, z)) \subseteq Seq(Genuine(n, z))
  <2>1. Genuine(m, z) \subseteq Genuine(n, z)
    BY FrameGrows DEF Genuine
  <2> QED
    BY <2>1, SeqGrows
<1>4. HistoryTrue(n)
  BY <1>3 DEF ZoneInv, HistoryTrue
<1> QED
  BY <1>2, <1>4 DEF ZoneInv

(* A function of the chunk numbers is a sequence.                           *)
LEMMA FramesTyped ==
  ASSUME NEW m \in Nat, NEW kind \in Kinds, NEW blob \in BlobTo(m)
  PROVE  /\ ChunkFrames(kind, blob) \in Seq(DownFrame(m))
         /\ \A z \in Zones : (kind = CFG => blob \in had[z]) =>
              ChunkFrames(kind, blob) \in Seq(UpFrame(m)) /\ ChunkFrames(kind, blob) \in Seq(Genuine(m, z))
<1> DEFINE F(i) == [type |-> "CFG_CHUNK", seq |-> 0, arg |-> [kind |-> kind, idx |-> i, blob |-> blob]]
<1>1. \A i \in Chunks : F(i) \in ChunkFrame(m)
  BY DEF ChunkFrame
<1>2. \A i \in Chunks : F(i) \in DownFrame(m) /\ F(i) \in UpFrame(m)
  BY <1>1 DEF DownFrame, UpFrame
<1>3. ChunkFrames(kind, blob) = [i \in 1 .. CHUNKS |-> F(i)]
  BY DEF ChunkFrames, Chunks
<1>4. ASSUME NEW S, \A i \in Chunks : F(i) \in S PROVE ChunkFrames(kind, blob) \in Seq(S)
  <2> HIDE DEF F
  <2>1. [i \in 1 .. CHUNKS |-> F(i)] \in Seq(S)
    BY <1>4, Bounds DEF Chunks
  <2> QED
    BY <1>3, <2>1
<1>5. ASSUME NEW z \in Zones, kind = CFG => blob \in had[z], NEW i \in Chunks PROVE F(i) \in Genuine(m, z)
  BY <1>2, <1>5 DEF Genuine
<1>6. ASSUME NEW z \in Zones, kind = CFG => blob \in had[z]
      PROVE ChunkFrames(kind, blob) \in Seq(UpFrame(m)) /\ ChunkFrames(kind, blob) \in Seq(Genuine(m, z))
  BY <1>2, <1>4, <1>5, <1>6
<1> QED
  BY <1>2, <1>4, <1>6

LEMMA FedTyped ==
  ASSUME NEW m \in Nat, NEW a \in Asm(m), NEW kind \in Kinds, NEW blob \in BlobTo(m), NEW i \in Chunks
  PROVE  /\ Fed(a, kind, blob, i) \in Asm(m) /\ Fed(a, kind, blob, i).kind = kind
         /\ \A j \in Chunks :
              \/ Fed(a, kind, blob, i).got[j] \in {NoBlob, blob}
              \/ a.kind = kind /\ Fed(a, kind, blob, i).got[j] = a.got[j]
<1>1. NoBlob \in BlobTo(m) /\ blob.gen \in Nat
  BY DEF NoBlob, BlobTo, Src
<1>2. Empty.got = [j \in Chunks |-> NoBlob]
  BY DEF Empty
<1>3. CASE a.kind = kind /\ a.gen = blob.gen
  <2>1. Fed(a, kind, blob, i) = [a EXCEPT !.got[i] = blob]
    BY <1>3 DEF Fed
  <2> QED
    BY <1>3, <2>1 DEF Asm
<1>4. CASE ~(a.kind = kind /\ a.gen = blob.gen)
  <2>1. Fed(a, kind, blob, i) = [kind |-> kind, gen |-> blob.gen, got |-> [Empty.got EXCEPT ![i] = blob]]
    BY <1>4 DEF Fed
  <2>2. [Empty.got EXCEPT ![i] = blob] \in [Chunks -> BlobTo(m)]
    BY <1>1, <1>2
  <2> QED
    BY <1>1, <1>2, <2>1, <2>2 DEF Asm
<1> QED
  BY <1>3, <1>4

LEMMA Blanks ==
  ASSUME NEW m \in Nat
  PROVE  /\ NoBlob \in BlobTo(m) /\ Factory \in BlobTo(m) /\ FactoryHw \in BlobTo(m)
         /\ NoIdentity \in Ids(m)
         /\ Empty \in Asm(m) /\ Empty.kind = "none"
         /\ NoTransfer \in Slot(m) /\ NoForward \in Fwd(m)
         /\ NoDup \in [seq : Seqs, status : Statuses]
<1>1. NoBlob \in BlobTo(m) /\ Factory \in BlobTo(m) /\ FactoryHw \in BlobTo(m)
  BY DEF NoBlob, BlobTo, Src, Factory, FactoryHw
<1>2. NoIdentity \in Ids(m)
  BY <1>1 DEF NoIdentity, Ids
<1>3. Empty \in Asm(m) /\ Empty.kind = "none"
  BY <1>1 DEF Empty, Asm
<1>4. NoTransfer \in Slot(m)
  BY <1>1, <1>2, Bounds DEF NoTransfer, CxState, Kinds, Seqs, Slot
<1>5. NoForward \in Fwd(m)
  BY Bounds DEF NoForward, Seqs, Fwd
<1>6. NoDup \in [seq : Seqs, status : Statuses]
  BY Bounds DEF NoDup, Seqs, Statuses
<1> QED
  BY <1>1, <1>2, <1>3, <1>4, <1>5, <1>6

-----------------------------------------------------------------------------
(* The system at rest.                                                      *)

LEMMA RestTyped == Init => Counted /\ MasterTyped(0) /\ ZonesTyped(0)
<1> SUFFICES ASSUME Init PROVE Counted /\ MasterTyped(0) /\ ZonesTyped(0)
  OBVIOUS
<1> USE Blanks, Bounds DEF Init, Rested
<1>1. Counted
  BY DEF Counted
<1>2. q \in Seq(Entry(0)) /\ Len(q) <= RING_TRK_DEPTH
  BY TrkAssumption
<1>3. hb \in [Zones -> Pair(0)]
  BY DEF Pair
<1>4. turn \in Zones /\ pushReq \in 0 .. ZONES
  BY DEF Zones
<1>5. edit \in Log
  BY DEF Log, Asserted
<1>6. MasterTyped(0)
  BY <1>2, <1>3, <1>4, <1>5 DEF MasterTyped
<1>7. down \in [Zones -> Seq(DownFrame(0))] /\ up \in [Zones -> Seq(UpFrame(0))]
  OBVIOUS
<1>8. had \in [Zones -> SUBSET BlobTo(0)]
  OBVIOUS
<1>9. ZonesTyped(0)
  BY <1>7, <1>8 DEF ZonesTyped
<1> QED
  BY <1>1, <1>6, <1>9

LEMMA RestTrue == Init => SyncInv
<1> SUFFICES ASSUME Init PROVE SyncInv
  OBVIOUS
<1>1. used.edit = 0
  BY DEF Init, Rested
<1>2. SlotTrue
  BY Bounds DEF SlotTrue, Init, Rested, NoTransfer, Pulling, Pushing
<1>3. ForwardTrue /\ InboxTrue
  BY Bounds DEF ForwardTrue, InboxTrue, Init, Rested, NoForward
<1>4. CacheTrue /\ AssemblyTrue
  BY DEF CacheTrue, AssemblyTrue, Init, Rested, NoTransfer
<1>5. HistoryTrue(0)
  BY DEF HistoryTrue, Init, Rested
<1> QED
  BY RestTyped, <1>1, <1>2, <1>3, <1>4, <1>5 DEF SyncInv, MasterInv, ZoneInv

-----------------------------------------------------------------------------
(* A frame queued for the slot or for a forward has a number nothing else   *)
(* uses.                                                                    *)

LEMMA Queued ==
  ASSUME NEW m \in Nat, MasterTyped(m), NEW e \in Entry(m), Takes(q), e.seq = NextSeq
  PROVE  /\ Submitted(q, e) \in Seq(Entry(m)) /\ Len(Submitted(q, e)) <= RING_TRK_DEPTH
         /\ SeqsOf(Submitted(q, e)) = SeqsOf(q) \cup {NextSeq}
         /\ NextSeq \in Seqs /\ NextSeq # 0 /\ NextSeq # cx.seq /\ NextSeq # fwd.seq
<1>1. q \in Seq(Entry(m)) /\ Len(q) <= RING_TRK_DEPTH
  BY DEF MasterTyped
<1>2. ~Full(q) /\ FreeSeqs # {}
  BY DEF Takes
<1>3. NextSeq \in 1 .. MAX_SEQ /\ NextSeq \notin SeqsInUse
  BY <1>2, NextSeqFree
<1>4. /\ Submitted(q, e) \in Seq(Entry(m)) /\ Len(Submitted(q, e)) = Len(q) + 1
      /\ SeqsOf(Submitted(q, e)) = SeqsOf(q) \cup {NextSeq}
  BY <1>1, SubmittedProperties
<1>5. Len(Submitted(q, e)) <= RING_TRK_DEPTH
  BY <1>1, <1>2, <1>4, TrkAssumption DEF Full
<1>6. NextSeq \in Seqs /\ NextSeq # 0
  BY <1>3, Bounds DEF Seqs
<1>7. NextSeq # cx.seq /\ NextSeq # fwd.seq
  BY <1>3 DEF SeqsInUse
<1> QED
  BY <1>4, <1>5, <1>6, <1>7

-----------------------------------------------------------------------------
(* What a transfer leaves behind when it starts, is tried again, or fails.  *)

(* The step puts values of their types into the queue and the slot.         *)
Kept(m) ==
  /\ q' \in Seq(Entry(m)) /\ Len(q') <= RING_TRK_DEPTH
  /\ cx' \in Slot(m) /\ casm' \in Asm(m)

(* The step leaves the slot to this transfer, its number that of an entry.  *)
TakenFor(z, kind, attempt) ==
  /\ cx'.zone = z /\ cx'.kind = kind /\ cx'.attempt = attempt
  /\ cx'.state \in {"PULL_ACK", "PUSH_COMMIT"} <=> cx'.seq # 0
  /\ cx'.seq # 0 => cx'.seq \in SeqsOf(q') /\ cx'.seq # fwd.seq

LEMMA PullStarts ==
  ASSUME NEW m \in Nat, MasterTyped(m), NEW z \in Zones, NEW kind \in Kinds,
         NEW attempt \in 1 .. CX_ATTEMPTS, NEW id \in Ids(m), StartPull(z, kind, attempt, id)
  PROVE  /\ Kept(m) /\ TakenFor(z, kind, attempt)
         /\ cx'.state \in {"PULL_ACK", "RETRY_PULL"}
         /\ cx'.state = "PULL_ACK" => casm' = Empty
<1> DEFINE S(state, seq) == [state |-> state, zone |-> z, kind |-> kind, attempt |-> attempt, seq |-> seq,
                              wire |-> NoBlob, id |-> id]
<1>1. /\ q \in Seq(Entry(m)) /\ Len(q) <= RING_TRK_DEPTH
      /\ casm \in Asm(m) /\ Empty \in Asm(m) /\ NoBlob \in BlobTo(m)
  BY Blanks DEF MasterTyped
<1>2. \A state \in CxState : \A seq \in Seqs : S(state, seq) \in Slot(m)
  BY <1>1, Bounds DEF Slot, Zones
<1>3. 0 \in Seqs /\ {"PULL_ACK", "RETRY_PULL"} \subseteq CxState
  BY Bounds DEF Seqs, CxState
<1>4. CASE Full(q) /\ cx' = S("RETRY_PULL", 0) /\ q' = q /\ casm' = casm
  <2>1. cx' \in Slot(m)
    BY <1>2, <1>3, <1>4
  <2> QED
    BY <1>1, <1>4, <2>1 DEF Kept, TakenFor
<1>5. CASE /\ Takes(q) /\ cx' = S("PULL_ACK", NextSeq) /\ casm' = Empty
           /\ q' = Submitted(q, Tracked(z, "CFG_GET", kind))
  <2>1. FreeSeqs # {}
    BY <1>5 DEF Takes
  <2>2. NextSeq \in Seqs
    BY <2>1, NextSeqFree, Bounds DEF Seqs
  <2>3. Tracked(z, "CFG_GET", kind) \in Entry(m)
    BY <2>2 DEF Tracked, Entry
  <2>4. Tracked(z, "CFG_GET", kind).seq = NextSeq
    BY DEF Tracked
  <2>5. /\ q' \in Seq(Entry(m)) /\ Len(q') <= RING_TRK_DEPTH
        /\ SeqsOf(q') = SeqsOf(q) \cup {NextSeq}
        /\ NextSeq # 0 /\ NextSeq # fwd.seq
    BY <1>5, <2>3, <2>4, Queued
  <2>6. cx' \in Slot(m)
    BY <1>2, <1>3, <1>5, <2>2
  <2>7. cx'.seq = NextSeq /\ cx'.state = "PULL_ACK" /\ cx'.zone = z /\ cx'.kind = kind /\ cx'.attempt = attempt
    BY <1>5
  <2> QED
    BY <1>1, <1>5, <2>5, <2>6, <2>7 DEF Kept, TakenFor
<1>6. \/ Full(q) /\ cx' = S("RETRY_PULL", 0) /\ q' = q /\ casm' = casm
      \/ /\ Takes(q) /\ cx' = S("PULL_ACK", NextSeq) /\ casm' = Empty
         /\ q' = Submitted(q, Tracked(z, "CFG_GET", kind))
  BY DEF StartPull, NoTransfer
<1> QED
  BY <1>4, <1>5, <1>6

LEMMA PushStarts ==
  ASSUME NEW m \in Nat, MasterTyped(m), down \in [Zones -> Seq(DownFrame(m))], NEW z \in Zones,
         NEW blob \in BlobTo(m), NEW gen \in Nat,
         NEW attempt \in 1 .. CX_ATTEMPTS, NEW id \in Ids(m), StartPush(z, blob, gen, attempt, id)
  PROVE  /\ Kept(m) /\ TakenFor(z, CFG, attempt)
         /\ cx'.state \in Pushing /\ cx'.wire.val = blob.val
         /\ casm' = casm
         /\ down' \in [Zones -> Seq(DownFrame(m))]
<1> DEFINE wire == [gen |-> gen, val |-> blob.val, src |-> "master"]
           S(state, seq) == [state |-> state, zone |-> z, kind |-> CFG, attempt |-> attempt, seq |-> seq,
                              wire |-> wire, id |-> id]
<1>1. q \in Seq(Entry(m)) /\ Len(q) <= RING_TRK_DEPTH /\ casm \in Asm(m)
  BY DEF MasterTyped
<1>2. wire \in BlobTo(m) /\ [blob EXCEPT !.gen = gen, !.src = "master"] = wire
  <2>1. blob.val \in {-1} \cup 0 .. m
    BY DEF BlobTo
  <2>2. wire \in BlobTo(m)
    BY <2>1 DEF BlobTo, Src
  <2>3. [blob EXCEPT !.gen = gen, !.src = "master"] \in BlobTo(m)
    BY DEF BlobTo, Src
  <2>4. [blob EXCEPT !.gen = gen, !.src = "master"] = wire
    <3> DEFINE w == [blob EXCEPT !.gen = gen, !.src = "master"]
    <3>1. w.gen = gen /\ w.val = blob.val /\ w.src = "master"
      BY DEF BlobTo
    <3> HIDE DEF w
    <3>2. ASSUME NEW v \in BlobTo(m) PROVE v = [gen |-> v.gen, val |-> v.val, src |-> v.src]
      BY DEF BlobTo
    <3>3. w = [gen |-> w.gen, val |-> w.val, src |-> w.src]
      BY <2>3, <3>2 DEF w
    <3> QED
      BY <3>1, <3>3 DEF w
  <2> QED
    BY <2>2, <2>4
<1>3. \A state \in CxState : \A seq \in Seqs : S(state, seq) \in Slot(m)
  <2> HIDE DEF wire
  <2> QED
    BY <1>2, Bounds DEF Slot, Zones, Kinds
<1>4. 0 \in Seqs /\ Pushing \subseteq CxState /\ "RETRY_PUSH" \in Pushing /\ "PUSH_COMMIT" \in Pushing
  BY Bounds DEF Seqs, CxState, Pushing
<1>5. casm' = casm
  BY DEF StartPush
<1>6. down' = [down EXCEPT ![z] = @ \o ChunkFrames(CFG, wire)]
  BY <1>2 DEF StartPush
<1>7. ChunkFrames(CFG, wire) \in Seq(DownFrame(m))
  BY <1>2, FramesTyped DEF Kinds
<1>8. down[z] \o ChunkFrames(CFG, wire) \in Seq(DownFrame(m))
  BY <1>7, JoinTyped
<1>9. down' \in [Zones -> Seq(DownFrame(m))]
  BY <1>6, <1>8
<1>10. CASE Full(q) /\ cx' = S("RETRY_PUSH", 0) /\ q' = q
  <2>1. cx' \in Slot(m)
    BY <1>3, <1>4, <1>10
  <2> QED
    BY <1>1, <1>4, <1>5, <1>9, <1>10, <2>1 DEF Kept, TakenFor
<1>11. CASE /\ Takes(q) /\ cx' = S("PUSH_COMMIT", NextSeq)
            /\ q' = Submitted(q, Tracked(z, "CFG_COMMIT", gen))
  <2>1. FreeSeqs # {}
    BY <1>11 DEF Takes
  <2>2. NextSeq \in Seqs
    BY <2>1, NextSeqFree, Bounds DEF Seqs
  <2>3. Tracked(z, "CFG_COMMIT", gen) \in Entry(m)
    BY <2>2 DEF Tracked, Entry
  <2>4. Tracked(z, "CFG_COMMIT", gen).seq = NextSeq
    BY DEF Tracked
  <2>5. /\ q' \in Seq(Entry(m)) /\ Len(q') <= RING_TRK_DEPTH
        /\ SeqsOf(q') = SeqsOf(q) \cup {NextSeq}
        /\ NextSeq # 0 /\ NextSeq # fwd.seq
    BY <1>11, <2>3, <2>4, Queued
  <2>6. cx' \in Slot(m)
    BY <1>3, <1>4, <1>11, <2>2
  <2>7. /\ cx'.seq = NextSeq /\ cx'.state = "PUSH_COMMIT" /\ cx'.zone = z /\ cx'.kind = CFG
        /\ cx'.attempt = attempt /\ cx'.wire.val = blob.val
    BY <1>11
  <2> QED
    BY <1>1, <1>4, <1>5, <1>9, <2>5, <2>6, <2>7 DEF Kept, TakenFor
<1>12. \/ Full(q) /\ cx' = S("RETRY_PUSH", 0) /\ q' = q
       \/ /\ Takes(q) /\ cx' = S("PUSH_COMMIT", NextSeq)
          /\ q' = Submitted(q, Tracked(z, "CFG_COMMIT", gen))
  BY <1>2 DEF StartPush, NoTransfer
<1> QED
  BY <1>10, <1>11, <1>12

LEMMA Fails ==
  ASSUME NEW m \in Nat, MasterTyped(m), SlotTrue, cx.state # "IDLE",
         NEW terminal \in BOOLEAN, FailOrRetry(terminal)
  PROVE  /\ cx' \in Slot(m) /\ casm' \in Asm(m) /\ cx'.seq = 0
         /\ \/ cx' = NoTransfer
            \/ /\ cx'.zone = cx.zone /\ cx'.kind = cx.kind /\ cx'.wire = cx.wire
               /\ cx'.attempt \in 1 .. CX_ATTEMPTS /\ casm' = casm
               /\ cx'.state = (IF cx.state = "PUSH_COMMIT" THEN "RETRY_PUSH" ELSE "RETRY_PULL")
<1>1. cx \in Slot(m) /\ casm \in Asm(m) /\ cx.attempt \in 1 .. CX_ATTEMPTS
  BY DEF MasterTyped, SlotTrue
<1>2. CASE cx' = NoTransfer /\ casm' = Empty
  BY <1>2, Blanks DEF NoTransfer
<1>3. CASE /\ cx.attempt < CX_ATTEMPTS /\ casm' = casm
           /\ cx' = [cx EXCEPT !.attempt = @ + 1, !.seq = 0,
                               !.state = IF @ = "PUSH_COMMIT" THEN "RETRY_PUSH" ELSE "RETRY_PULL"]
  <2>1. cx.attempt + 1 \in 1 .. CX_ATTEMPTS
    BY <1>1, <1>3, Bounds
  <2>2. cx' \in Slot(m)
    <3>1. cx = [state |-> cx.state, zone |-> cx.zone, kind |-> cx.kind, attempt |-> cx.attempt,
                seq |-> cx.seq, wire |-> cx.wire, id |-> cx.id]
      BY <1>1 DEF Slot
    <3>2. cx' = [state |-> IF cx.state = "PUSH_COMMIT" THEN "RETRY_PUSH" ELSE "RETRY_PULL",
                 zone |-> cx.zone, kind |-> cx.kind, attempt |-> cx.attempt + 1,
                 seq |-> 0, wire |-> cx.wire, id |-> cx.id]
      BY <1>3, <3>1
    <3>3. cx.attempt + 1 \in 0 .. CX_ATTEMPTS
      BY <2>1, Bounds
    <3> QED
      BY <1>1, <3>2, <3>3, Bounds DEF Slot, Seqs, CxState
  <2> QED
    BY <1>1, <1>3, <2>1, <2>2 DEF Slot
<1>4. \/ cx' = NoTransfer /\ casm' = Empty
      \/ /\ cx.attempt < CX_ATTEMPTS /\ casm' = casm
         /\ cx' = [cx EXCEPT !.attempt = @ + 1, !.seq = 0,
                             !.state = IF @ = "PUSH_COMMIT" THEN "RETRY_PUSH" ELSE "RETRY_PULL"]
  BY DEF FailOrRetry
<1> QED
  BY <1>2, <1>3, <1>4

-----------------------------------------------------------------------------
(* Telling the author of an edit something new.                             *)

EditsKept ==
  \A j \in Edits :
    /\ edit'[j].by = edit[j].by /\ edit'[j].zone = edit[j].zone
    /\ edit'[j].told = "ok" => edit[j].told = "ok"

LEMMA Telling ==
  ASSUME edit \in Log, NEW k \in Edits, NEW what \in Asserted, Tell(k, what)
  PROVE  /\ edit' \in Log
         /\ \A j \in Edits :
              /\ edit'[j].by = edit[j].by /\ edit'[j].zone = edit[j].zone
              /\ edit'[j].told = IF j = k THEN what ELSE edit[j].told
<1>1. edit' = [edit EXCEPT ![k].told = what]
  BY DEF Tell
<1> DEFINE E == [by : {"none", "fwd", "web", "local"}, zone : 0 .. ZONES, told : Asserted]
<1>2. ASSUME NEW e \in E, NEW w \in Asserted PROVE [e EXCEPT !.told = w] \in E
  OBVIOUS
<1>3. [edit[k] EXCEPT !.told = what] \in E
  BY <1>2 DEF Log
<1>4. edit' = [edit EXCEPT ![k] = [edit[k] EXCEPT !.told = what]]
  BY <1>1 DEF Log
<1>5. edit' \in Log
  <2> HIDE DEF E
  <2>1. edit \in [Edits -> E]
    BY DEF Log, E
  <2>2. [edit EXCEPT ![k] = [edit[k] EXCEPT !.told = what]] \in [Edits -> E]
    BY <1>3, <2>1
  <2> QED
    BY <1>4, <2>2 DEF Log, E
<1>6. ASSUME NEW j \in Edits
      PROVE  /\ edit'[j].by = edit[j].by /\ edit'[j].zone = edit[j].zone
             /\ edit'[j].told = IF j = k THEN what ELSE edit[j].told
  BY <1>4 DEF Log
<1> QED
  BY <1>5, <1>6

(* A tick that leaves every zone its cached value, or takes its web write.  *)
Served(m) ==
  /\ Kept(m) /\ SlotTrue' /\ AssemblyTrue'
  /\ cx'.seq # 0 => cx'.seq # fwd.seq
  /\ down' \in [Zones -> Seq(DownFrame(m))]
  /\ edit' \in Log /\ EditsKept
  /\ turn' \in Zones
  /\ cache' \in [Zones -> BlobTo(m)] /\ inbox' \in [Zones -> 0 .. m]
  /\ \A z \in Zones :
       \/ inbox'[z] = inbox[z] /\ cache'[z] = cache[z]
       \/ inbox[z] # 0 /\ inbox'[z] = 0 /\ cache'[z].val = inbox[z]

LEMMA PullTakes ==
  ASSUME NEW m \in Nat, MasterTyped(m), NEW z \in Zones, NEW kind \in Kinds,
         NEW attempt \in 1 .. CX_ATTEMPTS, NEW id \in Ids(m), StartPull(z, kind, attempt, id),
         inbox[z] = 0, kind = CFG => cache[z] = NoBlob, UNCHANGED <<cache, inbox, had>>
  PROVE  Kept(m) /\ SlotTrue' /\ AssemblyTrue' /\ (cx'.seq # 0 => cx'.seq # fwd.seq)
<1>1. /\ Kept(m) /\ TakenFor(z, kind, attempt)
      /\ cx'.state \in {"PULL_ACK", "RETRY_PULL"}
      /\ cx'.state = "PULL_ACK" => casm' = Empty
  BY PullStarts
<1>2. SlotTrue'
  BY <1>1 DEF TakenFor, SlotTrue, Pulling, Pushing
<1>3. AssemblyTrue'
  BY <1>1 DEF AssemblyTrue
<1> QED
  BY <1>1, <1>2, <1>3 DEF TakenFor

LEMMA PushTakes ==
  ASSUME NEW m \in Nat, MasterTyped(m), down \in [Zones -> Seq(DownFrame(m))], NEW z \in Zones,
         NEW blob \in BlobTo(m), NEW gen \in Nat,
         NEW attempt \in 1 .. CX_ATTEMPTS, NEW id \in Ids(m), StartPush(z, blob, gen, attempt, id),
         inbox'[z] = 0, cache'[z].val = blob.val, cache'[z] # NoBlob
  PROVE  /\ Kept(m) /\ SlotTrue' /\ AssemblyTrue' /\ (cx'.seq # 0 => cx'.seq # fwd.seq)
         /\ down' \in [Zones -> Seq(DownFrame(m))]
<1>1. /\ Kept(m) /\ TakenFor(z, CFG, attempt)
      /\ cx'.state \in Pushing /\ cx'.wire.val = blob.val
      /\ down' \in [Zones -> Seq(DownFrame(m))]
  BY PushStarts
<1>2. SlotTrue'
  BY <1>1 DEF TakenFor, SlotTrue, Pulling, Pushing
<1>3. AssemblyTrue'
  BY <1>1 DEF AssemblyTrue, Pushing
<1> QED
  BY <1>1, <1>2, <1>3 DEF TakenFor

LEMMA IdentityTyped ==
  ASSUME NEW m \in Nat, MasterTyped(m), NEW z \in Zones
  PROVE  /\ \A kind \in Kinds : Identity(z, kind) \in Ids(m)
         /\ PushGen(z) \in Nat
<1>1. /\ cache[z] \in BlobTo(m) /\ hwCache[z] \in BlobTo(m)
      /\ hb[z] \in Pair(m)
  BY DEF MasterTyped
<1>2. hb[z].cfg \in BlobTo(m) /\ hb[z].hw \in BlobTo(m)
  BY <1>1 DEF Pair
<1>3. hb[z].cfg.gen \in Nat /\ cache[z].gen \in Nat
  BY <1>1, <1>2 DEF BlobTo
<1> QED
  BY <1>1, <1>2, <1>3 DEF Identity, Ids, PushGen, Larger

LEMMA StartServes ==
  ASSUME NEW m \in Nat, MasterTyped(m), down \in [Zones -> Seq(DownFrame(m))], NEW z \in Zones, Start(z),
         inbox[z] = 0, turn' \in Zones, UNCHANGED <<cache, inbox, had>>
  PROVE  Served(m)
<1>1. /\ edit \in Log /\ Identity(z, CFG) \in Ids(m) /\ Identity(z, HW) \in Ids(m) /\ PushGen(z) \in Nat
      /\ 1 \in 1 .. CX_ATTEMPTS
      /\ cache[z] \in BlobTo(m) /\ cache \in [Zones -> BlobTo(m)] /\ inbox \in [Zones -> 0 .. m]
  <2>1. edit \in Log /\ cache \in [Zones -> BlobTo(m)] /\ inbox \in [Zones -> 0 .. m]
    BY DEF MasterTyped
  <2>2. Identity(z, CFG) \in Ids(m) /\ Identity(z, HW) \in Ids(m) /\ PushGen(z) \in Nat
    BY IdentityTyped DEF Kinds
  <2> QED
    BY <2>1, <2>2, Bounds
<1>2. ASSUME edit' = edit PROVE edit' \in Log /\ EditsKept
  BY <1>1, <1>2 DEF EditsKept
<1>3. CASE Decision(z) = "pull cfg" /\ StartPull(z, CFG, 1, Identity(z, CFG)) /\ UNCHANGED <<down, edit>>
  <2>1. cache[z] = NoBlob
    BY <1>3 DEF Decision
  <2>2. Kept(m) /\ SlotTrue' /\ AssemblyTrue' /\ (cx'.seq # 0 => cx'.seq # fwd.seq)
    BY <1>1, <1>3, <2>1, PullTakes DEF Kinds
  <2> QED
    BY <1>1, <1>2, <1>3, <2>2 DEF Served
<1>4. CASE Decision(z) = "pull hw" /\ StartPull(z, HW, 1, Identity(z, HW)) /\ UNCHANGED <<down, edit>>
  <2>1. HW # CFG
    BY DEF HW, CFG
  <2>2. Kept(m) /\ SlotTrue' /\ AssemblyTrue' /\ (cx'.seq # 0 => cx'.seq # fwd.seq)
    BY <1>1, <1>4, <2>1, PullTakes DEF Kinds
  <2> QED
    BY <1>1, <1>2, <1>4, <2>2 DEF Served
<1>5. CASE /\ Decision(z) = "push"
           /\ StartPush(z, cache[z], PushGen(z), 1, Identity(z, CFG))
           /\ IF hb[z].cfg.gen >= cache[z].gen /\ hb[z].cfg.val \in Edits
              THEN Tell(hb[z].cfg.val, "reverted")
              ELSE UNCHANGED edit
  <2>1. cache[z] # NoBlob
    BY <1>5 DEF Decision
  <2>2. /\ Kept(m) /\ SlotTrue' /\ AssemblyTrue' /\ (cx'.seq # 0 => cx'.seq # fwd.seq)
        /\ down' \in [Zones -> Seq(DownFrame(m))]
    BY <1>1, <1>5, <2>1, PushTakes
  <2>3. edit' \in Log /\ EditsKept
    <3>1. CASE hb[z].cfg.val \in Edits /\ Tell(hb[z].cfg.val, "reverted")
      <4>1. "reverted" \in Asserted /\ "reverted" # "ok"
        BY DEF Asserted
      <4> QED
        BY <1>1, <3>1, <4>1, Telling DEF EditsKept
    <3> QED
      BY <1>2, <1>5, <3>1
  <2> QED
    BY <1>1, <2>2, <2>3 DEF Served
<1> QED
  BY <1>3, <1>4, <1>5 DEF Start

-----------------------------------------------------------------------------
(* One tick.                                                                *)

LEMMA GreatestTo ==
  ASSUME NEW n \in Nat, NEW T \in SUBSET (0 .. n), T # {}
  PROVE  \E k \in T : \A j \in T : j <= k
<1> DEFINE U == {n - j : j \in T}
<1>1. U \in SUBSET Nat /\ U # {}
  <2>1. \A j \in T : n - j \in Nat
    OBVIOUS
  <2>2. PICK j \in T : TRUE
    OBVIOUS
  <2>3. n - j \in U
    BY <2>2
  <2> QED
    BY <2>1, <2>3
<1>2. PICK u \in U : \A j \in U : u <= j
  BY <1>1, LeastNat
<1>3. PICK k \in T : u = n - k
  BY <1>2
<1>4. ASSUME NEW j \in T PROVE j <= k
  <2>1. u <= n - j
    BY <1>2
  <2> QED
    BY <1>3, <2>1
<1> QED
  BY <1>3, <1>4

LEMMA ScanServes ==
  ASSUME NEW m \in Nat, MasterTyped(m), SlotTrue, AssemblyTrue, ForwardTrue,
         down \in [Zones -> Seq(DownFrame(m))], NEW absent \in SUBSET Zones, Scan(absent),
         cx.state = "IDLE", inbox = [z \in Zones |-> 0], UNCHANGED <<cache, inbox, had>>
  PROVE  Served(m)
<1> DEFINE At(i)    == ((turn - 1 + i) % ZONES) + 1
           Asked(z) == fresh[z] /\ z \notin absent /\ ~cooling[z]
           starts   == {i \in 0 .. ZONES - 1 : Asked(At(i)) /\ Decision(At(i)) # "none"}
           last     == IF starts = {} THEN ZONES - 1
                       ELSE CHOOSE i \in starts : \A j \in starts : i <= j
           asked    == {i \in 0 .. last : Asked(At(i))}
           looked   == CHOOSE i \in asked : \A j \in asked : j <= i
<1>1. turn \in Zones
  BY DEF MasterTyped
<1>2. ASSUME NEW x \in Int PROVE (x % ZONES) + 1 \in Zones
  BY Bounds DEF Zones
<1>3. ASSUME NEW i \in Int PROVE At(i) \in Zones
  BY <1>1, <1>2, Bounds DEF Zones
<1>4. last \in 0 .. ZONES - 1
  <2>1. CASE starts = {}
    BY <2>1, Bounds
  <2>2. CASE starts # {}
    <3>1. starts \in SUBSET Nat
      BY Bounds
    <3>2. \E i \in starts : \A j \in starts : i <= j
      BY <2>2, <3>1, LeastNat
    <3>3. last \in starts
      <4> HIDE DEF starts
      <4> QED
        BY <2>2, <3>2
    <3> QED
      BY <3>3
  <2> QED
    BY <2>1, <2>2
<1>5. ASSUME asked # {} PROVE looked \in asked
  <2>1. asked \in SUBSET (0 .. last) /\ last \in Nat
    BY <1>4
  <2>2. \E k \in asked : \A j \in asked : j <= k
    <3> HIDE DEF asked, last
    <3> QED
      BY <1>5, <2>1, GreatestTo
  <2> HIDE DEF asked
  <2> QED
    BY <2>2
<1>6. turn' \in Zones
  <2>1. turn' = IF asked = {} THEN turn ELSE (At(looked) % ZONES) + 1
    BY DEF Scan
  <2>2. CASE asked # {}
    <3>1. looked \in Int
      <4>1. asked \subseteq Int
        BY <1>4
      <4> HIDE DEF asked
      <4> QED
        BY <1>5, <2>2, <4>1
    <3>2. At(looked) \in Int
      <4> HIDE DEF looked
      <4> QED
        BY <1>3, <3>1, Bounds DEF Zones
    <3> HIDE DEF At, asked, looked
    <3> QED
      BY <1>2, <2>1, <2>2, <3>2
  <2> QED
    BY <1>1, <2>1, <2>2
<1>7. CASE starts = {}
  <2>1. UNCHANGED <<q, cx, casm, down, edit>>
    BY <1>7 DEF Scan, transfer
  <2>2. Kept(m) /\ edit' \in Log /\ cache' \in [Zones -> BlobTo(m)] /\ inbox' \in [Zones -> 0 .. m]
    BY <2>1 DEF Kept, MasterTyped
  <2>3. SlotTrue'
    BY <2>1 DEF SlotTrue
  <2>4. AssemblyTrue'
    BY <2>1 DEF AssemblyTrue
  <2>5. cx'.seq = 0
    BY <2>1 DEF SlotTrue, NoTransfer
  <2> HIDE DEF starts
  <2> QED
    BY <1>6, <2>1, <2>2, <2>3, <2>4, <2>5 DEF Served, EditsKept
<1>8. CASE starts # {}
  <2>1. Start(At(last))
    BY <1>8 DEF Scan
  <2>2. At(last) \in Zones
    <3> HIDE DEF last
    <3> QED
      BY <1>3, <1>4
  <2> HIDE DEF At, last, starts
  <2>3. inbox[At(last)] = 0
    BY <2>2
  <2> QED
    BY <1>6, <2>1, <2>2, <2>3, StartServes
<1> QED
  BY <1>7, <1>8

LEMMA WriteServes ==
  ASSUME NEW m \in Nat, MasterTyped(m), down \in [Zones -> Seq(DownFrame(m))], InboxTrue,
         NEW z \in Zones, TakeWrite(z), inbox[z] # 0, UNCHANGED had
  PROVE  Served(m)
<1> DEFINE blob == [gen |-> PushGen(z), val |-> inbox[z], src |-> "master"]
           id   == [hb |-> hb[z].cfg, cached |-> blob]
<1>1. /\ edit \in Log /\ cache \in [Zones -> BlobTo(m)] /\ inbox \in [Zones -> 0 .. m]
      /\ hb[z] \in Pair(m) /\ turn \in Zones
  BY DEF MasterTyped
<1>2. PushGen(z) \in Nat
  BY IdentityTyped
<1>3. blob \in BlobTo(m) /\ blob # NoBlob
  BY <1>1, <1>2 DEF BlobTo, NoBlob, Src
<1>4. id \in Ids(m)
  <2> HIDE DEF blob
  <2>1. hb[z].cfg \in BlobTo(m)
    BY <1>1 DEF Pair
  <2> QED
    BY <1>3, <2>1 DEF Ids
<1>5. /\ cache' = [cache EXCEPT ![z] = blob] /\ inbox' = [inbox EXCEPT ![z] = 0]
      /\ StartPush(z, blob, blob.gen, 1, id)
      /\ turn' = turn /\ edit' = edit
  BY DEF TakeWrite, gate
<1>6. blob.gen \in Nat /\ 1 \in 1 .. CX_ATTEMPTS /\ blob.val = inbox[z]
  BY <1>2, Bounds
<1> HIDE DEF blob, id
<1>7. cache' \in [Zones -> BlobTo(m)] /\ inbox' \in [Zones -> 0 .. m]
  BY <1>1, <1>3, <1>5
<1>8. inbox'[z] = 0 /\ cache'[z] = blob
  BY <1>1, <1>5
<1>9. /\ Kept(m) /\ SlotTrue' /\ AssemblyTrue' /\ (cx'.seq # 0 => cx'.seq # fwd.seq)
      /\ down' \in [Zones -> Seq(DownFrame(m))]
  BY <1>3, <1>4, <1>5, <1>6, <1>8, PushTakes
<1>10. \A y \in Zones : \/ inbox'[y] = inbox[y] /\ cache'[y] = cache[y]
                        \/ inbox[y] # 0 /\ inbox'[y] = 0 /\ cache'[y].val = inbox[y]
  BY <1>1, <1>5, <1>6, <1>8
<1> QED
  BY <1>1, <1>5, <1>7, <1>9, <1>10 DEF Served, EditsKept

LEMMA DecideServes ==
  ASSUME NEW m \in Nat, MasterInv(m), down \in [Zones -> Seq(DownFrame(m))],
         NEW absent \in SUBSET Zones, Decide(absent), UNCHANGED had
  PROVE  Served(m)
<1>1. MasterTyped(m) /\ SlotTrue /\ AssemblyTrue /\ ForwardTrue /\ InboxTrue
  BY DEF MasterInv
<1>2. CASE \E z \in Zones : inbox[z] # 0 /\ TakeWrite(z)
  BY <1>1, <1>2, WriteServes
<1>3. CASE /\ inbox = [z \in Zones |-> 0] /\ UNCHANGED <<cache, inbox>>
           /\ pushReq # 0 /\ cache[pushReq] # NoBlob
           /\ StartPush(pushReq, cache[pushReq], PushGen(pushReq), 1, Identity(pushReq, CFG))
           /\ UNCHANGED <<turn, edit>>
  <2>1. pushReq \in Zones
    BY <1>1, <1>3, Bounds DEF MasterTyped, Zones
  <2>2. /\ edit \in Log /\ cache \in [Zones -> BlobTo(m)] /\ inbox \in [Zones -> 0 .. m] /\ turn \in Zones
    BY <1>1 DEF MasterTyped
  <2>3. /\ PushGen(pushReq) \in Nat /\ Identity(pushReq, CFG) \in Ids(m)
    BY <1>1, <2>1, IdentityTyped DEF Kinds
  <2>4. 1 \in 1 .. CX_ATTEMPTS /\ cache[pushReq] \in BlobTo(m) /\ inbox'[pushReq] = 0
    BY <1>3, <2>1, <2>2, Bounds
  <2>5. /\ Kept(m) /\ SlotTrue' /\ AssemblyTrue' /\ (cx'.seq # 0 => cx'.seq # fwd.seq)
        /\ down' \in [Zones -> Seq(DownFrame(m))]
    BY <1>1, <1>3, <2>1, <2>3, <2>4, PushTakes
  <2> QED
    BY <1>3, <2>2, <2>5 DEF Served, EditsKept
<1>4. CASE inbox = [z \in Zones |-> 0] /\ UNCHANGED <<cache, inbox>> /\ Scan(absent)
  <2>1. cx.state = "IDLE"
    BY DEF Decide
  <2> QED
    BY <1>1, <1>4, <2>1, ScanServes
<1> QED
  BY <1>2, <1>3, <1>4 DEF Decide, gate

LEMMA RetryServes ==
  ASSUME NEW m \in Nat, MasterInv(m), down \in [Zones -> Seq(DownFrame(m))], Retry, UNCHANGED had
  PROVE  Served(m)
<1>1. MasterTyped(m) /\ SlotTrue
  BY DEF MasterInv
<1>2. /\ edit \in Log /\ cache \in [Zones -> BlobTo(m)] /\ inbox \in [Zones -> 0 .. m] /\ turn \in Zones
      /\ cx \in Slot(m)
  BY <1>1 DEF MasterTyped
<1>3. UNCHANGED <<cache, turn, inbox, edit>>
  BY DEF Retry, gate
<1>4. cx.kind \in Kinds /\ cx.id \in Ids(m) /\ cx.wire.gen \in Nat
  BY <1>2 DEF Slot, BlobTo
<1>5. cx.zone \in Zones /\ cx.attempt \in 1 .. CX_ATTEMPTS /\ inbox[cx.zone] = 0
  BY <1>1 DEF Retry, SlotTrue
<1>6. CASE /\ cx.state = "RETRY_PULL" /\ StartPull(cx.zone, cx.kind, cx.attempt, cx.id)
           /\ down' = down
  <2>1. cx.kind = CFG => cache[cx.zone] = NoBlob
    BY <1>1, <1>6 DEF SlotTrue, Pulling
  <2>2. Kept(m) /\ SlotTrue' /\ AssemblyTrue' /\ (cx'.seq # 0 => cx'.seq # fwd.seq)
    BY <1>1, <1>3, <1>4, <1>5, <1>6, <2>1, PullTakes
  <2> QED
    BY <1>2, <1>3, <1>6, <2>2 DEF Served, EditsKept
<1>7. CASE /\ cx.state = "RETRY_PUSH"
           /\ StartPush(cx.zone, cache[cx.zone], cx.wire.gen, cx.attempt, cx.id)
  <2>1. cache[cx.zone] # NoBlob /\ cache[cx.zone] \in BlobTo(m)
    BY <1>1, <1>2, <1>5, <1>7 DEF SlotTrue, Pushing
  <2>2. /\ Kept(m) /\ SlotTrue' /\ AssemblyTrue' /\ (cx'.seq # 0 => cx'.seq # fwd.seq)
        /\ down' \in [Zones -> Seq(DownFrame(m))]
    BY <1>1, <1>3, <1>4, <1>5, <1>7, <2>1, PushTakes
  <2> QED
    BY <1>2, <1>3, <2>2 DEF Served, EditsKept
<1> QED
  BY <1>6, <1>7 DEF Retry

(* A slot whose transfer failed: no number, and what it was for stays.      *)
LEMMA FailedSlot ==
  ASSUME NEW m \in Nat, MasterTyped(m), SlotTrue, AssemblyTrue,
         cx.state \in {"PULL_ACK", "PULL_STREAM", "PUSH_COMMIT"}, NEW terminal \in BOOLEAN, FailOrRetry(terminal), UNCHANGED <<cache, inbox, had>>
  PROVE  /\ cx' \in Slot(m) /\ casm' \in Asm(m) /\ SlotTrue' /\ AssemblyTrue' /\ cx'.seq = 0
<1>1. /\ cx' \in Slot(m) /\ casm' \in Asm(m) /\ cx'.seq = 0
      /\ \/ cx' = NoTransfer
         \/ /\ cx'.zone = cx.zone /\ cx'.kind = cx.kind /\ cx'.wire = cx.wire
            /\ cx'.attempt \in 1 .. CX_ATTEMPTS /\ casm' = casm
            /\ cx'.state = (IF cx.state = "PUSH_COMMIT" THEN "RETRY_PUSH" ELSE "RETRY_PULL")
  BY Fails
<1>2. CASE cx' = NoTransfer
  <2>1. cx'.state = "IDLE"
    BY <1>2 DEF NoTransfer
  <2> QED
    BY <1>1, <1>2, <2>1 DEF SlotTrue, AssemblyTrue, Pulling, Pushing
<1>3. CASE cx.state = "PUSH_COMMIT" /\ cx'.state = "RETRY_PUSH" /\ cx'.zone = cx.zone /\ cx'.kind = cx.kind
           /\ cx'.wire = cx.wire /\ cx'.attempt \in 1 .. CX_ATTEMPTS
  BY <1>1, <1>3 DEF SlotTrue, AssemblyTrue, Pulling, Pushing
<1>4. CASE cx.state \in {"PULL_ACK", "PULL_STREAM"} /\ cx'.state = "RETRY_PULL" /\ cx'.zone = cx.zone /\ cx'.kind = cx.kind
           /\ cx'.attempt \in 1 .. CX_ATTEMPTS
  BY <1>1, <1>4 DEF SlotTrue, AssemblyTrue, Pulling, Pushing
<1> QED
  BY <1>1, <1>2, <1>3, <1>4


LEMMA TickServes ==
  ASSUME NEW m \in Nat, MasterInv(m), down \in [Zones -> Seq(DownFrame(m))], Tick
  PROVE  Served(m)
<1>1. UNCHANGED had
  BY DEF Tick, zone, past
<1>2. MasterTyped(m) /\ SlotTrue /\ AssemblyTrue /\ ForwardTrue
  BY DEF MasterInv
<1>3. /\ q \in Seq(Entry(m)) /\ Len(q) <= RING_TRK_DEPTH /\ cx \in Slot(m) /\ casm \in Asm(m)
      /\ edit \in Log /\ cache \in [Zones -> BlobTo(m)] /\ inbox \in [Zones -> 0 .. m] /\ turn \in Zones
  BY <1>2 DEF MasterTyped
<1>4. CASE \E absent \in SUBSET Zones : Decide(absent)
  BY <1>1, <1>4, DecideServes
<1>5. CASE Retry
  BY <1>1, <1>5, RetryServes
<1>6. CASE StreamIdle
  <2>1. UNCHANGED <<q, cache, turn, inbox, down, edit>> /\ cx.state = "PULL_STREAM" /\ FailOrRetry(FALSE)
    BY <1>6 DEF StreamIdle, gate
  <2>2. cx' \in Slot(m) /\ casm' \in Asm(m) /\ SlotTrue' /\ AssemblyTrue' /\ cx'.seq = 0
    BY <1>1, <1>2, <2>1, FailedSlot
  <2> QED
    BY <1>3, <2>1, <2>2 DEF Served, Kept, EditsKept
<1>7. CASE Waiting
  <2>1. UNCHANGED <<q, cache, turn, inbox, down, edit, cx, casm>>
    BY <1>7 DEF Waiting, gate, transfer
  <2>2. SlotTrue'
    BY <1>2, <2>1 DEF SlotTrue
  <2>3. AssemblyTrue'
    BY <1>1, <1>2, <2>1 DEF AssemblyTrue
  <2>4. cx.seq # 0 => cx.seq # fwd.seq
    BY <1>2 DEF ForwardTrue, NoForward
  <2> QED
    BY <1>3, <2>1, <2>2, <2>3, <2>4 DEF Served, Kept, EditsKept
<1> QED
  BY <1>4, <1>5, <1>6, <1>7 DEF Tick

(* What holds of the master after such a tick.                              *)
LEMMA ServedKeeps ==
  ASSUME NEW m \in Nat, MasterInv(m), Served(m), UNCHANGED <<hwCache, hb, fwd, had>>, pushReq' = 0
  PROVE  MasterInv(m)'
<1>1. MasterTyped(m) /\ ForwardTrue /\ InboxTrue /\ CacheTrue
  BY DEF MasterInv
<1>2. MasterTyped(m)'
  BY <1>1, Bounds DEF MasterTyped, Served, Kept
<1>3. SlotTrue' /\ AssemblyTrue'
  BY DEF Served
<1>4. ForwardTrue'
  <2>1. fwd' = fwd /\ EditsKept /\ (cx'.seq # 0 => cx'.seq # fwd.seq)
    BY DEF Served
  <2> QED
    BY <1>1, <2>1 DEF ForwardTrue, EditsKept
<1> DEFINE WrittenNow(z, k) == k \in Edits /\ edit'[k].by = "web" /\ edit'[k].zone = z
           RanNow(z, k)     == \E b \in had'[z] : b.val = k
<1>5. \A z \in Zones :
        /\ \A k : Written(z, k) => WrittenNow(z, k)
        /\ \A k : Ran(z, k) => RanNow(z, k)
  BY DEF Written, Ran, Served, EditsKept
<1>6. ASSUME NEW z \in Zones
      PROVE  /\ inbox'[z] # 0 => WrittenNow(z, inbox'[z]) /\ inbox'[z] > cache'[z].val
             /\ cache'[z] # NoBlob => RanNow(z, cache'[z].val) \/ WrittenNow(z, cache'[z].val)
  <2> HIDE DEF WrittenNow, RanNow
  <2>1. inbox[z] # 0 => Written(z, inbox[z]) /\ inbox[z] > cache[z].val
    BY <1>1 DEF InboxTrue
  <2>2. cache[z] # NoBlob => Ran(z, cache[z].val) \/ Written(z, cache[z].val)
    BY <1>1 DEF CacheTrue
  <2>3. \/ inbox'[z] = inbox[z] /\ cache'[z] = cache[z]
        \/ inbox[z] # 0 /\ inbox'[z] = 0 /\ cache'[z].val = inbox[z]
    BY DEF Served
  <2> QED
    BY <1>5, <2>1, <2>2, <2>3
<1>7. InboxTrue' /\ CacheTrue'
  BY <1>6 DEF InboxTrue, CacheTrue, Written, Ran
<1> QED
  BY <1>2, <1>3, <1>4, <1>7 DEF MasterInv

-----------------------------------------------------------------------------
(* An answered entry of the queue, or one given up.                         *)

SomeoneToldOk == \E j \in Edits : edit[j].told # "ok" /\ edit'[j].told = "ok"

(* What is cached keeps its value or goes, and goes only if a forwarded SET *)
(* was answered OK.                                                         *)
Answered(m) ==
  /\ Kept(m) /\ SlotTrue' /\ AssemblyTrue' /\ ForwardTrue'
  /\ cache' \in [Zones -> BlobTo(m)] /\ hwCache' \in [Zones -> BlobTo(m)]
  /\ fwd' \in Fwd(m) /\ edit' \in Log
  /\ \A j \in Edits : edit'[j].by = edit[j].by /\ edit'[j].zone = edit[j].zone
  /\ \A z \in Zones :
       /\ cache'[z] = NoBlob \/ (cache[z] # NoBlob /\ cache'[z].val = cache[z].val)
       /\ cache'[z].val = cache[z].val \/ SomeoneToldOk

LEMMA SlotWithout ==
  ASSUME NEW m \in Nat, MasterTyped(m), q # <<>>
  PROVE  /\ Tail(q) \in Seq(Entry(m)) /\ Len(Tail(q)) <= RING_TRK_DEPTH
         /\ SlotTrue /\ cx.seq # q[1].seq => (cx.seq # 0 => cx.seq \in SeqsOf(Tail(q)))
<1>1. q \in Seq(Entry(m)) /\ Len(q) <= RING_TRK_DEPTH /\ RING_TRK_DEPTH \in Nat
  BY TrkAssumption DEF MasterTyped
<1>2. Tail(q) \in Seq(Entry(m)) /\ Len(Tail(q)) = Len(q) - 1
  BY <1>1, TailTyped
<1>3. Len(Tail(q)) <= RING_TRK_DEPTH
  BY <1>1, <1>2
<1>4. SeqsOf(q) \subseteq SeqsOf(Tail(q)) \cup {q[1].seq}
  BY <1>1, SeqsOfTail
<1> QED
  BY <1>2, <1>3, <1>4 DEF SlotTrue

LEMMA TransferAnswered ==
  ASSUME NEW m \in Nat, MasterInv(m), q # <<>>, NEW status, cx.seq = q[1].seq,
         OnTransferEvent(status), q' = Tail(q), UNCHANGED <<fwd, edit, inbox, had>>
  PROVE  Answered(m)
<1>1. MasterTyped(m) /\ SlotTrue /\ AssemblyTrue /\ ForwardTrue
  BY DEF MasterInv
<1>2. /\ cx \in Slot(m) /\ casm \in Asm(m) /\ fwd \in Fwd(m) /\ edit \in Log
      /\ cache \in [Zones -> BlobTo(m)] /\ hwCache \in [Zones -> BlobTo(m)]
  BY <1>1 DEF MasterTyped
<1>3. q' \in Seq(Entry(m)) /\ Len(q') <= RING_TRK_DEPTH
  BY <1>1, SlotWithout
<1>4. /\ cx' \in Slot(m) /\ casm' \in Asm(m) /\ SlotTrue' /\ AssemblyTrue' /\ cx'.seq = 0
      /\ cache' \in [Zones -> BlobTo(m)] /\ hwCache' \in [Zones -> BlobTo(m)]
      /\ \A z \in Zones : \/ cache'[z] = cache[z]
                          \/ cache[z] # NoBlob /\ cache'[z].val = cache[z].val
  <2>1. CASE /\ cx.state = "PULL_ACK" /\ casm' = casm /\ UNCHANGED planes
             /\ cx' = [cx EXCEPT !.state = "PULL_STREAM", !.seq = 0]
    <3>1. /\ cx'.zone = cx.zone /\ cx'.kind = cx.kind /\ cx'.attempt = cx.attempt
          /\ cx'.seq = 0 /\ cx'.state = "PULL_STREAM"
      BY <1>2, <2>1 DEF Slot
    <3>2. cx' \in Slot(m)
      <4>1. cx' = [state |-> "PULL_STREAM", zone |-> cx.zone, kind |-> cx.kind, attempt |-> cx.attempt,
                   seq |-> 0, wire |-> cx.wire, id |-> cx.id]
        BY <1>2, <2>1 DEF Slot
      <4> QED
        BY <1>2, <4>1, Bounds DEF Slot, CxState, Seqs
    <3>3. SlotTrue'
      BY <1>1, <2>1, <3>1 DEF SlotTrue, Pulling, Pushing, planes
    <3>4. casm.kind = "none"
      BY <1>1, <2>1, Blanks DEF AssemblyTrue
    <3>5. AssemblyTrue'
      BY <2>1, <3>1, <3>4 DEF AssemblyTrue, CFG
    <3> QED
      BY <1>2, <2>1, <3>1, <3>2, <3>3, <3>5 DEF planes
  <2>2. CASE cx.state = "PULL_ACK" /\ FailOrRetry(FALSE) /\ UNCHANGED planes
    <3>1. cx' \in Slot(m) /\ casm' \in Asm(m) /\ SlotTrue' /\ AssemblyTrue' /\ cx'.seq = 0
      BY <1>1, <2>2, FailedSlot DEF planes
    <3> QED
      BY <1>2, <2>2, <3>1 DEF planes
  <2>3. CASE cx.state = "PUSH_COMMIT" /\ AcceptPush
    <3>1. /\ cache' = [cache EXCEPT ![cx.zone] = cx.wire] /\ hwCache' = hwCache
          /\ cx' = NoTransfer /\ casm' = casm
      BY <2>3 DEF AcceptPush, Synced
    <3>2. cx.zone \in Zones /\ cx.wire.val = cache[cx.zone].val /\ cache[cx.zone] # NoBlob
      BY <1>1, <2>3 DEF SlotTrue, Pushing
    <3>3. cx.wire \in BlobTo(m)
      BY <1>2 DEF Slot
    <3>4. cache' \in [Zones -> BlobTo(m)]
      BY <1>2, <3>1, <3>3
    <3>5. \A z \in Zones : \/ cache'[z] = cache[z]
                           \/ cache[z] # NoBlob /\ cache'[z].val = cache[z].val
      BY <1>2, <3>1, <3>2
    <3>6. cx' \in Slot(m)
      BY <3>1, Blanks
    <3>7. cx'.state = "IDLE" /\ cx'.seq = 0
      BY <3>1 DEF NoTransfer
    <3>8. SlotTrue' /\ AssemblyTrue'
      BY <3>1, <3>7 DEF SlotTrue, AssemblyTrue, Pulling, Pushing
    <3> QED
      BY <1>2, <3>1, <3>4, <3>5, <3>6, <3>7, <3>8
  <2>4. CASE cx.state = "PUSH_COMMIT" /\ FailOrRetry(status \in {"version", "invalid"}) /\ UNCHANGED planes
    <3>1. PICK terminal \in BOOLEAN : FailOrRetry(terminal)
      <4>1. CASE status \in {"version", "invalid"}
        <5>1. FailOrRetry(TRUE)
          BY <2>4, <4>1 DEF FailOrRetry
        <5> QED
          BY <5>1
      <4>2. CASE status \notin {"version", "invalid"}
        <5>1. FailOrRetry(FALSE)
          BY <2>4, <4>2 DEF FailOrRetry
        <5> QED
          BY <5>1
      <4> QED
        BY <4>1, <4>2
    <3>2. cx' \in Slot(m) /\ casm' \in Asm(m) /\ SlotTrue' /\ AssemblyTrue' /\ cx'.seq = 0
      BY <1>1, <2>4, <3>1, FailedSlot DEF planes
    <3> QED
      BY <1>2, <2>4, <3>2 DEF planes
  <2> QED
    BY <2>1, <2>2, <2>3, <2>4 DEF OnTransferEvent
<1>5. ForwardTrue'
  BY <1>1, <1>4 DEF ForwardTrue
<1> QED
  BY <1>2, <1>3, <1>4, <1>5 DEF Answered, Kept

LEMMA ForwardAnswered ==
  ASSUME NEW m \in Nat, MasterInv(m), q # <<>>, NEW status \in Asserted,
         fwd.phase = "waiting", fwd.seq = q[1].seq, OnForwardEvent(status), UNCHANGED <<inbox, had>>
  PROVE  Answered(m)
<1>1. MasterTyped(m) /\ SlotTrue /\ AssemblyTrue /\ ForwardTrue
  BY DEF MasterInv
<1>2. /\ cx \in Slot(m) /\ casm \in Asm(m) /\ fwd \in Fwd(m) /\ edit \in Log
      /\ cache \in [Zones -> BlobTo(m)] /\ hwCache \in [Zones -> BlobTo(m)]
  BY <1>1 DEF MasterTyped
<1>3. /\ fwd.zone \in Zones /\ fwd.edit \in Edits /\ edit[fwd.edit].told # "ok"
      /\ fwd.seq # cx.seq
  BY <1>1 DEF ForwardTrue
<1>4. /\ Tail(q) \in Seq(Entry(m)) /\ Len(Tail(q)) <= RING_TRK_DEPTH
      /\ cx.seq # 0 => cx.seq \in SeqsOf(Tail(q))
  BY <1>1, <1>3, SlotWithout
<1>5. /\ edit' \in Log
      /\ \A j \in Edits :
           /\ edit'[j].by = edit[j].by /\ edit'[j].zone = edit[j].zone
           /\ edit'[j].told = IF j = fwd.edit THEN status ELSE edit[j].told
  BY <1>2, <1>3, Telling DEF OnForwardEvent
<1>6. fwd' = NoForward /\ fwd' \in Fwd(m) /\ ForwardTrue'
  BY Blanks DEF OnForwardEvent, ForwardTrue, NoForward
<1>7. CASE status # "ok"
  <2>1. q' = Tail(q) /\ UNCHANGED <<cache, hwCache, cx, casm>>
    BY <1>7 DEF OnForwardEvent, planes, transfer
  <2>2. SlotTrue'
    BY <1>1, <1>4, <2>1 DEF SlotTrue
  <2>3. AssemblyTrue'
    BY <1>1, <2>1 DEF AssemblyTrue
  <2> QED
    BY <1>2, <1>4, <1>5, <1>6, <2>1, <2>2, <2>3 DEF Answered, Kept
<1>8. CASE status = "ok"
  <2> DEFINE z == fwd.zone
  <2>1. /\ cache' = [cache EXCEPT ![z] = NoBlob] /\ hwCache' = [hwCache EXCEPT ![z] = NoBlob]
        /\ q' = Withdrawn(Tail(q), z)
        /\ IF cx.zone = z THEN cx' = NoTransfer /\ casm' = Empty ELSE cx' = cx /\ casm' = casm
    BY <1>8 DEF OnForwardEvent, Invalidate, transfer
  <2>2. cache' \in [Zones -> BlobTo(m)] /\ hwCache' \in [Zones -> BlobTo(m)]
    BY <1>2, <2>1, Blanks
  <2>3. SomeoneToldOk
    BY <1>3, <1>5, <1>8 DEF SomeoneToldOk
  <2>4. \A y \in Zones : cache'[y] = NoBlob \/ cache'[y] = cache[y]
    BY <1>2, <2>1
  <2>5. CASE cx.zone = z
    <3>1. q' \in Seq(Entry(m)) /\ Len(q') <= RING_TRK_DEPTH
      <4>1. CASE q' = Tail(q)
        BY <1>4, <4>1
      <4>2. CASE Cancellable(Tail(q), cx.seq) /\ q' = Cancelled(Tail(q), cx.seq)
        <5>1. PICK k \in DOMAIN Tail(q) : Tail(q)[k].seq = cx.seq
          BY <4>2 DEF Cancellable
        <5> DEFINE j == CHOOSE i \in DOMAIN Tail(q) : Tail(q)[i].seq = cx.seq
        <5>2. j \in DOMAIN Tail(q)
          BY <5>1
        <5>3. j \in 1 .. Len(Tail(q))
          <6>1. DOMAIN Tail(q) = 1 .. Len(Tail(q))
            BY <1>4
          <6> HIDE DEF j
          <6> QED
            BY <5>2, <6>1
        <5>4. q' = RemoveAt(Tail(q), j)
          BY <4>2 DEF Cancelled
        <5> HIDE DEF j
        <5>5. q' \in Seq(Entry(m)) /\ Len(q') = Len(Tail(q)) - 1
          BY <1>4, <5>3, <5>4, RemoveAtProperties
        <5>6. Len(Tail(q)) \in Nat /\ RING_TRK_DEPTH \in Nat
          BY <1>4, TrkAssumption
        <5> QED
          BY <1>4, <5>5, <5>6
      <4> QED
        BY <2>1, <4>1, <4>2 DEF Withdrawn
    <3>2. cx' = NoTransfer /\ casm' = Empty
      BY <2>1, <2>5
    <3>3. cx' \in Slot(m) /\ casm' \in Asm(m)
      BY <3>2, Blanks
    <3>4. cx'.state = "IDLE" /\ cx'.seq = 0
      BY <3>2 DEF NoTransfer
    <3>5. SlotTrue' /\ AssemblyTrue'
      BY <3>2, <3>4 DEF SlotTrue, AssemblyTrue, Pulling, Pushing
    <3> QED
      BY <1>2, <1>5, <1>6, <2>2, <2>3, <2>4, <3>1, <3>3, <3>5 DEF Answered, Kept
  <2>6. CASE cx.zone # z
    <3>1. q' = Tail(q) /\ cx' = cx /\ casm' = casm
      BY <2>1, <2>6 DEF Withdrawn
    <3>2. cx.zone \in Zones => cache'[cx.zone] = cache[cx.zone]
      BY <1>2, <2>1, <2>6
    <3>3. SlotTrue'
      BY <1>1, <1>4, <3>1, <3>2 DEF SlotTrue, Pulling, Pushing
    <3>4. AssemblyTrue'
      BY <1>1, <3>1 DEF AssemblyTrue
    <3> QED
      BY <1>2, <1>4, <1>5, <1>6, <2>2, <2>3, <2>4, <3>1, <3>3, <3>4 DEF Answered, Kept
  <2> QED
    BY <2>5, <2>6
<1> QED
  BY <1>7, <1>8

LEMMA AnsweredKeeps ==
  ASSUME NEW m \in Nat, MasterInv(m), Answered(m), UNCHANGED <<hb, turn, inbox, pushReq, had>>
  PROVE  MasterInv(m)'
<1>1. MasterTyped(m) /\ InboxTrue /\ CacheTrue
  BY DEF MasterInv
<1>2. MasterTyped(m)'
  BY <1>1 DEF MasterTyped, Answered, Kept
<1>3. SlotTrue' /\ AssemblyTrue' /\ ForwardTrue'
  BY DEF Answered
<1>4. InboxTrue'
  <2> SUFFICES ASSUME NEW z \in Zones, inbox[z] # 0
               PROVE  /\ inbox[z] \in Edits /\ edit'[inbox[z]].by = "web" /\ edit'[inbox[z]].zone = z
                      /\ inbox[z] > cache'[z].val
    BY DEF InboxTrue, Written
  <2>1. Written(z, inbox[z]) /\ inbox[z] > cache[z].val
    BY <1>1 DEF InboxTrue
  <2>2. inbox[z] \in Edits /\ edit'[inbox[z]].by = "web" /\ edit'[inbox[z]].zone = z
    BY <2>1 DEF Written, Answered
  <2>3. cache'[z] = NoBlob \/ cache'[z].val = cache[z].val
    BY DEF Answered
  <2>4. inbox[z] > NoBlob.val
    BY <1>1 DEF MasterTyped, NoBlob
  <2> QED
    BY <2>1, <2>2, <2>3, <2>4
<1>5. CacheTrue'
  <2> SUFFICES ASSUME NEW z \in Zones, cache'[z] # NoBlob
               PROVE  \/ \E b \in had[z] : b.val = cache'[z].val
                      \/ /\ cache'[z].val \in Edits
                         /\ edit'[cache'[z].val].by = "web" /\ edit'[cache'[z].val].zone = z
    BY DEF CacheTrue, Ran, Written
  <2>1. cache[z] # NoBlob /\ cache'[z].val = cache[z].val
    BY DEF Answered
  <2>2. Ran(z, cache[z].val) \/ Written(z, cache[z].val)
    BY <1>1, <2>1 DEF CacheTrue
  <2>3. CASE Written(z, cache[z].val)
    BY <2>1, <2>3 DEF Written, Answered
  <2> QED
    BY <2>1, <2>2, <2>3 DEF Ran
<1> QED
  BY <1>2, <1>3, <1>4, <1>5 DEF MasterInv

LEMMA SettleAnswers ==
  ASSUME NEW m \in Nat, MasterInv(m), q # <<>>, NEW status \in Asserted, Settle(status),
         UNCHANGED <<inbox, had>>
  PROVE  Answered(m)
<1>1. MasterTyped(m) /\ SlotTrue /\ AssemblyTrue /\ ForwardTrue
  BY DEF MasterInv
<1>2. CASE /\ cx.seq = q[1].seq /\ OnTransferEvent(status) /\ q' = Tail(q) /\ UNCHANGED <<fwd, edit>>
  BY <1>2, TransferAnswered
<1>3. CASE fwd.phase = "waiting" /\ fwd.seq = q[1].seq /\ OnForwardEvent(status)
  BY <1>3, ForwardAnswered
<1>4. CASE /\ cx.seq # q[1].seq
           /\ q' = Tail(q) /\ UNCHANGED <<cache, hwCache, cx, casm, fwd, edit>>
  <2>1. /\ Tail(q) \in Seq(Entry(m)) /\ Len(Tail(q)) <= RING_TRK_DEPTH
        /\ cx.seq # 0 => cx.seq \in SeqsOf(Tail(q))
    BY <1>1, <1>4, SlotWithout
  <2>2. SlotTrue'
    BY <1>1, <1>4, <2>1 DEF SlotTrue
  <2>3. AssemblyTrue'
    BY <1>1, <1>4 DEF AssemblyTrue
  <2>4. ForwardTrue'
    BY <1>1, <1>4 DEF ForwardTrue
  <2>5. Kept(m) /\ fwd' \in Fwd(m) /\ edit' \in Log
        /\ cache' \in [Zones -> BlobTo(m)] /\ hwCache' \in [Zones -> BlobTo(m)]
    BY <1>1, <1>4, <2>1 DEF MasterTyped, Kept
  <2> QED
    BY <1>4, <2>2, <2>3, <2>4, <2>5 DEF Answered
<1> QED
  BY <1>2, <1>3, <1>4 DEF Settle, planes, transfer

(* Nothing of the master's changes but what its heartbeats said.            *)
LEMMA MasterSteady ==
  ASSUME NEW m \in Nat, MasterInv(m), \A z \in Zones : had[z] \subseteq had'[z],
         hb' \in [Zones -> Pair(m)],
         UNCHANGED <<q, cache, hwCache, turn, inbox, pushReq, cx, casm, fwd, edit>>
  PROVE  MasterInv(m)'
<1>1. MasterTyped(m) /\ SlotTrue /\ ForwardTrue /\ InboxTrue /\ CacheTrue /\ AssemblyTrue
  BY DEF MasterInv
<1>2. MasterTyped(m)'
  BY <1>1 DEF MasterTyped
<1>3. SlotTrue'
  BY <1>1 DEF SlotTrue
<1>4. ForwardTrue' /\ InboxTrue'
  BY <1>1 DEF ForwardTrue, InboxTrue, Written
<1>5. CacheTrue'
  BY <1>1 DEF CacheTrue, Written, Ran
<1>6. AssemblyTrue'
  <2>1. cx.state = "PULL_STREAM" => cx.zone \in Zones
    BY <1>1 DEF SlotTrue
  <2> QED
    BY <1>1, <2>1 DEF AssemblyTrue
<1> QED
  BY <1>2, <1>3, <1>4, <1>5, <1>6 DEF MasterInv

-----------------------------------------------------------------------------
(* What arrives at the master.                                              *)

LEMMA Arrives ==
  ASSUME NEW m \in Nat, ZoneInv(m), NEW z \in Zones, NEW type, MasterTakes(z, type)
  PROVE  /\ Head(up[z]) \in Genuine(m, z) /\ Head(up[z]).type = type
         /\ up' \in [Zones -> Seq(UpFrame(m))]
         /\ \A y \in Zones : up'[y] \in Seq(Genuine(m, y))
<1>1. /\ up \in [Zones -> Seq(UpFrame(m))] /\ up[z] # <<>> /\ up' = [up EXCEPT ![z] = Tail(@)]
      /\ \A y \in Zones : up[y] \in Seq(Genuine(m, y))
      /\ Head(up[z]).type = type
  BY DEF ZoneInv, ZonesTyped, HistoryTrue, MasterTakes
<1>2. Head(up[z]) \in Genuine(m, z) /\ Tail(up[z]) \in Seq(Genuine(m, z))
  BY <1>1, TailTyped
<1>3. Tail(up[z]) \in Seq(UpFrame(m))
  BY <1>1, TailTyped
<1> QED
  BY <1>1, <1>2, <1>3

LEMMA ZonesSteady ==
  ASSUME NEW m \in Nat, ZoneInv(m), UNCHANGED zone,
         down' \in [Zones -> Seq(DownFrame(m))], up' \in [Zones -> Seq(UpFrame(m))],
         \A z \in Zones : up'[z] \in Seq(Genuine(m, z))
  PROVE  ZoneInv(m)'
<1>1. UNCHANGED <<cfg, hw, nvs, flushing, zasm, dup, had>>
  BY DEF zone, flash, past
<1>2. ZonesTyped(m)'
  BY <1>1 DEF ZoneInv, ZonesTyped
<1>3. \A z \in Zones : Genuine(m, z)' = Genuine(m, z)
  BY <1>1 DEF Genuine
<1>4. HistoryTrue(m)'
  BY <1>1, <1>3 DEF ZoneInv, HistoryTrue
<1> QED
  BY <1>2, <1>4 DEF ZoneInv

-----------------------------------------------------------------------------
(* One step, as the theorems below need it.                                 *)

LEMMA SyncNext ==
  ASSUME NEW m \in Nat, used' \in [edit : {m}, fault : Nat], m <= MAX_EDIT, MasterInv(m)', ZoneInv(m)'
  PROVE  SyncInv'
<1>1. used'.edit = m /\ Counted'
  BY Bounds DEF Counted
<1> QED
  BY <1>1 DEF SyncInv

(* What WriteKept asks of a step.                                           *)
WriteStays ==
  \A z \in Zones : \A k \in Edits :
    edit[k].by = "web" /\ Holds(z, k) /\ ~Holds(z, k)' =>
      Ran(z, k) \/ cache'[z].val > k \/ SomeoneToldOk

LEMMA StaysPut ==
  ASSUME UNCHANGED <<cache, inbox>>
  PROVE  WriteStays
BY DEF WriteStays, Holds

LEMMA AnsweredStays ==
  ASSUME NEW m \in Nat, Answered(m), UNCHANGED inbox
  PROVE  WriteStays
BY DEF WriteStays, Holds, Answered

LEMMA ServedStays ==
  ASSUME NEW m \in Nat, MasterInv(m), Served(m)
  PROVE  WriteStays
<1> SUFFICES ASSUME NEW z \in Zones, NEW k \in Edits, Holds(z, k), ~Holds(z, k)'
             PROVE  cache'[z].val > k
  BY DEF WriteStays
<1>1. inbox[z] # 0 /\ inbox'[z] = 0 /\ cache'[z].val = inbox[z]
  BY DEF Holds, Served
<1>2. cache[z].val = k
  BY <1>1 DEF Holds
<1>3. inbox[z] > cache[z].val
  BY <1>1 DEF MasterInv, InboxTrue
<1> QED
  BY <1>1, <1>2, <1>3

-----------------------------------------------------------------------------
(* The master's steps.                                                      *)

LEMMA WiresStill ==
  ASSUME NEW m \in Nat, ZoneInv(m), UNCHANGED <<down, up, zone>>
  PROVE  ZoneInv(m)'
<1>1. /\ down \in [Zones -> Seq(DownFrame(m))] /\ up \in [Zones -> Seq(UpFrame(m))]
      /\ \A z \in Zones : up[z] \in Seq(Genuine(m, z))
  BY DEF ZoneInv, ZonesTyped, HistoryTrue
<1> QED
  BY <1>1, ZonesSteady

LEMMA TickKeeps ==
  ASSUME NEW m \in Nat, MasterInv(m), ZoneInv(m), Tick
  PROVE  MasterInv(m)' /\ ZoneInv(m)' /\ WriteStays
<1>1. /\ down \in [Zones -> Seq(DownFrame(m))] /\ up \in [Zones -> Seq(UpFrame(m))]
      /\ \A z \in Zones : up[z] \in Seq(Genuine(m, z))
  BY DEF ZoneInv, ZonesTyped, HistoryTrue
<1>2. Served(m)
  BY <1>1, TickServes
<1>3. UNCHANGED <<hwCache, hb, fwd, up, zone, had>> /\ pushReq' = 0
  BY DEF Tick, zone, past
<1>4. MasterInv(m)'
  BY <1>2, <1>3, ServedKeeps
<1>5. ZoneInv(m)'
  <2>1. down' \in [Zones -> Seq(DownFrame(m))]
    BY <1>2 DEF Served
  <2> QED
    BY <1>1, <1>3, <2>1, ZonesSteady
<1>6. WriteStays
  BY <1>2, ServedStays
<1> QED
  BY <1>4, <1>5, <1>6

LEMMA GiveUpKeeps ==
  ASSUME NEW m \in Nat, MasterInv(m), ZoneInv(m), GiveUp
  PROVE  MasterInv(m)' /\ ZoneInv(m)' /\ WriteStays
<1>1. /\ q # <<>> /\ Settle("timeout") /\ "timeout" \in Asserted
      /\ UNCHANGED <<hb, turn, inbox, pushReq, had, down, up, zone>>
  BY DEF GiveUp, InFlight, Asserted, gate, inboxes, zone, past
<1>2. Answered(m)
  BY <1>1, SettleAnswers
<1>3. MasterInv(m)'
  BY <1>1, <1>2, AnsweredKeeps
<1>4. ZoneInv(m)'
  BY <1>1, WiresStill
<1> QED
  BY <1>1, <1>2, <1>3, <1>4, AnsweredStays

LEMMA OnAckKeeps ==
  ASSUME NEW m \in Nat, MasterInv(m), ZoneInv(m), NEW z \in Zones, OnAck(z)
  PROVE  MasterInv(m)' /\ ZoneInv(m)' /\ WriteStays
<1> DEFINE f == Head(up[z])
<1>1. /\ f \in Genuine(m, z) /\ f.type = "ACK"
      /\ up' \in [Zones -> Seq(UpFrame(m))]
      /\ \A y \in Zones : up'[y] \in Seq(Genuine(m, y))
  BY Arrives DEF OnAck
<1>2. f.status \in Asserted
  BY <1>1 DEF Genuine, UpFrame, ChunkFrame, Asserted
<1>3. UNCHANGED <<hb, turn, inbox, pushReq, down, zone, had>>
  BY DEF OnAck, gate, inboxes, zone, past
<1>4. down' \in [Zones -> Seq(DownFrame(m))]
  BY <1>3 DEF ZoneInv, ZonesTyped
<1>5. ZoneInv(m)'
  BY <1>1, <1>3, <1>4, ZonesSteady
<1>6. CASE AckMatches(q, f.seq) /\ Settle(f.status)
  <2>1. q # <<>>
    BY <1>6 DEF AckMatches, InFlight
  <2>2. Answered(m)
    BY <1>2, <1>3, <1>6, <2>1, SettleAnswers
  <2>3. MasterInv(m)'
    BY <1>3, <2>2, AnsweredKeeps
  <2> QED
    BY <1>3, <1>5, <2>2, <2>3, AnsweredStays
<1>7. CASE UNCHANGED <<q, planes, memory, transfer, fwd, edit>>
  <2>1. UNCHANGED <<q, cache, hwCache, cx, casm, fwd, edit>>
    BY <1>7 DEF planes, transfer
  <2>2. hb' \in [Zones -> Pair(m)]
    BY <1>3 DEF MasterInv, MasterTyped
  <2>3. MasterInv(m)'
    BY <1>3, <2>1, <2>2, MasterSteady
  <2> QED
    BY <1>3, <1>5, <2>1, <2>3, StaysPut
<1> QED
  BY <1>6, <1>7 DEF OnAck

LEMMA OnHeartbeatKeeps ==
  ASSUME NEW m \in Nat, MasterInv(m), ZoneInv(m), NEW z \in Zones, OnHeartbeat(z)
  PROVE  MasterInv(m)' /\ ZoneInv(m)' /\ WriteStays
<1> DEFINE f == Head(up[z])
<1>1. /\ f \in Genuine(m, z) /\ f.type = "HEARTBEAT"
      /\ up' \in [Zones -> Seq(UpFrame(m))]
      /\ \A y \in Zones : up'[y] \in Seq(Genuine(m, y))
  BY Arrives DEF OnHeartbeat
<1>2. f.arg \in Pair(m)
  BY <1>1 DEF Genuine, UpFrame, ChunkFrame
<1>3. /\ UNCHANGED <<q, cache, hwCache, turn, inbox, pushReq, cx, casm, fwd, edit, down, zone, had>>
      /\ hb' = [hb EXCEPT ![z] = f.arg]
  BY DEF OnHeartbeat, planes, inboxes, transfer, zone, past
<1>4. down' \in [Zones -> Seq(DownFrame(m))]
  BY <1>3 DEF ZoneInv, ZonesTyped
<1>5. ZoneInv(m)'
  BY <1>1, <1>3, <1>4, ZonesSteady
<1>6. hb' \in [Zones -> Pair(m)]
  BY <1>2, <1>3 DEF MasterInv, MasterTyped
<1>7. MasterInv(m)'
  BY <1>3, <1>6, MasterSteady
<1> QED
  BY <1>3, <1>5, <1>7, StaysPut

LEMMA OnChunkKeeps ==
  ASSUME NEW m \in Nat, MasterInv(m), ZoneInv(m), NEW z \in Zones, OnChunk(z)
  PROVE  MasterInv(m)' /\ ZoneInv(m)' /\ WriteStays
<1> DEFINE f   == Head(up[z])
           a   == f.arg
           fed == Fed(casm, a.kind, a.blob, a.idx)
<1>1. /\ f \in Genuine(m, z) /\ f.type = "CFG_CHUNK"
      /\ up' \in [Zones -> Seq(UpFrame(m))]
      /\ \A y \in Zones : up'[y] \in Seq(Genuine(m, y))
  BY Arrives DEF OnChunk
<1>2. /\ a.kind \in Kinds /\ a.idx \in Chunks /\ a.blob \in BlobTo(m)
      /\ a.kind = CFG => a.blob \in had[z]
  BY <1>1 DEF Genuine, UpFrame, ChunkFrame
<1>3. UNCHANGED <<q, hb, turn, inbox, pushReq, fwd, down, zone, had, edit>>
  BY DEF OnChunk, gate, inboxes, zone, past
<1>4. down' \in [Zones -> Seq(DownFrame(m))]
  BY <1>3 DEF ZoneInv, ZonesTyped
<1>5. ZoneInv(m)'
  BY <1>1, <1>3, <1>4, ZonesSteady
<1>6. MasterTyped(m) /\ SlotTrue /\ AssemblyTrue /\ ForwardTrue /\ InboxTrue /\ CacheTrue
  BY DEF MasterInv
<1>7. /\ cx \in Slot(m) /\ casm \in Asm(m)
      /\ cache \in [Zones -> BlobTo(m)] /\ hwCache \in [Zones -> BlobTo(m)]
  BY <1>6 DEF MasterTyped
<1>8. /\ fed \in Asm(m) /\ fed.kind = a.kind
      /\ \A j \in Chunks :
           \/ fed.got[j] \in {NoBlob, a.blob}
           \/ casm.kind = a.kind /\ fed.got[j] = casm.got[j]
  BY <1>2, <1>7, FedTyped
<1>9. CASE UNCHANGED <<cx, casm, memory, planes>>
  <2>1. UNCHANGED <<cache, hwCache>>
    BY <1>9 DEF planes
  <2>2. hb' \in [Zones -> Pair(m)]
    BY <1>3, <1>6 DEF MasterTyped
  <2>3. MasterInv(m)'
    BY <1>3, <1>9, <2>1, <2>2, MasterSteady
  <2> QED
    BY <1>3, <1>5, <2>1, <2>3, StaysPut
<1>10. ASSUME cx.state = "PULL_STREAM", cx.zone = z, fed.kind = CFG
       PROVE  \A j \in Chunks : fed.got[j] = NoBlob \/ fed.got[j] \in had[z]
  BY <1>2, <1>6, <1>8, <1>10 DEF AssemblyTrue
<1>11. ASSUME cx.state = "PULL_STREAM", cx.zone = z, casm' = fed, UNCHANGED <<cx, memory, planes>>
       PROVE  MasterInv(m)' /\ WriteStays
  <2> HIDE DEF fed
  <2>1. UNCHANGED <<cache, hwCache>>
    BY <1>11 DEF planes
  <2>2. MasterTyped(m)'
    BY <1>3, <1>6, <1>8, <1>11, <2>1 DEF MasterTyped
  <2>3. SlotTrue'
    BY <1>3, <1>6, <1>11, <2>1 DEF SlotTrue
  <2>4. ForwardTrue'
    BY <1>3, <1>6, <1>11 DEF ForwardTrue
  <2>5. InboxTrue' /\ CacheTrue'
    BY <1>3, <1>6, <2>1 DEF InboxTrue, CacheTrue, Written, Ran
  <2>6. AssemblyTrue'
    BY <1>3, <1>10, <1>11 DEF AssemblyTrue
  <2> QED
    BY <1>3, <2>1, <2>2, <2>3, <2>4, <2>5, <2>6, StaysPut DEF MasterInv
<1>12. ASSUME cx.state = "PULL_STREAM", cx.zone = z, FailOrRetry(FALSE), UNCHANGED planes
       PROVE  MasterInv(m)' /\ WriteStays
  <2>1. UNCHANGED <<cache, hwCache>>
    BY <1>12 DEF planes
  <2>2. cx' \in Slot(m) /\ casm' \in Asm(m) /\ SlotTrue' /\ AssemblyTrue' /\ cx'.seq = 0
    BY <1>3, <1>6, <1>12, <2>1, FailedSlot
  <2>3. MasterTyped(m)'
    BY <1>3, <1>6, <2>1, <2>2 DEF MasterTyped
  <2>4. ForwardTrue'
    BY <1>3, <1>6, <2>2 DEF ForwardTrue
  <2>5. InboxTrue' /\ CacheTrue'
    BY <1>3, <1>6, <2>1 DEF InboxTrue, CacheTrue, Written, Ran
  <2> QED
    BY <1>3, <2>1, <2>2, <2>3, <2>4, <2>5, StaysPut DEF MasterInv
<1>13. ASSUME cx.state = "PULL_STREAM", cx.zone = z, Complete(fed), fed.kind = cx.kind,
              IF cx.kind = CFG
              THEN cache' = [cache EXCEPT ![cx.zone] = fed.got[1]] /\ UNCHANGED hwCache
              ELSE hwCache' = [hwCache EXCEPT ![cx.zone] = fed.got[1]] /\ UNCHANGED cache,
              cx' = NoTransfer, casm' = Empty
       PROVE  MasterInv(m)' /\ WriteStays
  <2>1. 1 \in Chunks
    BY Bounds DEF Chunks
  <2>2. fed.got[1] \in BlobTo(m) /\ fed.got[1] # NoBlob
    BY <1>8, <1>13, <2>1 DEF Asm, Complete
  <2>3. /\ cx.kind = CFG => fed.got[1] \in had[z] /\ cache[z] = NoBlob
        /\ inbox[z] = 0
    BY <1>6, <1>10, <1>13, <2>1, <2>2 DEF SlotTrue, Pulling
  <2> HIDE DEF fed
  <2>4. cache' \in [Zones -> BlobTo(m)] /\ hwCache' \in [Zones -> BlobTo(m)]
    BY <1>7, <1>13, <2>2
  <2>5. \A y \in Zones : \/ cache'[y] = cache[y]
                         \/ y = z /\ cache'[y] \in had[y] /\ cache[y] = NoBlob
    BY <1>7, <1>13, <2>3
  <2>6. cx'.state = "IDLE" /\ cx'.seq = 0 /\ cx' \in Slot(m) /\ casm' \in Asm(m)
    BY <1>13, Blanks DEF NoTransfer
  <2>7. MasterTyped(m)'
    BY <1>3, <1>6, <2>4, <2>6 DEF MasterTyped
  <2>8. SlotTrue' /\ AssemblyTrue'
    BY <1>13, <2>6 DEF SlotTrue, AssemblyTrue, Pulling, Pushing
  <2>9. ForwardTrue'
    BY <1>3, <1>6, <2>6 DEF ForwardTrue
  <2>10. InboxTrue'
    BY <1>3, <1>6, <2>3, <2>5 DEF InboxTrue, Written
  <2>11. CacheTrue'
    BY <1>3, <1>6, <2>5 DEF CacheTrue, Written, Ran
  <2>12. WriteStays
    <3> SUFFICES ASSUME NEW y \in Zones, NEW k \in Edits, Holds(y, k), ~Holds(y, k)' PROVE FALSE
      BY DEF WriteStays
    <3>1. y = z /\ cache[y] = NoBlob /\ inbox[y] = 0
      BY <1>3, <2>3, <2>5 DEF Holds
    <3>2. k # 0 /\ k # NoBlob.val
      BY Bounds DEF Edits, NoBlob
    <3> QED
      BY <3>1, <3>2 DEF Holds
  <2> QED
    BY <2>7, <2>8, <2>9, <2>10, <2>11, <2>12 DEF MasterInv
<1>14. ASSUME cx.state = "PULL_STREAM", cx.zone = z, Complete(fed), AcceptPull(fed)
       PROVE  MasterInv(m)' /\ WriteStays
  <2> HIDE DEF fed
  <2> QED
    BY <1>12, <1>13, <1>14 DEF AcceptPull, Synced
<1>15. \/ UNCHANGED <<cx, casm, memory, planes>>
       \/ /\ cx.state = "PULL_STREAM" /\ cx.zone = z
          /\ \/ Complete(fed) /\ AcceptPull(fed)
             \/ casm' = fed /\ UNCHANGED <<cx, memory, planes>>
  BY DEF OnChunk, transfer
<1> HIDE DEF fed
<1> QED
  BY <1>5, <1>9, <1>11, <1>14, <1>15

LEMMA SendHeadKeeps ==
  ASSUME NEW m \in Nat, MasterInv(m), ZoneInv(m), SendHead
  PROVE  MasterInv(m)' /\ ZoneInv(m)' /\ WriteStays
<1> DEFINE h     == q[1]
           frame == [type |-> h.type, seq |-> h.seq, arg |-> h.arg]
<1>1. /\ MasterTyped(m) /\ SlotTrue /\ AssemblyTrue /\ ForwardTrue /\ InboxTrue /\ CacheTrue
      /\ q \in Seq(Entry(m)) /\ Len(q) <= RING_TRK_DEPTH
  BY DEF MasterInv, MasterTyped
<1>2. /\ q # <<>> /\ q' = Sent(q)
      /\ down' = [down EXCEPT ![h.dst] = Append(@, frame)]
      /\ UNCHANGED <<cache, hwCache, hb, turn, inbox, pushReq, cx, casm, fwd, edit, up, zone, had>>
  BY DEF SendHead, planes, gate, inboxes, transfer, zone, past
<1>3. h \in Entry(m)
  BY <1>1, <1>2, TailTyped
<1>4. h.dst \in Zones /\ frame \in DownFrame(m)
  BY <1>3 DEF Entry, DownFrame
<1>5. /\ q' \in Seq(Entry(m)) /\ Len(q') = Len(q)
      /\ SeqsOf(q') = SeqsOf(q)
  <2> DEFINE s == [h EXCEPT !.att = @ + 1]
  <2>1. s \in Entry(m) /\ s.seq = h.seq
    BY <1>3 DEF Entry
  <2>2. q' = [q EXCEPT ![1] = s]
    BY <1>2 DEF Sent
  <2> HIDE DEF s
  <2>3. /\ q' \in Seq(Entry(m)) /\ Len(q') = Len(q)
        /\ \A i \in 1 .. Len(q) : q'[i] = IF i = 1 THEN s ELSE q[i]
    <3>1. 1 \in 1 .. Len(q)
      BY <1>1, <1>2
    <3> QED
      BY <1>1, <2>1, <2>2, <3>1, ExceptSeq
  <2>4. DOMAIN q = 1 .. Len(q) /\ DOMAIN q' = 1 .. Len(q)
    BY <1>1, <2>3
  <2>5. \A i \in 1 .. Len(q) : q'[i].seq = q[i].seq
    BY <2>1, <2>3
  <2> QED
    BY <2>3, <2>4, <2>5 DEF SeqsOf
<1>6. ZoneInv(m)'
  <2> HIDE DEF frame
  <2>1. /\ down \in [Zones -> Seq(DownFrame(m))] /\ up \in [Zones -> Seq(UpFrame(m))]
        /\ \A z \in Zones : up[z] \in Seq(Genuine(m, z))
    BY DEF ZoneInv, ZonesTyped, HistoryTrue
  <2>2. Append(down[h.dst], frame) \in Seq(DownFrame(m))
    BY <1>4, <2>1, AppendTyped
  <2>3. down' \in [Zones -> Seq(DownFrame(m))]
    BY <1>2, <2>1, <2>2
  <2> QED
    BY <1>2, <2>1, <2>3, ZonesSteady
<1>7. MasterTyped(m)'
  BY <1>1, <1>2, <1>5 DEF MasterTyped
<1>8. SlotTrue'
  BY <1>1, <1>2, <1>5 DEF SlotTrue
<1>9. ForwardTrue' /\ AssemblyTrue'
  BY <1>1, <1>2 DEF ForwardTrue, AssemblyTrue
<1>10. InboxTrue' /\ CacheTrue'
  BY <1>1, <1>2 DEF InboxTrue, CacheTrue, Written, Ran
<1> QED
  BY <1>2, <1>6, <1>7, <1>8, <1>9, <1>10, StaysPut DEF MasterInv

-----------------------------------------------------------------------------
(* The operator's steps.  A new edit has the next number, and no value in   *)
(* the system is larger yet.                                                *)

OldEdits(m) == \A j \in Edits : j <= m => edit'[j] = edit[j]

LEMMA EditAdds ==
  ASSUME NEW m \in Nat, used \in [edit : {m}, fault : Nat], edit \in Log, NEW z \in Zones,
         NEW by \in {"fwd", "web", "local"}, NEW told \in Asserted, NewEdit(z, by, told)
  PROVE  /\ m + 1 <= MAX_EDIT /\ m + 1 \in Edits
         /\ used' \in [edit : {m + 1}, fault : Nat]
         /\ edit' \in Log /\ OldEdits(m)
         /\ edit'[m + 1] = [by |-> by, zone |-> z, told |-> told]
<1>1. /\ used.edit = m /\ used.fault \in Nat /\ m < MAX_EDIT
      /\ used' = [used EXCEPT !.edit = @ + 1]
      /\ edit' = [edit EXCEPT ![m + 1] = [by |-> by, zone |-> z, told |-> told]]
  BY DEF NewEdit
<1>2. m + 1 <= MAX_EDIT /\ m + 1 \in Edits
  BY <1>1, Bounds DEF Edits
<1>3. used' \in [edit : {m + 1}, fault : Nat]
  BY <1>1
<1> DEFINE e == [by |-> by, zone |-> z, told |-> told]
<1>4. e \in [by : {"none", "fwd", "web", "local"}, zone : 0 .. ZONES, told : Asserted]
  BY Bounds DEF Zones
<1> HIDE DEF e
<1>5. edit' = [edit EXCEPT ![m + 1] = e]
  BY <1>1 DEF e
<1>6. edit' \in Log /\ edit'[m + 1] = e
  BY <1>2, <1>4, <1>5 DEF Log
<1>7. OldEdits(m)
  BY <1>5 DEF OldEdits, Log
<1> QED
  BY <1>2, <1>3, <1>6, <1>7 DEF e

LEMMA OldHolds ==
  ASSUME NEW m \in Nat, MasterInv(m), OldEdits(m), \A z \in Zones : had[z] \subseteq had'[z],
         UNCHANGED cache
  PROVE  /\ CacheTrue'
         /\ \A z \in Zones : inbox[z] # 0 =>
              /\ inbox[z] \in Edits /\ edit'[inbox[z]].by = "web" /\ edit'[inbox[z]].zone = z
              /\ inbox[z] > cache'[z].val
         /\ fwd.phase # "idle" => edit'[fwd.edit].told # "ok"
<1>1. /\ cache \in [Zones -> BlobTo(m)] /\ inbox \in [Zones -> 0 .. m] /\ fwd.edit \in 0 .. m
      /\ InboxTrue /\ CacheTrue /\ ForwardTrue
  BY DEF MasterInv, MasterTyped, Fwd
<1>2. \A z \in Zones : cache[z].val <= m
  BY <1>1 DEF BlobTo
<1>3. CacheTrue'
  BY <1>1, <1>2 DEF CacheTrue, Ran, Written, OldEdits
<1>4. ASSUME NEW z \in Zones, inbox[z] # 0
      PROVE  /\ inbox[z] \in Edits /\ edit'[inbox[z]].by = "web" /\ edit'[inbox[z]].zone = z
             /\ inbox[z] > cache'[z].val
  BY <1>1, <1>4 DEF InboxTrue, Written, OldEdits
<1>5. fwd.phase # "idle" => edit'[fwd.edit].told # "ok"
  BY <1>1 DEF ForwardTrue, OldEdits
<1> QED
  BY <1>3, <1>4, <1>5

LEMMA ForwardKeeps ==
  ASSUME NEW m \in Nat, used \in [edit : {m}, fault : Nat], MasterInv(m), ZoneInv(m),
         NEW z \in Zones, Forward(z)
  PROVE  /\ m + 1 <= MAX_EDIT /\ used' \in [edit : {m + 1}, fault : Nat]
         /\ MasterInv(m + 1)' /\ ZoneInv(m + 1)' /\ WriteStays
<1> DEFINE n == m + 1
<1>1. /\ n \in Nat /\ m <= n
      /\ MasterTyped(n) /\ SlotTrue /\ AssemblyTrue /\ ZoneInv(n)
      /\ edit \in Log
  <2>1. n \in Nat /\ m <= n
    OBVIOUS
  <2> HIDE DEF n
  <2>2. MasterInv(n) /\ ZoneInv(n)
    BY <2>1, MasterGrows, ZonesGrow
  <2> QED
    BY <2>1, <2>2 DEF MasterInv, MasterTyped
<1>2. UNCHANGED <<cache, hwCache, hb, turn, inbox, pushReq, cx, casm, down, up, zone, had>>
  BY DEF Forward, planes, gate, inboxes, transfer, zone, past
<1>3. ASSUME NEW told \in Asserted, NewEdit(z, "fwd", told)
      PROVE  /\ n <= MAX_EDIT /\ n \in Edits /\ used' \in [edit : {n}, fault : Nat]
             /\ edit' \in Log /\ OldEdits(m) /\ edit'[n].told = told
             /\ CacheTrue' /\ InboxTrue'
  <2>1. /\ n <= MAX_EDIT /\ n \in Edits /\ used' \in [edit : {n}, fault : Nat]
        /\ edit' \in Log /\ OldEdits(m) /\ edit'[n].told = told
    <3>1. /\ n <= MAX_EDIT /\ n \in Edits /\ used' \in [edit : {n}, fault : Nat]
          /\ edit' \in Log /\ OldEdits(m)
          /\ edit'[n] = [by |-> "fwd", zone |-> z, told |-> told]
      <4>1. "fwd" \in {"fwd", "web", "local"}
        OBVIOUS
      <4> QED
        BY <1>1, <1>3, <4>1, EditAdds
    <3> QED
      BY <3>1
  <2>2. CacheTrue' /\ InboxTrue'
    BY <1>2, <2>1, OldHolds DEF InboxTrue, Written
  <2> QED
    BY <2>1, <2>2
<1>4. ZoneInv(n)' /\ WriteStays
  BY <1>1, <1>2, WiresStill, StaysPut
<1> HIDE DEF n
<1>5. CASE NewEdit(z, "fwd", "busy") /\ UNCHANGED <<q, fwd>>
  <2>1. /\ n <= MAX_EDIT /\ used' \in [edit : {n}, fault : Nat]
        /\ edit' \in Log /\ CacheTrue' /\ InboxTrue'
    BY <1>3, <1>5 DEF Asserted
  <2>2. MasterTyped(n)'
    BY <1>1, <1>2, <1>5, <2>1 DEF MasterTyped
  <2>3. SlotTrue' /\ AssemblyTrue'
    BY <1>1, <1>2, <1>5 DEF SlotTrue, AssemblyTrue
  <2>4. ForwardTrue'
    BY <1>5 DEF Forward, ForwardTrue, NoForward
  <2>5. MasterInv(n)'
    BY <2>1, <2>2, <2>3, <2>4 DEF MasterInv
  <2> QED
    BY <1>4, <2>1, <2>5 DEF n
<1>6. CASE /\ Takes(q) /\ NewEdit(z, "fwd", "none")
           /\ q' = Submitted(q, Tracked(z, "CMD", n))
           /\ fwd' = [phase |-> "submitted", seq |-> NextSeq, zone |-> z, edit |-> n]
  <2>1. /\ n <= MAX_EDIT /\ n \in Edits /\ used' \in [edit : {n}, fault : Nat]
        /\ edit' \in Log /\ CacheTrue' /\ InboxTrue' /\ edit'[n].told = "none"
    BY <1>3, <1>6 DEF Asserted
  <2>2. FreeSeqs # {}
    BY <1>6 DEF Takes
  <2>3. NextSeq \in Seqs
    BY <2>2, NextSeqFree, Bounds DEF Seqs
  <2>4. n \in 1 .. n
    BY <1>1 DEF n
  <2>5. Tracked(z, "CMD", n) \in Entry(n)
    BY <2>3, <2>4 DEF Tracked, Entry
  <2>6. Tracked(z, "CMD", n).seq = NextSeq
    BY DEF Tracked
  <2>7. /\ q' \in Seq(Entry(n)) /\ Len(q') <= RING_TRK_DEPTH
        /\ SeqsOf(q') = SeqsOf(q) \cup {NextSeq}
        /\ NextSeq # 0 /\ NextSeq # cx.seq
    BY <1>1, <1>6, <2>5, <2>6, Queued
  <2>8. fwd' \in Fwd(n)
    BY <1>1, <1>6, <2>3, <2>4, Bounds DEF Fwd, Zones
  <2>9. MasterTyped(n)'
    BY <1>1, <1>2, <2>1, <2>7, <2>8 DEF MasterTyped
  <2>10. SlotTrue' /\ AssemblyTrue'
    BY <1>1, <1>2, <2>7 DEF SlotTrue, AssemblyTrue
  <2>11. ForwardTrue'
    BY <1>2, <1>6, <2>1, <2>7 DEF ForwardTrue
  <2>12. MasterInv(n)'
    BY <2>1, <2>9, <2>10, <2>11 DEF MasterInv
  <2> QED
    BY <1>4, <2>1, <2>12 DEF n
<1>7. used.edit + 1 = n
  BY DEF n
<1> QED
  BY <1>5, <1>6, <1>7 DEF Forward

LEMMA WebWriteKeeps ==
  ASSUME NEW m \in Nat, used \in [edit : {m}, fault : Nat], MasterInv(m), ZoneInv(m),
         NEW z \in Zones, WebWrite(z)
  PROVE  /\ m + 1 <= MAX_EDIT /\ used' \in [edit : {m + 1}, fault : Nat]
         /\ MasterInv(m + 1)' /\ ZoneInv(m + 1)' /\ WriteStays
<1> DEFINE n == m + 1
<1>1. /\ n \in Nat /\ m <= n
      /\ MasterTyped(n) /\ SlotTrue /\ AssemblyTrue /\ ForwardTrue /\ ZoneInv(n)
      /\ edit \in Log
  <2>1. n \in Nat /\ m <= n
    OBVIOUS
  <2> HIDE DEF n
  <2>2. MasterInv(n) /\ ZoneInv(n)
    BY <2>1, MasterGrows, ZonesGrow
  <2> QED
    BY <2>1, <2>2 DEF MasterInv, MasterTyped
<1>2. /\ UNCHANGED <<q, cache, hwCache, hb, turn, pushReq, cx, casm, fwd, down, up, zone, had>>
      /\ ~(cx.state # "IDLE" /\ cx.zone = z) /\ inbox[z] = 0
      /\ NewEdit(z, "web", "accepted") /\ inbox' = [inbox EXCEPT ![z] = n]
  BY DEF WebWrite, planes, gate, transfer, zone, past
<1>3. /\ n <= MAX_EDIT /\ n \in Edits /\ used' \in [edit : {n}, fault : Nat]
      /\ edit' \in Log /\ OldEdits(m) /\ edit'[n] = [by |-> "web", zone |-> z, told |-> "accepted"]
  BY <1>1, <1>2, EditAdds DEF Asserted
<1>4. /\ CacheTrue'
      /\ \A y \in Zones : inbox[y] # 0 =>
           /\ inbox[y] \in Edits /\ edit'[inbox[y]].by = "web" /\ edit'[inbox[y]].zone = y
           /\ inbox[y] > cache'[y].val
      /\ fwd.phase # "idle" => edit'[fwd.edit].told # "ok"
  BY <1>2, <1>3, OldHolds
<1>5. ZoneInv(n)'
  BY <1>1, <1>2, WiresStill
<1>6. n > cache[z].val
  <2>1. cache[z] \in BlobTo(m)
    BY DEF MasterInv, MasterTyped
  <2> QED
    BY <2>1 DEF BlobTo
<1> HIDE DEF n
<1>7. inbox \in [Zones -> 0 .. n] /\ inbox' \in [Zones -> 0 .. n]
  <2>1. inbox \in [Zones -> 0 .. n]
    BY <1>1 DEF MasterTyped
  <2> QED
    BY <1>1, <1>2, <2>1
<1>8. MasterTyped(n)'
  BY <1>1, <1>2, <1>3, <1>7 DEF MasterTyped
<1>9. SlotTrue'
  <2>1. cx.state # "IDLE" => inbox'[cx.zone] = 0
    BY <1>1, <1>2, <1>7 DEF SlotTrue
  <2> QED
    BY <1>1, <1>2, <2>1 DEF SlotTrue
<1>10. AssemblyTrue'
  BY <1>1, <1>2 DEF AssemblyTrue
<1>11. ForwardTrue'
  BY <1>1, <1>2, <1>4 DEF ForwardTrue
<1>12. InboxTrue'
  <2>1. ASSUME NEW y \in Zones, inbox'[y] # 0
        PROVE  /\ inbox'[y] \in Edits /\ edit'[inbox'[y]].by = "web" /\ edit'[inbox'[y]].zone = y
               /\ inbox'[y] > cache'[y].val
    <3>1. CASE y = z
      BY <1>2, <1>3, <1>6, <1>7, <3>1
    <3>2. CASE y # z
      BY <1>2, <1>4, <1>7, <2>1, <3>2
    <3> QED
      BY <3>1, <3>2
  <2> QED
    BY <2>1 DEF InboxTrue, Written
<1>13. WriteStays
  <2> SUFFICES ASSUME NEW y \in Zones, NEW k \in Edits, Holds(y, k) PROVE Holds(y, k)'
    BY DEF WriteStays
  <2>1. k # 0
    BY DEF Edits
  <2> QED
    BY <1>2, <1>7, <2>1 DEF Holds
<1> QED
  BY <1>3, <1>4, <1>5, <1>8, <1>9, <1>10, <1>11, <1>12, <1>13 DEF MasterInv, n

LEMMA ArmKeeps ==
  ASSUME NEW m \in Nat, MasterInv(m), ZoneInv(m), ArmForward
  PROVE  MasterInv(m)' /\ ZoneInv(m)' /\ WriteStays
<1>1. MasterTyped(m) /\ SlotTrue /\ AssemblyTrue /\ ForwardTrue /\ InboxTrue /\ CacheTrue /\ fwd \in Fwd(m)
  BY DEF MasterInv, MasterTyped
<1>2. /\ UNCHANGED <<q, cache, hwCache, hb, turn, inbox, pushReq, cx, casm, down, up, zone, had, edit>>
      /\ fwd.phase = "submitted" /\ fwd' = [fwd EXCEPT !.phase = "waiting"]
  BY DEF ArmForward, planes, gate, inboxes, transfer, zone, past
<1>3. /\ fwd'.seq = fwd.seq /\ fwd'.zone = fwd.zone /\ fwd'.edit = fwd.edit
      /\ fwd'.phase = "waiting" /\ fwd' \in Fwd(m)
  BY <1>1, <1>2 DEF Fwd
<1>4. MasterTyped(m)'
  BY <1>1, <1>2, <1>3 DEF MasterTyped
<1>5. SlotTrue' /\ AssemblyTrue'
  BY <1>1, <1>2 DEF SlotTrue, AssemblyTrue
<1>6. ForwardTrue'
  BY <1>1, <1>2, <1>3 DEF ForwardTrue
<1>7. InboxTrue' /\ CacheTrue'
  BY <1>1, <1>2 DEF InboxTrue, CacheTrue, Written, Ran
<1> QED
  BY <1>2, <1>4, <1>5, <1>6, <1>7, WiresStill, StaysPut DEF MasterInv

LEMMA ForwardTimeoutKeeps ==
  ASSUME NEW m \in Nat, MasterInv(m), ZoneInv(m), ForwardTimeout
  PROVE  MasterInv(m)' /\ ZoneInv(m)' /\ WriteStays
<1>1. MasterTyped(m) /\ SlotTrue /\ AssemblyTrue /\ ForwardTrue /\ InboxTrue /\ CacheTrue /\ edit \in Log
  BY DEF MasterInv, MasterTyped
<1>2. /\ UNCHANGED <<q, cache, hwCache, hb, turn, inbox, pushReq, cx, casm, down, up, zone, had>>
      /\ fwd.phase = "waiting" /\ fwd' = NoForward /\ Tell(fwd.edit, "timeout")
  BY DEF ForwardTimeout, planes, gate, inboxes, transfer, zone, past
<1>3. fwd.edit \in Edits
  BY <1>1, <1>2 DEF ForwardTrue
<1>4. /\ edit' \in Log
      /\ \A j \in Edits : edit'[j].by = edit[j].by /\ edit'[j].zone = edit[j].zone
  BY <1>1, <1>2, <1>3, Telling DEF Asserted
<1>5. MasterTyped(m)'
  BY <1>1, <1>2, <1>4, Blanks DEF MasterTyped
<1>6. SlotTrue' /\ AssemblyTrue'
  BY <1>1, <1>2 DEF SlotTrue, AssemblyTrue
<1>7. ForwardTrue'
  BY <1>2 DEF ForwardTrue, NoForward
<1>8. InboxTrue' /\ CacheTrue'
  BY <1>1, <1>2, <1>4 DEF InboxTrue, CacheTrue, Written, Ran
<1> QED
  BY <1>2, <1>5, <1>6, <1>7, <1>8, WiresStill, StaysPut DEF MasterInv

LEMMA ManualPushKeeps ==
  ASSUME NEW m \in Nat, MasterInv(m), ZoneInv(m), NEW z \in Zones, ManualPush(z)
  PROVE  MasterInv(m)' /\ ZoneInv(m)' /\ WriteStays
<1>1. MasterTyped(m) /\ SlotTrue /\ AssemblyTrue /\ ForwardTrue /\ InboxTrue /\ CacheTrue
  BY DEF MasterInv
<1>2. /\ UNCHANGED <<q, cache, hwCache, hb, turn, inbox, cx, casm, fwd, down, up, zone, had, edit>>
      /\ pushReq' = z
  BY DEF ManualPush, planes, gate, transfer, zone, past
<1>3. MasterTyped(m)'
  BY <1>1, <1>2, Bounds DEF MasterTyped, Zones
<1>4. SlotTrue' /\ AssemblyTrue' /\ ForwardTrue'
  BY <1>1, <1>2 DEF SlotTrue, AssemblyTrue, ForwardTrue
<1>5. InboxTrue' /\ CacheTrue'
  BY <1>1, <1>2 DEF InboxTrue, CacheTrue, Written, Ran
<1> QED
  BY <1>2, <1>3, <1>4, <1>5, WiresStill, StaysPut DEF MasterInv

-----------------------------------------------------------------------------
(* The zones' steps: the master's side rests.                               *)

MasterRests ==
  /\ UNCHANGED <<q, cache, hwCache, hb, turn, inbox, pushReq, cx, casm, fwd, edit>>
  /\ \A z \in Zones : had[z] \subseteq had'[z]

LEMMA RestsKeeps ==
  ASSUME NEW m \in Nat, MasterInv(m), MasterRests
  PROVE  MasterInv(m)' /\ WriteStays
<1>1. hb' \in [Zones -> Pair(m)]
  BY DEF MasterInv, MasterTyped, MasterRests
<1> QED
  BY <1>1, MasterSteady, StaysPut DEF MasterRests

(* A zone moves to a configuration, or takes a frame, or sends some.        *)
LEMMA GoesTyped ==
  ASSUME NEW m \in Nat, ZoneInv(m), NEW z \in Zones, NEW blob \in BlobTo(m), Goes(z, blob)
  PROVE  /\ cfg' \in [Zones -> BlobTo(m)] /\ had' \in [Zones -> SUBSET BlobTo(m)]
         /\ \A y \in Zones : had[y] \subseteq had'[y] /\ cfg'[y] \in had'[y]
<1>1. /\ cfg \in [Zones -> BlobTo(m)] /\ had \in [Zones -> SUBSET BlobTo(m)]
      /\ \A y \in Zones : cfg[y] \in had[y]
  BY DEF ZoneInv, ZonesTyped, HistoryTrue
<1>2. cfg' = [cfg EXCEPT ![z] = blob] /\ had' = [had EXCEPT ![z] = had[z] \cup {blob}]
  BY <1>1 DEF Goes
<1>3. had[z] \cup {blob} \in SUBSET BlobTo(m)
  BY <1>1
<1>4. had' \in [Zones -> SUBSET BlobTo(m)]
  BY <1>1, <1>2, <1>3
<1> QED
  BY <1>1, <1>2, <1>4

LEMMA Taken ==
  ASSUME NEW m \in Nat, ZoneInv(m), NEW z \in Zones, NEW type, ZoneTakes(z, type)
  PROVE  /\ Head(down[z]) \in DownFrame(m) /\ Head(down[z]).type = type
         /\ down' \in [Zones -> Seq(DownFrame(m))]
<1>1. /\ down \in [Zones -> Seq(DownFrame(m))] /\ down[z] # <<>> /\ down' = [down EXCEPT ![z] = Tail(@)]
      /\ Head(down[z]).type = type
  BY DEF ZoneInv, ZonesTyped, ZoneTakes
<1>2. Head(down[z]) \in DownFrame(m) /\ Tail(down[z]) \in Seq(DownFrame(m))
  BY <1>1, TailTyped
<1> QED
  BY <1>1, <1>2

(* What is sent up is typed, and what was sent stays genuine.               *)
Sends(m) ==
  /\ up' \in [Zones -> Seq(UpFrame(m))]
  /\ \A y \in Zones : up'[y] \in Seq(Genuine(m, y))

LEMMA AppendSends ==
  ASSUME NEW m \in Nat, ZoneInv(m), NEW z \in Zones, NEW f \in UpFrame(m), f.type # "CFG_CHUNK",
         up' = [up EXCEPT ![z] = Append(@, f)]
  PROVE  Sends(m)
<1>1. /\ up \in [Zones -> Seq(UpFrame(m))]
      /\ \A y \in Zones : up[y] \in Seq(Genuine(m, y))
  BY DEF ZoneInv, ZonesTyped, HistoryTrue
<1>2. f \in Genuine(m, z)
  BY DEF Genuine
<1>3. Append(up[z], f) \in Seq(UpFrame(m)) /\ Append(up[z], f) \in Seq(Genuine(m, z))
  BY <1>1, <1>2, AppendTyped
<1> QED
  BY <1>1, <1>3 DEF Sends

LEMMA AckTyped ==
  ASSUME NEW m \in Nat, NEW s \in Seqs, NEW status \in Statuses
  PROVE  Ack(s, status) \in UpFrame(m) /\ Ack(s, status).type # "CFG_CHUNK"
BY DEF Ack, UpFrame

LEMMA Answers ==
  ASSUME NEW m \in Nat, ZoneInv(m), NEW z \in Zones, NEW s \in Seqs, NEW status \in Statuses,
         Answer(z, s, status)
  PROVE  Sends(m) /\ dup' \in [Zones -> [seq : Seqs, status : Statuses]]
<1>1. Ack(s, status) \in UpFrame(m) /\ Ack(s, status).type # "CFG_CHUNK"
  BY AckTyped
<1>2. up' = [up EXCEPT ![z] = Append(@, Ack(s, status))]
  BY DEF Answer
<1>3. Sends(m)
  BY <1>1, <1>2, AppendSends
<1>4. dup' \in [Zones -> [seq : Seqs, status : Statuses]]
  BY DEF ZoneInv, ZonesTyped, Answer
<1> QED
  BY <1>3, <1>4

LEMMA HistoryGrows ==
  ASSUME NEW m \in Nat, Sends(m), \A z \in Zones : had[z] \subseteq had'[z],
         \A z \in Zones : cfg'[z] \in had'[z] /\ nvs'[z] \in had'[z]
  PROVE  HistoryTrue(m)'
<1>1. ASSUME NEW z \in Zones PROVE up'[z] \in Seq(Genuine(m, z)')
  <2>1. Genuine(m, z) \subseteq Genuine(m, z)'
    BY <1>1 DEF Genuine
  <2>2. up'[z] \in Seq(Genuine(m, z))
    BY DEF Sends
  <2> QED
    BY <2>1, <2>2, SeqGrows
<1> QED
  BY <1>1 DEF HistoryTrue

LEMMA StillSends ==
  ASSUME NEW m \in Nat, ZoneInv(m), UNCHANGED up
  PROVE  Sends(m)
BY DEF ZoneInv, ZonesTyped, HistoryTrue, Sends

LEMMA ReplayKeeps ==
  ASSUME NEW m \in Nat, ZoneInv(m), NEW z \in Zones, Replay(z)
  PROVE  ZoneInv(m)' /\ MasterRests
<1>1. UNCHANGED <<q, planes, hb, gate, inboxes, transfer, fwd, zone, had, edit>>
  BY DEF Replay, zone, past
<1>2. MasterRests
  BY <1>1 DEF MasterRests, planes, gate, inboxes, transfer
<1>3. down' \in [Zones -> Seq(DownFrame(m))]
  BY Taken DEF Replay
<1>4. dup[z].seq \in Seqs /\ dup[z].status \in Statuses
  BY DEF ZoneInv, ZonesTyped
<1>5. Ack(dup[z].seq, dup[z].status) \in UpFrame(m) /\ Ack(dup[z].seq, dup[z].status).type # "CFG_CHUNK"
  BY <1>4, AckTyped
<1>6. up' = [up EXCEPT ![z] = Append(@, Ack(dup[z].seq, dup[z].status))]
  BY DEF Replay
<1>7. Sends(m)
  BY <1>5, <1>6, AppendSends
<1>8. ZoneInv(m)'
  BY <1>1, <1>3, <1>7, ZonesSteady DEF Sends
<1> QED
  BY <1>2, <1>8

LEMMA RunSetKeeps ==
  ASSUME NEW m \in Nat, ZoneInv(m), NEW z \in Zones, RunSet(z)
  PROVE  ZoneInv(m)' /\ MasterRests
<1> DEFINE f == Head(down[z])
<1>1. /\ f \in DownFrame(m) /\ f.type = "CMD" /\ down' \in [Zones -> Seq(DownFrame(m))]
  BY Taken DEF RunSet
<1>2. f.seq \in Seqs /\ f.arg \in 1 .. m
  BY <1>1 DEF DownFrame, ChunkFrame
<1>3. UNCHANGED <<q, planes, hb, gate, inboxes, transfer, fwd, hw, nvs, flushing, zasm, edit>>
  BY DEF RunSet, flash
<1>4. /\ cfg \in [Zones -> BlobTo(m)] /\ hw \in [Zones -> BlobTo(m)] /\ nvs \in [Zones -> BlobTo(m)]
      /\ flushing \subseteq Zones /\ zasm \in [Zones -> Asm(m)] /\ had \in [Zones -> SUBSET BlobTo(m)]
      /\ \A y \in Zones : cfg[y] \in had[y] /\ nvs[y] \in had[y]
  BY DEF ZoneInv, ZonesTyped, HistoryTrue
<1>5. Edited(z, f.arg) \in BlobTo(m)
  <2>1. cfg[z].gen + 1 \in Nat
    BY <1>4 DEF BlobTo
  <2> HIDE DEF f
  <2> QED
    BY <1>2, <2>1 DEF Edited, BlobTo, Src
<1>6. \E status \in Statuses : Answer(z, f.seq, status)
  <2>1. "ok" \in Statuses /\ "err" \in Statuses
    BY DEF Statuses
  <2> QED
    BY <2>1 DEF RunSet
<1>7. Goes(z, Edited(z, f.arg)) \/ UNCHANGED <<cfg, had>>
  BY DEF RunSet, past
<1> HIDE DEF f
<1>8. Sends(m) /\ dup' \in [Zones -> [seq : Seqs, status : Statuses]]
  BY <1>2, <1>6, Answers
<1>9. /\ cfg' \in [Zones -> BlobTo(m)] /\ had' \in [Zones -> SUBSET BlobTo(m)]
      /\ \A y \in Zones : had[y] \subseteq had'[y] /\ cfg'[y] \in had'[y]
  BY <1>4, <1>5, <1>7, GoesTyped
<1>10. MasterRests
  BY <1>3, <1>9 DEF MasterRests, planes, gate, inboxes, transfer
<1>11. ZonesTyped(m)'
  BY <1>1, <1>3, <1>4, <1>8, <1>9 DEF ZonesTyped, Sends
<1>12. HistoryTrue(m)'
  BY <1>3, <1>4, <1>8, <1>9, HistoryGrows
<1> QED
  BY <1>10, <1>11, <1>12 DEF ZoneInv

LEMMA ZoneChunkKeeps ==
  ASSUME NEW m \in Nat, ZoneInv(m), NEW z \in Zones, ZoneChunk(z)
  PROVE  ZoneInv(m)' /\ MasterRests
<1> DEFINE f == Head(down[z])
           fed == Fed(zasm[z], f.arg.kind, f.arg.blob, f.arg.idx)
<1>1. /\ f \in DownFrame(m) /\ f.type = "CFG_CHUNK" /\ down' \in [Zones -> Seq(DownFrame(m))]
  BY Taken DEF ZoneChunk
<1>2. f.arg.kind \in Kinds /\ f.arg.blob \in BlobTo(m) /\ f.arg.idx \in Chunks
  BY <1>1 DEF DownFrame, ChunkFrame
<1>3. UNCHANGED <<q, planes, hb, gate, inboxes, transfer, fwd, up, cfg, hw, nvs, flushing, dup, had, edit>>
  BY DEF ZoneChunk, flash, past
<1>4. MasterRests
  BY <1>3 DEF MasterRests, planes, gate, inboxes, transfer
<1>5. zasm \in [Zones -> Asm(m)]
  BY DEF ZoneInv, ZonesTyped
<1>6. fed \in Asm(m)
  BY <1>2, <1>5, FedTyped
<1>7. zasm' = [zasm EXCEPT ![z] = fed]
  BY DEF ZoneChunk
<1> HIDE DEF fed
<1>8. zasm' \in [Zones -> Asm(m)]
  BY <1>5, <1>6, <1>7
<1>9. ZonesTyped(m)'
  BY <1>1, <1>3, <1>8 DEF ZoneInv, ZonesTyped
<1>10. HistoryTrue(m)'
  BY <1>3, StillSends, HistoryGrows DEF ZoneInv, HistoryTrue
<1> QED
  BY <1>4, <1>9, <1>10 DEF ZoneInv

LEMMA CommitKeeps ==
  ASSUME NEW m \in Nat, ZoneInv(m), NEW z \in Zones, Commit(z)
  PROVE  ZoneInv(m)' /\ MasterRests
<1> DEFINE f == Head(down[z])
           verdict == Verdict(zasm[z], f.arg, cfg[z])
<1>1. /\ f \in DownFrame(m) /\ f.type = "CFG_COMMIT" /\ down' \in [Zones -> Seq(DownFrame(m))]
  BY Taken DEF Commit
<1>2. f.seq \in Seqs
  BY <1>1 DEF DownFrame, ChunkFrame
<1>3. /\ UNCHANGED <<q, planes, hb, gate, inboxes, transfer, fwd, hw, nvs, edit>>
      /\ zasm' = [zasm EXCEPT ![z] = Empty]
  BY DEF Commit
<1>4. /\ cfg \in [Zones -> BlobTo(m)] /\ hw \in [Zones -> BlobTo(m)] /\ nvs \in [Zones -> BlobTo(m)]
      /\ flushing \subseteq Zones /\ zasm \in [Zones -> Asm(m)] /\ had \in [Zones -> SUBSET BlobTo(m)]
      /\ \A y \in Zones : cfg[y] \in had[y] /\ nvs[y] \in had[y]
  BY DEF ZoneInv, ZonesTyped, HistoryTrue
<1>5. zasm[z].got[1] \in BlobTo(m)
  <2>1. 1 \in Chunks
    BY Bounds DEF Chunks
  <2> QED
    BY <1>4, <2>1 DEF Asm
<1>6. verdict # "apply" => verdict \in Statuses
  BY DEF Verdict, Statuses
<1>7. "ok" \in Statuses /\ "invalid" \in Statuses
  BY DEF Statuses
<1>8. \E status \in Statuses : Answer(z, f.seq, status)
  <2>1. \/ verdict # "apply" /\ Answer(z, f.seq, verdict)
        \/ Answer(z, f.seq, "ok")
        \/ Answer(z, f.seq, "invalid")
    BY DEF Commit
  <2> HIDE DEF verdict
  <2> QED
    BY <1>6, <1>7, <2>1
<1>9. /\ Goes(z, zasm[z].got[1]) \/ UNCHANGED <<cfg, had>>
      /\ flushing' \subseteq Zones
  BY <1>4 DEF Commit, past
<1> HIDE DEF f, verdict
<1>10. Sends(m) /\ dup' \in [Zones -> [seq : Seqs, status : Statuses]]
  BY <1>2, <1>8, Answers
<1>11. /\ cfg' \in [Zones -> BlobTo(m)] /\ had' \in [Zones -> SUBSET BlobTo(m)]
       /\ \A y \in Zones : had[y] \subseteq had'[y] /\ cfg'[y] \in had'[y]
  BY <1>4, <1>5, <1>9, GoesTyped
<1>12. MasterRests
  BY <1>3, <1>11 DEF MasterRests, planes, gate, inboxes, transfer
<1>13. zasm' \in [Zones -> Asm(m)]
  BY <1>3, <1>4, Blanks
<1>14. ZonesTyped(m)'
  BY <1>1, <1>3, <1>4, <1>9, <1>10, <1>11, <1>13 DEF ZonesTyped, Sends
<1>15. HistoryTrue(m)'
  BY <1>3, <1>4, <1>10, <1>11, HistoryGrows
<1> QED
  BY <1>12, <1>14, <1>15 DEF ZoneInv

LEMMA ConfigGetKeeps ==
  ASSUME NEW m \in Nat, ZoneInv(m), NEW z \in Zones, ConfigGet(z)
  PROVE  ZoneInv(m)' /\ MasterRests
<1> DEFINE f == Head(down[z])
           blob == IF f.arg = CFG THEN cfg[z] ELSE hw[z]
           chunks == ChunkFrames(f.arg, blob)
           ack == Ack(f.seq, "ok")
<1>1. /\ f \in DownFrame(m) /\ f.type = "CFG_GET" /\ down' \in [Zones -> Seq(DownFrame(m))]
  BY Taken DEF ConfigGet
<1>2. f.seq \in Seqs /\ f.arg \in Kinds
  BY <1>1 DEF DownFrame, ChunkFrame
<1>3. UNCHANGED <<q, planes, hb, gate, inboxes, transfer, fwd, zone, had, edit>>
  BY DEF ConfigGet, zone, past
<1>4. MasterRests
  BY <1>3 DEF MasterRests, planes, gate, inboxes, transfer
<1>5. /\ cfg \in [Zones -> BlobTo(m)] /\ hw \in [Zones -> BlobTo(m)] /\ cfg[z] \in had[z]
      /\ up \in [Zones -> Seq(UpFrame(m))]
      /\ \A y \in Zones : up[y] \in Seq(Genuine(m, y))
  BY DEF ZoneInv, ZonesTyped, HistoryTrue
<1>6. blob \in BlobTo(m) /\ (f.arg = CFG => blob \in had[z])
  BY <1>5
<1>7. up' = [up EXCEPT ![z] = (@ \o <<ack>>) \o chunks]
  BY DEF ConfigGet
<1> HIDE DEF f, blob
<1>8. chunks \in Seq(UpFrame(m)) /\ chunks \in Seq(Genuine(m, z))
  BY <1>2, <1>6, FramesTyped
<1>9. ack \in UpFrame(m) /\ ack \in Genuine(m, z)
  <2>1. "ok" \in Statuses
    BY DEF Statuses
  <2>2. ack \in UpFrame(m) /\ ack.type # "CFG_CHUNK"
    BY <1>2, <2>1, AckTyped
  <2> QED
    BY <2>2 DEF Genuine
<1> HIDE DEF ack, chunks
<1>10. ASSUME NEW S, ack \in S, chunks \in Seq(S), up[z] \in Seq(S)
       PROVE  (up[z] \o <<ack>>) \o chunks \in Seq(S)
  <2>1. <<ack>> \in Seq(S)
    BY <1>10
  <2>2. up[z] \o <<ack>> \in Seq(S)
    BY <1>10, <2>1, JoinTyped
  <2> QED
    BY <1>10, <2>2, JoinTyped
<1>11. Sends(m)
  <2>1. (up[z] \o <<ack>>) \o chunks \in Seq(UpFrame(m))
    BY <1>5, <1>8, <1>9, <1>10
  <2>2. (up[z] \o <<ack>>) \o chunks \in Seq(Genuine(m, z))
    BY <1>5, <1>8, <1>9, <1>10
  <2> QED
    BY <1>5, <1>7, <2>1, <2>2 DEF Sends
<1>12. ZoneInv(m)'
  BY <1>1, <1>3, <1>11, ZonesSteady DEF Sends
<1> QED
  BY <1>4, <1>12

LEMMA HeartbeatKeeps ==
  ASSUME NEW m \in Nat, ZoneInv(m), NEW z \in Zones, Heartbeat(z)
  PROVE  ZoneInv(m)' /\ MasterRests
<1> DEFINE f == [type |-> "HEARTBEAT", seq |-> 0, arg |-> [cfg |-> cfg[z], hw |-> hw[z]]]
<1>1. UNCHANGED <<q, planes, hb, gate, inboxes, transfer, fwd, down, zone, had, edit>>
  BY DEF Heartbeat, zone, past
<1>2. MasterRests
  BY <1>1 DEF MasterRests, planes, gate, inboxes, transfer
<1>3. cfg[z] \in BlobTo(m) /\ hw[z] \in BlobTo(m) /\ down \in [Zones -> Seq(DownFrame(m))]
  BY DEF ZoneInv, ZonesTyped
<1>4. f \in UpFrame(m) /\ f.type # "CFG_CHUNK"
  BY <1>3 DEF UpFrame, Pair
<1>5. up' = [up EXCEPT ![z] = Append(@, f)]
  BY DEF Heartbeat
<1> HIDE DEF f
<1>6. Sends(m)
  BY <1>4, <1>5, AppendSends
<1>7. ZoneInv(m)'
  BY <1>1, <1>3, <1>6, ZonesSteady DEF Sends
<1> QED
  BY <1>2, <1>7

LEMMA FlashKeeps ==
  ASSUME NEW m \in Nat, ZoneInv(m), NEW z \in Zones, Flushed(z) \/ Persist(z)
  PROVE  ZoneInv(m)' /\ MasterRests
<1>1. /\ UNCHANGED <<q, planes, hb, gate, inboxes, transfer, fwd, down, up, cfg, hw, zasm, dup, had, edit>>
      /\ flushing' \subseteq flushing
      /\ nvs' = [nvs EXCEPT ![z] = cfg[z]] \/ nvs' = nvs
  BY DEF Flushed, Persist, past
<1>2. MasterRests
  BY <1>1 DEF MasterRests, planes, gate, inboxes, transfer
<1>3. /\ cfg \in [Zones -> BlobTo(m)] /\ nvs \in [Zones -> BlobTo(m)] /\ flushing \subseteq Zones
      /\ \A y \in Zones : cfg[y] \in had[y] /\ nvs[y] \in had[y]
  BY DEF ZoneInv, ZonesTyped, HistoryTrue
<1>4. nvs' \in [Zones -> BlobTo(m)] /\ \A y \in Zones : nvs'[y] \in had[y]
  BY <1>1, <1>3
<1>5. ZonesTyped(m)'
  BY <1>1, <1>3, <1>4 DEF ZoneInv, ZonesTyped
<1>6. HistoryTrue(m)'
  BY <1>1, <1>3, <1>4, StillSends, HistoryGrows
<1> QED
  BY <1>2, <1>5, <1>6 DEF ZoneInv

LEMMA AgesKeeps ==
  ASSUME NEW m \in Nat, ZoneInv(m), NEW z \in Zones, AssemblerAges(z)
  PROVE  ZoneInv(m)' /\ MasterRests
<1>1. /\ UNCHANGED <<q, planes, hb, gate, inboxes, transfer, fwd, down, up, cfg, hw, nvs, flushing, dup,
                     had, edit>>
      /\ zasm' = [zasm EXCEPT ![z] = Empty]
  BY DEF AssemblerAges, flash, past
<1>2. MasterRests
  BY <1>1 DEF MasterRests, planes, gate, inboxes, transfer
<1>3. zasm' \in [Zones -> Asm(m)]
  BY <1>1, Blanks DEF ZoneInv, ZonesTyped
<1>4. ZonesTyped(m)'
  BY <1>1, <1>3 DEF ZoneInv, ZonesTyped
<1>5. HistoryTrue(m)'
  BY <1>1, StillSends, HistoryGrows DEF ZoneInv, HistoryTrue
<1> QED
  BY <1>2, <1>4, <1>5 DEF ZoneInv

LEMMA ResetKeeps ==
  ASSUME NEW m \in Nat, ZoneInv(m), NEW z \in Zones, Reset(z)
  PROVE  ZoneInv(m)' /\ MasterRests
<1>1. /\ UNCHANGED <<q, planes, hb, gate, inboxes, transfer, fwd, up, hw, nvs, had, edit>>
      /\ cfg' = [cfg EXCEPT ![z] = nvs[z]] /\ zasm' = [zasm EXCEPT ![z] = Empty]
      /\ dup' = [dup EXCEPT ![z] = NoDup] /\ flushing' \subseteq flushing
      /\ \E left \in {down[z], <<>>} : down' = [down EXCEPT ![z] = left]
  BY DEF Reset
<1>2. MasterRests
  BY <1>1 DEF MasterRests, planes, gate, inboxes, transfer
<1>3. /\ cfg \in [Zones -> BlobTo(m)] /\ nvs \in [Zones -> BlobTo(m)] /\ flushing \subseteq Zones
      /\ down \in [Zones -> Seq(DownFrame(m))] /\ zasm \in [Zones -> Asm(m)]
      /\ dup \in [Zones -> [seq : Seqs, status : Statuses]]
      /\ \A y \in Zones : cfg[y] \in had[y] /\ nvs[y] \in had[y]
  BY DEF ZoneInv, ZonesTyped, HistoryTrue
<1>4. cfg' \in [Zones -> BlobTo(m)] /\ \A y \in Zones : cfg'[y] \in had[y]
  BY <1>1, <1>3
<1>5. zasm' \in [Zones -> Asm(m)] /\ dup' \in [Zones -> [seq : Seqs, status : Statuses]]
  BY <1>1, <1>3, Blanks
<1>6. down' \in [Zones -> Seq(DownFrame(m))]
  <2>1. down[z] \in Seq(DownFrame(m)) /\ <<>> \in Seq(DownFrame(m))
    BY <1>3
  <2> QED
    BY <1>1, <1>3, <2>1
<1>7. ZonesTyped(m)'
  BY <1>1, <1>3, <1>4, <1>5, <1>6 DEF ZoneInv, ZonesTyped
<1>8. HistoryTrue(m)'
  BY <1>1, <1>3, <1>4, StillSends, HistoryGrows
<1> QED
  BY <1>2, <1>7, <1>8 DEF ZoneInv

LEMMA LoseKeeps ==
  ASSUME NEW m \in Nat, ZoneInv(m), NEW z \in Zones, Lose(z)
  PROVE  ZoneInv(m)' /\ MasterRests
<1>1. UNCHANGED <<q, planes, hb, gate, inboxes, transfer, fwd, zone, had, edit>>
  BY DEF Lose, zone, past
<1>2. MasterRests
  BY <1>1 DEF MasterRests, planes, gate, inboxes, transfer
<1>3. /\ down \in [Zones -> Seq(DownFrame(m))] /\ up \in [Zones -> Seq(UpFrame(m))]
      /\ \A y \in Zones : up[y] \in Seq(Genuine(m, y))
  BY DEF ZoneInv, ZonesTyped, HistoryTrue
<1>4. CASE down[z] # <<>> /\ down' = [down EXCEPT ![z] = Tail(@)] /\ UNCHANGED up
  <2>1. Tail(down[z]) \in Seq(DownFrame(m))
    BY <1>3, <1>4, TailTyped
  <2>2. down' \in [Zones -> Seq(DownFrame(m))]
    BY <1>3, <1>4, <2>1
  <2> QED
    BY <1>1, <1>2, <1>3, <1>4, <2>2, ZonesSteady
<1>5. CASE up[z] # <<>> /\ up' = [up EXCEPT ![z] = Tail(@)] /\ UNCHANGED down
  <2>1. Tail(up[z]) \in Seq(UpFrame(m))
    BY <1>3, <1>5, TailTyped
  <2>2. Tail(up[z]) \in Seq(Genuine(m, z))
    BY <1>3, <1>5, TailTyped
  <2>3. up' \in [Zones -> Seq(UpFrame(m))] /\ \A y \in Zones : up'[y] \in Seq(Genuine(m, y))
    BY <1>3, <1>5, <2>1, <2>2
  <2> QED
    BY <1>1, <1>2, <1>3, <1>5, <2>3, ZonesSteady
<1> QED
  BY <1>4, <1>5 DEF Lose

LEMMA CoolDownKeeps ==
  ASSUME NEW m \in Nat, ZoneInv(m), NEW z \in Zones, CoolDown(z)
  PROVE  ZoneInv(m)' /\ MasterRests
<1>1. UNCHANGED <<q, planes, hb, gate, inboxes, transfer, fwd, down, up, zone, had, edit>>
  BY DEF CoolDown, zone, past
<1>2. MasterRests
  BY <1>1 DEF MasterRests, planes, gate, inboxes, transfer
<1> QED
  BY <1>1, <1>2, WiresStill

LEMMA LocalEditKeeps ==
  ASSUME NEW m \in Nat, used \in [edit : {m}, fault : Nat], MasterInv(m), ZoneInv(m),
         NEW z \in Zones, LocalEdit(z)
  PROVE  /\ m + 1 <= MAX_EDIT /\ used' \in [edit : {m + 1}, fault : Nat]
         /\ MasterInv(m + 1)' /\ ZoneInv(m + 1)' /\ WriteStays
<1> DEFINE n == m + 1
<1>1. n \in Nat /\ m <= n /\ n \in 0 .. n
  OBVIOUS
<1>2. /\ UNCHANGED <<q, cache, hwCache, hb, turn, inbox, pushReq, cx, casm, fwd, down, up, nvs, flushing,
                     zasm, dup>>
      /\ NewEdit(z, "local", "ok")
      /\ \/ Goes(z, Edited(z, n)) /\ UNCHANGED hw
         \/ hw' = [hw EXCEPT ![z].val = n] /\ UNCHANGED <<cfg, had>>
  <2>1. used.edit + 1 = n
    OBVIOUS
  <2> HIDE DEF n
  <2> QED
    BY <2>1 DEF LocalEdit, planes, gate, inboxes, transfer, flash, past
<1>3. /\ n <= MAX_EDIT /\ used' \in [edit : {n}, fault : Nat]
      /\ edit' \in Log /\ OldEdits(m)
  <2>1. edit \in Log
    BY DEF MasterInv, MasterTyped
  <2> QED
    BY <1>2, <2>1, EditAdds DEF Asserted, Statuses
<1> HIDE DEF n
<1>4. MasterInv(n) /\ ZoneInv(n)
  BY <1>1, MasterGrows, ZonesGrow
<1>5. /\ cfg \in [Zones -> BlobTo(n)] /\ hw \in [Zones -> BlobTo(n)] /\ had \in [Zones -> SUBSET BlobTo(n)]
      /\ \A y \in Zones : cfg[y] \in had[y] /\ nvs[y] \in had[y]
  BY <1>4 DEF ZoneInv, ZonesTyped, HistoryTrue
<1>6. Edited(z, n) \in BlobTo(n)
  <2>1. cfg[z].gen + 1 \in Nat
    BY <1>5 DEF BlobTo
  <2> QED
    BY <1>1, <2>1 DEF Edited, BlobTo, Src
<1>7. /\ cfg' \in [Zones -> BlobTo(n)] /\ had' \in [Zones -> SUBSET BlobTo(n)]
      /\ \A y \in Zones : had[y] \subseteq had'[y] /\ cfg'[y] \in had'[y]
  BY <1>1, <1>2, <1>4, <1>5, <1>6, GoesTyped
<1>8. hw' \in [Zones -> BlobTo(n)]
  <2>1. CASE hw' = [hw EXCEPT ![z].val = n]
    <3>1. hw[z] \in BlobTo(n)
      BY <1>5
    <3>2. [hw[z] EXCEPT !.val = n] \in BlobTo(n)
      BY <1>1, <3>1 DEF BlobTo
    <3>3. hw' = [hw EXCEPT ![z] = [hw[z] EXCEPT !.val = n]]
      BY <1>5, <2>1
    <3> QED
      BY <1>5, <3>2, <3>3
  <2> QED
    BY <1>2, <1>5, <2>1
<1>9. ZonesTyped(n)'
  BY <1>2, <1>4, <1>7, <1>8 DEF ZoneInv, ZonesTyped
<1>10. HistoryTrue(n)'
  BY <1>1, <1>2, <1>4, <1>5, <1>7, StillSends, HistoryGrows
<1>11. MasterTyped(n)'
  BY <1>2, <1>3, <1>4 DEF MasterInv, MasterTyped
<1>12. SlotTrue'
  BY <1>2, <1>4 DEF MasterInv, SlotTrue
<1>13. CacheTrue' /\ InboxTrue' /\ (fwd.phase # "idle" => edit'[fwd.edit].told # "ok")
  <2>1. /\ CacheTrue'
        /\ \A y \in Zones : inbox[y] # 0 =>
             /\ inbox[y] \in Edits /\ edit'[inbox[y]].by = "web" /\ edit'[inbox[y]].zone = y
             /\ inbox[y] > cache'[y].val
        /\ fwd.phase # "idle" => edit'[fwd.edit].told # "ok"
    BY <1>2, <1>3, <1>7, OldHolds
  <2> QED
    BY <1>2, <2>1 DEF InboxTrue, Written
<1>14. ForwardTrue'
  BY <1>2, <1>4, <1>13 DEF MasterInv, ForwardTrue
<1>15. AssemblyTrue'
  <2>1. cx.state = "PULL_STREAM" => cx.zone \in Zones
    BY <1>4 DEF MasterInv, SlotTrue
  <2> QED
    BY <1>2, <1>4, <1>7, <2>1 DEF MasterInv, AssemblyTrue
<1>16. WriteStays
  BY <1>2, StaysPut
<1> QED
  BY <1>3, <1>9, <1>10, <1>11, <1>12, <1>13, <1>14, <1>15, <1>16 DEF MasterInv, ZoneInv, n

-----------------------------------------------------------------------------
(* The invariant, and what follows from it.                                 *)

LEMMA Spends ==
  ASSUME NEW m \in Nat, used \in [edit : {m}, fault : Nat], UNCHANGED used \/ Fault
  PROVE  used' \in [edit : {m}, fault : Nat]
BY Bounds DEF Fault

LEMMA MasterSteps ==
  ASSUME NEW m \in Nat, used \in [edit : {m}, fault : Nat], m <= MAX_EDIT, MasterInv(m), ZoneInv(m), Master
  PROVE  SyncInv' /\ WriteStays
<1>1. ASSUME MasterInv(m)', ZoneInv(m)', UNCHANGED used \/ Fault PROVE SyncInv'
  BY <1>1, Spends, SyncNext
<1>2. CASE SendHead
  <2>1. UNCHANGED used \/ Fault
    BY <1>2 DEF SendHead, Early
  <2> QED
    BY <1>1, <1>2, <2>1, SendHeadKeeps
<1>3. CASE GiveUp
  <2>1. UNCHANGED used \/ Fault
    BY <1>3 DEF GiveUp, Early
  <2> QED
    BY <1>1, <1>3, <2>1, GiveUpKeeps
<1>4. CASE Tick
  <2>1. UNCHANGED used \/ Fault
    BY <1>4 DEF Tick, Early
  <2> QED
    BY <1>1, <1>4, <2>1, TickKeeps
<1>5. ASSUME NEW z \in Zones, OnAck(z) PROVE SyncInv' /\ WriteStays
  <2>1. UNCHANGED used
    BY <1>5 DEF OnAck
  <2> QED
    BY <1>1, <1>5, <2>1, OnAckKeeps
<1>6. ASSUME NEW z \in Zones, OnChunk(z) PROVE SyncInv' /\ WriteStays
  <2>1. UNCHANGED used
    BY <1>6 DEF OnChunk
  <2> QED
    BY <1>1, <1>6, <2>1, OnChunkKeeps
<1>7. ASSUME NEW z \in Zones, OnHeartbeat(z) PROVE SyncInv' /\ WriteStays
  <2>1. UNCHANGED used
    BY <1>7 DEF OnHeartbeat
  <2> QED
    BY <1>1, <1>7, <2>1, OnHeartbeatKeeps
<1> QED
  BY <1>2, <1>3, <1>4, <1>5, <1>6, <1>7 DEF Master

LEMMA OperatorSteps ==
  ASSUME NEW m \in Nat, used \in [edit : {m}, fault : Nat], m <= MAX_EDIT, MasterInv(m), ZoneInv(m), Operator
  PROVE  SyncInv' /\ WriteStays
<1>1. ASSUME MasterInv(m)', ZoneInv(m)', UNCHANGED used \/ Fault PROVE SyncInv'
  BY <1>1, Spends, SyncNext
<1>2. ASSUME m + 1 <= MAX_EDIT, used' \in [edit : {m + 1}, fault : Nat], MasterInv(m + 1)', ZoneInv(m + 1)'
      PROVE  SyncInv'
  <2> DEFINE n == m + 1
  <2>1. n \in Nat
    OBVIOUS
  <2>2. n <= MAX_EDIT /\ used' \in [edit : {n}, fault : Nat] /\ MasterInv(n)' /\ ZoneInv(n)'
    BY <1>2
  <2> HIDE DEF n
  <2> QED
    BY <2>1, <2>2, SyncNext
<1>3. CASE ArmForward
  <2>1. UNCHANGED used
    BY <1>3 DEF ArmForward
  <2> QED
    BY <1>1, <1>3, <2>1, ArmKeeps
<1>4. CASE ForwardTimeout
  <2>1. UNCHANGED used
    BY <1>4 DEF ForwardTimeout
  <2> QED
    BY <1>1, <1>4, <2>1, ForwardTimeoutKeeps
<1>5. ASSUME NEW z \in Zones, Forward(z) PROVE SyncInv' /\ WriteStays
  BY <1>2, <1>5, ForwardKeeps
<1>6. ASSUME NEW z \in Zones, WebWrite(z) PROVE SyncInv' /\ WriteStays
  BY <1>2, <1>6, WebWriteKeeps
<1>7. ASSUME NEW z \in Zones, ManualPush(z) PROVE SyncInv' /\ WriteStays
  <2>1. UNCHANGED used \/ Fault
    BY <1>7 DEF ManualPush
  <2> QED
    BY <1>1, <1>7, <2>1, ManualPushKeeps
<1> QED
  BY <1>3, <1>4, <1>5, <1>6, <1>7 DEF Operator

LEMMA ZoneSteps ==
  ASSUME NEW m \in Nat, used \in [edit : {m}, fault : Nat], m <= MAX_EDIT, MasterInv(m), ZoneInv(m),
         NEW z \in Zones,
         \/ ZoneTask(z) \/ LocalEdit(z) \/ Persist(z) \/ Reset(z) \/ Lose(z) \/ CoolDown(z)
         \/ AssemblerAges(z)
  PROVE  SyncInv' /\ WriteStays
<1>1. ASSUME ZoneInv(m)', MasterRests, UNCHANGED used \/ Fault PROVE SyncInv' /\ WriteStays
  BY <1>1, RestsKeeps, Spends, SyncNext
<1>2. CASE Replay(z)
  BY <1>1, <1>2, ReplayKeeps DEF Replay
<1>3. CASE RunSet(z)
  BY <1>1, <1>3, RunSetKeeps DEF RunSet
<1>4. CASE ZoneChunk(z)
  BY <1>1, <1>4, ZoneChunkKeeps DEF ZoneChunk
<1>5. CASE Commit(z)
  <2>1. UNCHANGED used \/ Fault
    BY <1>5 DEF Commit
  <2> QED
    BY <1>1, <1>5, <2>1, CommitKeeps
<1>6. CASE Flushed(z) \/ Persist(z)
  <2>1. UNCHANGED used \/ Fault
    BY <1>6 DEF Flushed, Persist
  <2> QED
    BY <1>1, <1>6, <2>1, FlashKeeps
<1>7. CASE ConfigGet(z)
  <2>1. UNCHANGED used
    BY <1>7 DEF ConfigGet
  <2> QED
    BY <1>1, <1>7, <2>1, ConfigGetKeeps
<1>8. CASE Heartbeat(z)
  <2>1. UNCHANGED used \/ Fault
    BY <1>8 DEF Heartbeat, Early
  <2> QED
    BY <1>1, <1>8, <2>1, HeartbeatKeeps
<1>9. CASE LocalEdit(z)
  <2> DEFINE n == m + 1
  <2>1. n \in Nat
    OBVIOUS
  <2>2. n <= MAX_EDIT /\ used' \in [edit : {n}, fault : Nat] /\ MasterInv(n)' /\ ZoneInv(n)' /\ WriteStays
    BY <1>9, LocalEditKeeps
  <2> HIDE DEF n
  <2> QED
    BY <2>1, <2>2, SyncNext
<1>10. CASE Reset(z)
  <2>1. Fault
    BY <1>10 DEF Reset
  <2> QED
    BY <1>1, <1>10, <2>1, ResetKeeps
<1>11. CASE Lose(z)
  <2>1. Fault
    BY <1>11 DEF Lose
  <2> QED
    BY <1>1, <1>11, <2>1, LoseKeeps
<1>12. CASE CoolDown(z)
  BY <1>1, <1>12, CoolDownKeeps DEF CoolDown
<1>13. CASE AssemblerAges(z)
  <2>1. Fault
    BY <1>13 DEF AssemblerAges
  <2> QED
    BY <1>1, <1>13, <2>1, AgesKeeps
<1> QED
  BY <1>2, <1>3, <1>4, <1>5, <1>6, <1>7, <1>8, <1>9, <1>10, <1>11, <1>12, <1>13 DEF ZoneTask

LEMMA SyncStep ==
  ASSUME SyncInv, [Next]_vars
  PROVE  SyncInv' /\ WriteStays
<1> DEFINE m == used.edit
<1>1. m \in Nat /\ m <= MAX_EDIT /\ used \in [edit : {m}, fault : Nat]
  BY Bounds DEF SyncInv, Counted
<1>2. MasterInv(m) /\ ZoneInv(m)
  BY DEF SyncInv
<1>3. PICK n \in Nat : n = m
  BY <1>1
<1>4. n <= MAX_EDIT /\ used \in [edit : {n}, fault : Nat] /\ MasterInv(n) /\ ZoneInv(n)
  BY <1>1, <1>2, <1>3
<1> HIDE DEF m
<1>5. CASE Master
  BY <1>4, <1>5, MasterSteps
<1>6. CASE Operator
  BY <1>4, <1>6, OperatorSteps
<1>7. CASE \E z \in Zones :
             \/ ZoneTask(z) \/ LocalEdit(z) \/ Persist(z) \/ Reset(z) \/ Lose(z) \/ CoolDown(z)
             \/ AssemblerAges(z)
  BY <1>4, <1>7, ZoneSteps
<1>8. CASE UNCHANGED vars
  <2>1. UNCHANGED <<q, planes, hb, gate, inboxes, transfer, fwd, down, up, zone, had, used, edit>>
    BY <1>8 DEF vars, zone, past
  <2>2. MasterRests
    BY <2>1 DEF MasterRests, planes, gate, inboxes, transfer
  <2>3. MasterInv(n)' /\ WriteStays
    BY <1>4, <2>2, RestsKeeps
  <2>4. ZoneInv(n)'
    BY <1>4, <2>1, WiresStill
  <2> QED
    BY <1>4, <2>1, <2>3, <2>4, Spends, SyncNext
<1> QED
  BY <1>5, <1>6, <1>7, <1>8 DEF Next

(* The inductive invariant: types, the slot's books, and where every value  *)
(* in a cache, an assembler and a chunk on the wire comes from.             *)
THEOREM SyncInvariant == Spec => []SyncInv
<1>1. Init => SyncInv
  BY RestTrue
<1>2. SyncInv /\ [Next]_vars => SyncInv'
  BY SyncStep
<1> QED
  BY <1>1, <1>2, PTL DEF Spec

(* The transfer slot keeps its books (node_mgr_cfgx.c): it is owned while   *)
(* it is taken, never tried more than CX_ATTEMPTS times, and holds a number *)
(* exactly while the tracker holds the frame it waits for.                  *)
THEOREM SyncTypeCorrect == Spec => []TypeOK
<1>1. SyncInv => TypeOK
  <2> SUFFICES ASSUME SyncInv PROVE TypeOK
    OBVIOUS
  <2>1. used.edit \in Nat /\ used.edit <= MAX_EDIT
    BY Bounds DEF SyncInv, Counted
  <2>2. BlobTo(used.edit) \subseteq Blob /\ 0 .. used.edit \subseteq 0 .. MAX_EDIT
    BY <2>1, Bounds DEF BlobTo, Blob, Src
  <2>3. MasterTyped(used.edit) /\ SlotTrue /\ ZonesTyped(used.edit)
    BY DEF SyncInv, MasterInv, ZoneInv
  <2>4. cx.state \in CxState
    BY <2>3 DEF MasterTyped, Slot
  <2>5. /\ cache \in [Zones -> Blob] /\ hwCache \in [Zones -> Blob]
        /\ inbox \in [Zones -> 0 .. MAX_EDIT]
    BY <2>2, <2>3 DEF MasterTyped
  <2>6. cfg \in [Zones -> Blob] /\ nvs \in [Zones -> Blob]
    BY <2>2, <2>3 DEF ZonesTyped
  <2>7. Len(q) <= RING_TRK_DEPTH /\ turn \in Zones /\ flushing \subseteq Zones
    BY <2>3 DEF MasterTyped, ZonesTyped
  <2> QED
    BY <2>3, <2>4, <2>5, <2>6, <2>7 DEF TypeOK, SlotTrue
<1> QED
  BY <1>1, SyncInvariant, PTL

(* A web write the operator was told is accepted stays with the master      *)
(* (inbox of node_mgr_cfg_api.c, then the cache of node_mgr_cfg.c) until    *)
(* the zone has run it, a later write takes its place, or a forwarded SET   *)
(* is answered OK.                                                          *)
THEOREM WriteKeptHolds == Spec => WriteKept
<1>1. SyncInv /\ [Next]_vars =>
        [\A z \in Zones : \A k \in Edits :
           edit[k].by = "web" /\ Holds(z, k) /\ ~Holds(z, k)'
             => \/ \E b \in had[z] : b.val = k
                \/ cache'[z].val > k
                \/ \E j \in Edits : edit[j].told # "ok" /\ edit'[j].told = "ok"]_vars
  BY SyncStep DEF WriteStays, Ran, SomeoneToldOk
<1> QED
  BY <1>1, SyncInvariant, PTL DEF Spec, WriteKept

(* No zone is given the contents of another: what the master caches for a   *)
(* zone, and so what it pushes there, has the contents of a configuration   *)
(* that was live in that zone, or of a web write made for it (start_set_req, *)
(* nmgr_cfg_on_chunk, ring_casm_feed).                                      *)
THEOREM CacheOfItsZone == Spec => []CacheTrue
<1>1. SyncInv => CacheTrue
  BY DEF SyncInv, MasterInv
<1> QED
  BY <1>1, SyncInvariant, PTL

=============================================================================
