--------------------------- MODULE RingCmdProofs ---------------------------
(***************************************************************************)
(* RingCmd for any set of zones, any queue depth and any timer values: its *)
(* type invariant, the tracker's order and its bookkeeping, that a reply   *)
(* handed to a submitter is genuine, that a withdrawn request never        *)
(* reaches a zone, that a command executes at most once in one boot of its *)
(* zone, and that the protocol implements OnceRpc step by step.            *)
(***************************************************************************)
EXTENDS RingCmd, RingTrkProofs

(* What the bookkeeping needs to be inductive: a number that has not been   *)
(* handed out has no outcome, and one that has been names its request.      *)
Fresh == \A s \in Seqs : s > nextSeq => outcome[s] = "none"
Known == \A s \in Seqs : outcome[s] # "none" => req[s] \in Request

-----------------------------------------------------------------------------
(* The queue's three moves, on typed queues *)

LEMMA SeqsTyped == Seqs \subseteq Nat /\ Seqs \subseteq 0 .. MAX_SEQ
BY RingCmdAssumption DEF Seqs

LEMMA QueueFacts ==
  ASSUME MasterOK
  PROVE  /\ DOMAIN q = 1 .. Len(q)
         /\ Len(q) \in Nat
         /\ \A i \in 1 .. Len(q) : q[i] \in Entry
         /\ q # <<>> => 1 \in 1 .. Len(q) /\ q[1] \in Entry
         /\ SeqsOf(q) \subseteq Seqs
         /\ q # <<>> => q[1].seq \in SeqsOf(q)
<1>1. DOMAIN q = 1 .. Len(q) /\ Len(q) \in Nat /\ \A i \in 1 .. Len(q) : q[i] \in Entry
  BY LenProperties, ElementOfSeq DEF MasterOK
<1>2. q # <<>> => 1 \in 1 .. Len(q)
  BY <1>1, EmptySeq DEF MasterOK
<1>3. QED BY <1>1, <1>2 DEF SeqsOf, Entry

(* Transmitting the head changes its attempts and nothing else.             *)
LEMMA SentProperties ==
  ASSUME MasterOK, q # <<>>, q[1].att < MAX_ATTEMPTS
  PROVE  /\ Sent(q) \in Seq(Entry)
         /\ Len(Sent(q)) = Len(q)
         /\ \A i \in 1 .. Len(q) :
              /\ Sent(q)[i].seq = q[i].seq
              /\ Sent(q)[i].type = q[i].type
              /\ Sent(q)[i].att = IF i = 1 THEN q[i].att + 1 ELSE q[i].att
         /\ SeqsOf(Sent(q)) = SeqsOf(q)
         /\ Distinct(q) => Distinct(Sent(q))
         /\ Ordered(q) => Ordered(Sent(q))
<1> DEFINE h == [q[1] EXCEPT !.att = @ + 1]
<1>1. /\ 1 \in 1 .. Len(q)
      /\ q[1] \in Entry
      /\ DOMAIN q = 1 .. Len(q)
      /\ \A i \in 1 .. Len(q) : q[i] \in Entry
  BY QueueFacts
<1>2. h \in Entry /\ h.seq = q[1].seq /\ h.type = q[1].type /\ h.att = q[1].att + 1
  BY <1>1, TrkAssumption DEF Entry
<1>3. Sent(q) = [q EXCEPT ![1] = h]
  BY DEF Sent
<1> HIDE DEF h
<1>4. /\ Sent(q) \in Seq(Entry)
      /\ Len(Sent(q)) = Len(q)
      /\ \A i \in 1 .. Len(q) : Sent(q)[i] = IF i = 1 THEN h ELSE q[i]
  BY <1>1, <1>2, <1>3, ExceptSeq DEF MasterOK
<1>5. /\ DOMAIN Sent(q) = 1 .. Len(q)
      /\ \A i \in 1 .. Len(q) :
           /\ Sent(q)[i].seq = q[i].seq
           /\ Sent(q)[i].type = q[i].type
           /\ Sent(q)[i].att = IF i = 1 THEN q[i].att + 1 ELSE q[i].att
  BY <1>2, <1>4, LenProperties
<1>6. SeqsOf(Sent(q)) = SeqsOf(q)
  BY <1>1, <1>5 DEF SeqsOf
<1>7. Distinct(q) => Distinct(Sent(q))
  BY <1>1, <1>5 DEF Distinct
<1>8. ASSUME Ordered(q)
      PROVE  Ordered(Sent(q))
  <2> SUFFICES ASSUME NEW i \in 1 .. Len(q), NEW j \in 1 .. Len(q), i < j
               PROVE  /\ Sent(q)[j].att = 0
                      /\ (Sent(q)[i].type \in ConfigTypes /\ Sent(q)[j].type \in PriorityTypes)
                           => Sent(q)[i].att > 0
    BY <1>5 DEF Ordered
  <2>1. Sent(q)[j].att = q[j].att
    BY <1>5, QueueFacts
  <2>2. Sent(q)[i].att = q[i].att \/ Sent(q)[i].att = q[i].att + 1
    BY <1>5
  <2>3. q[i].att \in Nat
    BY <1>1 DEF Entry
  <2>4. /\ q[j].att = 0
        /\ (q[i].type \in ConfigTypes /\ q[j].type \in PriorityTypes) => q[i].att > 0
    BY <1>1, <1>8 DEF Ordered
  <2>5. QED BY <1>5, <2>1, <2>2, <2>3, <2>4
<1>9. QED BY <1>4, <1>5, <1>6, <1>7, <1>8

(* An ACK, a returned frame or the last timeout removes the head.           *)
LEMMA TailRemoves ==
  ASSUME MasterOK, q # <<>>
  PROVE  /\ Tail(q) \in Seq(Entry)
         /\ Len(Tail(q)) <= Len(q)
         /\ Distinct(q) => Distinct(Tail(q)) /\ SeqsOf(Tail(q)) = SeqsOf(q) \ {q[1].seq}
         /\ Ordered(q) => Ordered(Tail(q))
<1>1. 1 \in 1 .. Len(q) /\ Len(q) \in Nat /\ q \in Seq(Entry)
  BY QueueFacts DEF MasterOK
<1>2. /\ Tail(q) \in Seq(Entry)
      /\ Len(Tail(q)) = Len(q) - 1
      /\ \A i \in 1 .. Len(q) - 1 : Tail(q)[i] = IF i < 1 THEN q[i] ELSE q[i + 1]
  BY <1>1, HeadTailProperties
<1> DEFINE t == Tail(q)
<1>3. /\ t \in Seq(Entry)
      /\ Len(t) = Len(q) - 1
      /\ \A i \in 1 .. Len(q) - 1 : t[i] = IF i < 1 THEN q[i] ELSE q[i + 1]
  BY <1>2
<1> HIDE DEF t
<1>a. Without(t, q, 1)
  BY <1>3 DEF Without
<1>4. /\ SeqsOf(t) \subseteq SeqsOf(q)
      /\ SeqsOf(q) \subseteq SeqsOf(t) \cup {q[1].seq}
      /\ Distinct(q) => Distinct(t) /\ q[1].seq \notin SeqsOf(t)
      /\ Ordered(q) => Ordered(t)
  BY <1>1, <1>3, <1>a, RemovedProperties
<1>5. Len(t) <= Len(q)
  BY <1>1, <1>3
<1>6. ASSUME Distinct(q)
      PROVE  Distinct(t) /\ SeqsOf(t) = SeqsOf(q) \ {q[1].seq}
  BY <1>4, <1>6
<1> QED
  BY <1>3, <1>4, <1>5, <1>6, Zenon DEF t

(* A cancel removes the entry it names.                                     *)
LEMMA CancelRemoves ==
  ASSUME MasterOK, NEW s, Cancellable(q, s)
  PROVE  /\ s \in SeqsOf(q)
         /\ Cancelled(q, s) \in Seq(Entry)
         /\ Len(Cancelled(q, s)) <= Len(q)
         /\ Distinct(q) => Distinct(Cancelled(q, s)) /\ SeqsOf(Cancelled(q, s)) = SeqsOf(q) \ {s}
         /\ Ordered(q) => Ordered(Cancelled(q, s))
<1>1. DOMAIN q = 1 .. Len(q) /\ Len(q) \in Nat /\ q \in Seq(Entry)
  BY QueueFacts DEF MasterOK
<1>2. \E i \in DOMAIN q : q[i].seq = s
  BY DEF Cancellable
<1>3. PICK k \in 1 .. Len(q) : q[k].seq = s /\ Cancelled(q, s) = RemoveAt(q, k)
  BY <1>1, <1>2 DEF Cancelled
<1> DEFINE t == RemoveAt(q, k)
<1>4. /\ t \in Seq(Entry)
      /\ Len(t) = Len(q) - 1
      /\ \A i \in 1 .. Len(q) - 1 : t[i] = IF i < k THEN q[i] ELSE q[i + 1]
  BY <1>1, RemoveAtProperties
<1> HIDE DEF t
<1>a. Without(t, q, k)
  BY <1>4 DEF Without
<1>5. /\ SeqsOf(t) \subseteq SeqsOf(q)
      /\ SeqsOf(q) \subseteq SeqsOf(t) \cup {q[k].seq}
      /\ Distinct(q) => Distinct(t) /\ q[k].seq \notin SeqsOf(t)
      /\ Ordered(q) => Ordered(t)
  BY <1>1, <1>4, <1>a, RemovedProperties
<1>6. s \in SeqsOf(q)
  BY <1>2 DEF SeqsOf
<1>7. Len(t) <= Len(q)
  BY <1>1, <1>4
<1>8. ASSUME Distinct(q)
      PROVE  Distinct(t) /\ SeqsOf(t) = SeqsOf(q) \ {s}
  BY <1>3, <1>5, <1>8
<1> QED
  BY <1>3, <1>4, <1>5, <1>6, <1>7, <1>8, Zenon DEF t

-----------------------------------------------------------------------------
(* The master's steps keep its state typed and its books straight *)

Books == MasterOK /\ Fresh /\ Known /\ Accounted /\ QueueOrder

LEMMA TakeSeqKeepsBooks ==
  ASSUME Books, NEW z \in Zones, NEW type \in Types, TakeSeq(z, type)
  PROVE  Books'
<1> DEFINE s == nextSeq + 1
<1>1. s \in Seqs /\ s \in 0 .. MAX_SEQ /\ nextSeq \in Nat
  BY RingCmdAssumption DEF Books, MasterOK, TakeSeq, Seqs
<1>2. /\ q' = q /\ age' = age /\ nextSeq' = s
      /\ req' = [req EXCEPT ![s] = [dst |-> z, type |-> type]]
      /\ outcome' = [outcome EXCEPT ![s] = "taken"]
  BY DEF TakeSeq
<1> HIDE DEF s
<1>3. MasterOK'
  BY <1>1, <1>2 DEF Books, MasterOK, Request, Outcomes
<1>4. Fresh'
  BY <1>1, <1>2, SeqsTyped DEF Books, MasterOK, Fresh, s
<1>5. Known'
  BY <1>1, <1>2 DEF Books, MasterOK, Known, Request
<1>6. outcome[s] = "none"
  BY <1>1, SeqsTyped DEF Books, Fresh, s
<1>7. Accounted'
  BY <1>1, <1>2, <1>6 DEF Books, MasterOK, Accounted
<1>8. QueueOrder'
  BY <1>2 DEF Books, QueueOrder
<1>9. QED BY <1>3, <1>4, <1>5, <1>7, <1>8 DEF Books

LEMMA SubmitKeepsBooks ==
  ASSUME Books, NEW s \in Seqs, Submit(s)
  PROVE  Books'
<1>1. /\ outcome[s] = "taken"
      /\ age' = age /\ nextSeq' = nextSeq /\ req' = req
  BY DEF Submit
<1>2. req[s] \in Request
  BY <1>1 DEF Books, Known
<1>3. CASE ~Full(q) /\ q' = Submitted(q, [seq |-> s, dst |-> req[s].dst, type |-> req[s].type, att |-> 0])
                    /\ outcome' = [outcome EXCEPT ![s] = "pending"]
  <2> DEFINE e == [seq |-> s, dst |-> req[s].dst, type |-> req[s].type, att |-> 0]
  <2>1. e \in Entry /\ e.seq = s /\ e.att = 0 /\ \A x \in Entry : x.att \in Nat
    BY <1>2, TrkAssumption DEF Entry, Request
  <2>2. q \in Seq(Entry) /\ Len(q) \in Nat
    BY QueueFacts DEF Books, MasterOK
  <2>3. s \notin SeqsOf(q)
    BY <1>1 DEF Books, Accounted
  <2>4. Distinct(q) /\ Ordered(q)
    BY DEF Books, Accounted, QueueOrder, Distinct, Ordered
  <2>5. q' = Submitted(q, e)
    BY <1>3
  <2> HIDE DEF e
  <2>6. /\ q' \in Seq(Entry)
        /\ Len(q') = Len(q) + 1
        /\ SeqsOf(q') = SeqsOf(q) \cup {s}
        /\ Distinct(q')
        /\ Ordered(q')
    BY <2>1, <2>2, <2>3, <2>4, <2>5, SubmittedProperties
  <2>7. MasterOK'
    BY <1>1, <1>3, <2>2, <2>6, TrkAssumption DEF Books, MasterOK, Full, Outcomes
  <2>8. Fresh' /\ Known'
    BY <1>1, <1>2, <1>3 DEF Books, MasterOK, Fresh, Known
  <2>9. Accounted'
    <3>1. \A r \in Seqs : outcome'[r] = "pending" <=> r \in SeqsOf(q')
      BY <1>3, <2>6 DEF Books, MasterOK, Accounted
    <3>2. QED BY <3>1, <2>6 DEF Accounted, Distinct, SeqsOf
  <2>10. QueueOrder'
    BY <2>6 DEF QueueOrder, Ordered
  <2>11. QED BY <2>7, <2>8, <2>9, <2>10 DEF Books
<1>4. CASE outcome' = [outcome EXCEPT ![s] = "busy"] /\ q' = q
  <2>1. MasterOK' /\ Fresh' /\ Known' /\ QueueOrder'
    BY <1>1, <1>2, <1>4 DEF Books, MasterOK, Fresh, Known, QueueOrder, Outcomes
  <2>2. Accounted'
    BY <1>1, <1>4 DEF Books, MasterOK, Accounted
  <2>3. QED BY <2>1, <2>2 DEF Books
<1>5. QED BY <1>3, <1>4 DEF Submit

LEMMA SendHeadKeepsBooks ==
  ASSUME Books, SendHead
  PROVE  Books'
<1>1. /\ q # <<>> /\ q' = Sent(q) /\ age' = 0
      /\ nextSeq' = nextSeq /\ req' = req /\ outcome' = outcome
  BY DEF SendHead
<1>2. MasterOK
  BY DEF Books
<1>3. q[1].att < MAX_ATTEMPTS
  BY TrkAssumption DEF SendHead
<1>4. Distinct(q) /\ Ordered(q)
  BY DEF Books, Accounted, QueueOrder, Distinct, Ordered
<1>5. /\ q' \in Seq(Entry)
      /\ Len(q') = Len(q)
      /\ SeqsOf(q') = SeqsOf(q)
      /\ Distinct(q')
      /\ Ordered(q')
  BY <1>1, <1>2, <1>3, <1>4, SentProperties
<1>6. MasterOK'
  BY <1>1, <1>2, <1>5, RingCmdAssumption DEF MasterOK
<1>7. Fresh' /\ Known'
  BY <1>1 DEF Books, Fresh, Known
<1>8. Accounted'
  <2>1. \A r \in Seqs : outcome'[r] = "pending" <=> r \in SeqsOf(q')
    BY <1>1, <1>5 DEF Books, Accounted
  <2>2. QED BY <2>1, <1>5 DEF Accounted, Distinct, SeqsOf
<1>9. QueueOrder'
  BY <1>5 DEF QueueOrder, Ordered
<1>10. QED BY <1>6, <1>7, <1>8, <1>9 DEF Books

LEMMA ReportHeadKeepsBooks ==
  ASSUME Books, q # <<>>,
         NEW what \in {"timeout", "unknown"} \cup ZoneStatus, ReportHead(what),
         age' = age, nextSeq' = nextSeq, req' = req
  PROVE  Books'
<1>1. q' = Tail(q) /\ outcome' = [outcome EXCEPT ![q[1].seq] = what]
  BY DEF ReportHead
<1>2. MasterOK
  BY DEF Books
<1>3. Distinct(q) /\ Ordered(q)
  BY DEF Books, Accounted, QueueOrder, Distinct, Ordered
<1>4. /\ q' \in Seq(Entry)
      /\ Len(q') <= Len(q)
      /\ SeqsOf(q') = SeqsOf(q) \ {q[1].seq}
      /\ Distinct(q')
      /\ Ordered(q')
  BY <1>1, <1>2, <1>3, TailRemoves
<1>5. /\ q[1].seq \in Seqs /\ q[1].seq \in SeqsOf(q)
      /\ Len(q) \in Nat
  BY <1>2, QueueFacts
<1>6. outcome[q[1].seq] = "pending"
  BY <1>5 DEF Books, Accounted
<1>7. what # "pending" /\ what # "none" /\ what \in Outcomes
  BY DEF ZoneStatus, Outcomes
<1>8. Len(q') \in Nat
  BY <1>4, LenProperties
<1>9. MasterOK'
  BY <1>1, <1>2, <1>4, <1>5, <1>7, <1>8, TrkAssumption DEF MasterOK
<1>10. Fresh' /\ Known'
  BY <1>1, <1>2, <1>5, <1>6 DEF Books, MasterOK, Fresh, Known
<1>11. Accounted'
  <2>1. \A r \in Seqs : outcome'[r] = "pending" <=> r \in SeqsOf(q')
    BY <1>1, <1>2, <1>4, <1>5, <1>7 DEF Books, MasterOK, Accounted
  <2>2. QED BY <2>1, <1>4 DEF Accounted, Distinct, SeqsOf
<1>12. QueueOrder'
  BY <1>4 DEF QueueOrder, Ordered
<1>13. QED BY <1>9, <1>10, <1>11, <1>12 DEF Books

LEMMA CancelKeepsBooks ==
  ASSUME Books, NEW s \in Seqs, Cancel(s)
  PROVE  Books'
<1>1. /\ Cancellable(q, s) /\ q' = Cancelled(q, s)
      /\ outcome' = [outcome EXCEPT ![s] = "cancelled"]
      /\ age' = age /\ nextSeq' = nextSeq /\ req' = req
  BY DEF Cancel
<1>2. MasterOK
  BY DEF Books
<1>3. Distinct(q) /\ Ordered(q)
  BY DEF Books, Accounted, QueueOrder, Distinct, Ordered
<1>4. /\ s \in SeqsOf(q)
      /\ q' \in Seq(Entry)
      /\ Len(q') <= Len(q)
      /\ SeqsOf(q') = SeqsOf(q) \ {s}
      /\ Distinct(q')
      /\ Ordered(q')
  BY <1>1, <1>2, <1>3, CancelRemoves
<1>5. outcome[s] = "pending"
  BY <1>4 DEF Books, Accounted
<1>6. Len(q') \in Nat /\ Len(q) \in Nat
  BY <1>2, <1>4, LenProperties DEF MasterOK
<1>7. MasterOK'
  BY <1>1, <1>2, <1>4, <1>6, TrkAssumption DEF MasterOK, Outcomes
<1>8. Fresh' /\ Known'
  BY <1>1, <1>2, <1>5 DEF Books, MasterOK, Fresh, Known
<1>9. Accounted'
  <2>1. \A r \in Seqs : outcome'[r] = "pending" <=> r \in SeqsOf(q')
    BY <1>1, <1>2, <1>4 DEF Books, MasterOK, Accounted
  <2>2. QED BY <2>1, <1>4 DEF Accounted, Distinct, SeqsOf
<1>10. QueueOrder'
  BY <1>4 DEF QueueOrder, Ordered
<1>11. QED BY <1>7, <1>8, <1>9, <1>10 DEF Books

LEMMA MasterReceiveKeepsBooks ==
  ASSUME Books, WiresOK, NEW z \in Zones, MasterReceive(z)
  PROVE  Books'
<1> DEFINE f == Head(up[z])
<1>1. f.status \in ZoneStatus
  <2>1. up[z] \in Seq(FrameUp) /\ up[z] # <<>>
    BY DEF MasterReceive, WiresOK
  <2>2. Head(up[z]) \in FrameUp
    BY <2>1, HeadTailProperties
  <2>3. QED BY <2>2 DEF FrameUp
<1>2. age' = age /\ nextSeq' = nextSeq /\ req' = req
  BY DEF MasterReceive
<1>3. \/ AckMatches(q, f.seq) /\ ReportHead(f.status)
      \/ UnclaimedMatches(q, f.seq, z) /\ ReportHead("unknown")
      \/ UNCHANGED <<q, outcome>>
  BY DEF MasterReceive
<1> HIDE DEF f
<1>4. CASE AckMatches(q, f.seq) /\ ReportHead(f.status)
  BY <1>1, <1>2, <1>4, ReportHeadKeepsBooks DEF AckMatches, InFlight
<1>5. CASE UnclaimedMatches(q, f.seq, z) /\ ReportHead("unknown")
  BY <1>2, <1>5, ReportHeadKeepsBooks DEF UnclaimedMatches, InFlight
<1>6. CASE UNCHANGED <<q, outcome>>
  BY <1>2, <1>6 DEF Books, MasterOK, Fresh, Known, Accounted, QueueOrder
<1>7. QED BY <1>3, <1>4, <1>5, <1>6

LEMMA MasterIdleKeepsBooks ==
  ASSUME Books, UNCHANGED master
  PROVE  Books'
BY DEF Books, MasterOK, Fresh, Known, Accounted, QueueOrder, master

-----------------------------------------------------------------------------
(* The wires and the zones *)

LEMMA SendAckTyped ==
  ASSUME WiresOK, NEW z \in Zones, NEW s \in Seqs, NEW status \in ZoneStatus,
         SendAck(z, s, status), down' = down
  PROVE  WiresOK'
<1>1. [kind |-> "ack", seq |-> s, status |-> status, age |-> 0] \in FrameUp
  BY RingCmdAssumption DEF FrameUp
<1>2. up[z] \in Seq(FrameUp)
  BY DEF WiresOK
<1>3. Append(up[z], [kind |-> "ack", seq |-> s, status |-> status, age |-> 0]) \in Seq(FrameUp)
  BY <1>1, <1>2
<1>4. QED BY <1>3 DEF WiresOK, SendAck

(* Taking a frame from the consume queue.                                   *)
LEMMA TakeFrameTyped ==
  ASSUME ZoneOK, NEW z \in Zones, NEW types, TakeFrame(z, types)
  PROVE  /\ Head(rxq[z]) \in Received
         /\ Head(rxq[z]).seq \in Seqs
         /\ rxq' \in [Zones -> Seq(Received)]
<1>1. rxq[z] \in Seq(Received) /\ rxq[z] # <<>>
  BY DEF ZoneOK, TakeFrame
<1>2. Head(rxq[z]) \in Received /\ Tail(rxq[z]) \in Seq(Received)
  BY <1>1, HeadTailProperties
<1>3. Head(rxq[z]).seq \in Seqs
  BY <1>2 DEF Received
<1>4. rxq' \in [Zones -> Seq(Received)]
  BY <1>2 DEF ZoneOK, TakeFrame
<1>5. QED BY <1>2, <1>3, <1>4

LEMMA OlderTyped ==
  ASSUME NEW S, NEW T, NEW frames \in Seq(S),
         \A f \in S : [f EXCEPT !.age = @ + 1] \in T \/ \A i \in DOMAIN frames : frames[i] # f
  PROVE  Older(frames) \in Seq(T)
<1>1. DOMAIN frames = 1 .. Len(frames) /\ Len(frames) \in Nat
  BY LenProperties
<1>2. \A i \in 1 .. Len(frames) : frames[i] \in S
  BY ElementOfSeq
<1>3. \A i \in 1 .. Len(frames) : [frames[i] EXCEPT !.age = @ + 1] \in T
  BY <1>1, <1>2
<1>4. Older(frames) \in [1 .. Len(frames) -> T]
  BY <1>1, <1>3 DEF Older
<1>5. QED BY <1>1, <1>4, SeqDef

Rest == WiresOK /\ ZoneOK /\ HistoryOK

LEMMA TickKeepsTypes ==
  ASSUME Books, Rest, Tick
  PROVE  Books' /\ Rest'
<1>1. age' \in 0 .. ACK_TIMEOUT
  BY RingCmdAssumption DEF Books, MasterOK, Tick, AtMost
<1>2. Books'
  BY <1>1 DEF Books, MasterOK, Fresh, Known, Accounted, QueueOrder, Tick
<1>3. WiresOK'
  <2>1. ASSUME NEW z \in Zones
        PROVE  Older(down[z]) \in Seq(FrameDown)
    <3>1. down[z] \in Seq(FrameDown)
      BY DEF Rest, WiresOK
    <3>2. \A i \in DOMAIN down[z] : ~(down[z][i].age >= TRANSIT_MAX)
      BY DEF Tick, Urgent
    <3>3. ASSUME NEW f \in FrameDown, NEW i \in DOMAIN down[z], down[z][i] = f
          PROVE  [f EXCEPT !.age = @ + 1] \in FrameDown
      BY <3>2, <3>3, RingCmdAssumption DEF FrameDown
    <3>4. QED BY <3>1, <3>3, OlderTyped
  <2>2. ASSUME NEW z \in Zones
        PROVE  Older(up[z]) \in Seq(FrameUp)
    <3>1. up[z] \in Seq(FrameUp)
      BY DEF Rest, WiresOK
    <3>2. \A i \in DOMAIN up[z] : ~(up[z][i].age >= TRANSIT_MAX)
      BY DEF Tick, Urgent
    <3>3. ASSUME NEW f \in FrameUp, NEW i \in DOMAIN up[z], up[z][i] = f
          PROVE  [f EXCEPT !.age = @ + 1] \in FrameUp
      BY <3>2, <3>3, RingCmdAssumption DEF FrameUp
    <3>4. QED BY <3>1, <3>3, OlderTyped
  <2>3. QED BY <2>1, <2>2 DEF Tick, WiresOK
<1>4. ZoneOK'
  <2>1. \A z \in Zones : (IF busy[z] = Idle THEN Idle ELSE [busy[z] EXCEPT !.t = @ + 1]) \in Job
    <3> TAKE z \in Zones
    <3>1. busy[z] \in Job
      BY DEF Rest, ZoneOK
    <3>2. Idle \in Job
      BY RingCmdAssumption DEF Job, JobTypes, Idle
    <3>3. [busy[z] EXCEPT !.t = @ + 1] \in Job
      BY <3>1 DEF Job
    <3>4. QED BY <3>2, <3>3
  <2>2. \A z \in Zones : [dup[z] EXCEPT !.age = AtMost(@ + 1, DUP_WINDOW + 1)] \in DupState
    <3> TAKE z \in Zones
    <3>1. dup[z] \in DupState
      BY DEF Rest, ZoneOK
    <3>2. AtMost(dup[z].age + 1, DUP_WINDOW + 1) \in 0 .. DUP_WINDOW + 1
      BY <3>1, RingCmdAssumption DEF DupState, AtMost
    <3>3. QED BY <3>1, <3>2 DEF DupState
  <2>3. ASSUME NEW z \in Zones, busy'[z].type \in JobTypes
        PROVE  busy'[z].seq \in Seqs
    <3>1. busy'[z] = IF busy[z] = Idle THEN Idle ELSE [busy[z] EXCEPT !.t = @ + 1]
      BY DEF Tick
    <3>2. busy[z] \in Job
      BY DEF Rest, ZoneOK
    <3>3. busy'[z].type = busy[z].type /\ busy'[z].seq = busy[z].seq
      BY <3>1, <3>2 DEF Job, Idle
    <3>4. QED BY <2>3, <3>3 DEF Rest, ZoneOK
  <2>4. QED BY <2>1, <2>2, <2>3 DEF Tick, Rest, ZoneOK
<1>5. HistoryOK'
  BY DEF Tick, Rest, HistoryOK, history
<1>6. QED BY <1>2, <1>3, <1>4, <1>5 DEF Rest

LEMMA DupStartedTyped ==
  ASSUME NEW s \in Seqs
  PROVE  DupStarted(s) \in DupState
BY SeqsTyped, RingCmdAssumption DEF DupStarted, DupState, ZoneStatus

LEMMA DupDoneTyped ==
  ASSUME NEW d \in DupState, NEW s \in Seqs, NEW status \in ZoneStatus
  PROVE  DupDone(d, s, status) \in DupState
<1>1. [seq |-> s, state |-> "replay", status |-> status, age |-> 0] \in DupState
  BY SeqsTyped, RingCmdAssumption DEF DupState
<1>2. QED BY <1>1 DEF DupDone

LEMMA RecordTyped ==
  ASSUME HistoryOK, NEW s \in Seqs, Record(s)
  PROVE  runs' \in [Seqs -> [boot : Nat, total : Nat]]
BY DEF HistoryOK, Record

LEMMA ResultsTyped ==
  ASSUME HistoryOK, NEW s \in Seqs, NEW status \in ZoneStatus,
         results' = [results EXCEPT ![s] = @ \cup {status}]
  PROVE  results' \in [Seqs -> SUBSET ZoneStatus]
BY DEF HistoryOK

(* A control task that takes up a job, or drops one, stays typed.           *)
LEMMA BusyTyped ==
  ASSUME ZoneOK, NEW z \in Zones, NEW job \in Job, job.type \in JobTypes => job.seq \in Seqs,
         busy' = [busy EXCEPT ![z] = job]
  PROVE  /\ busy' \in [Zones -> Job]
         /\ \A y \in Zones : busy'[y].type \in JobTypes => busy'[y].seq \in Seqs
<1>1. busy \in [Zones -> Job] /\ \A y \in Zones : busy[y].type \in JobTypes => busy[y].seq \in Seqs
  BY DEF ZoneOK
<1>2. \A y \in Zones : busy'[y] = IF y = z THEN job ELSE busy[y]
  BY <1>1
<1>3. QED BY <1>1, <1>2

LEMMA IdleTyped == Idle \in Job /\ Idle.type \notin JobTypes
BY RingCmdAssumption DEF Idle, Job, JobTypes

LEMMA JobTyped ==
  ASSUME NEW s \in Seqs, NEW type \in JobTypes
  PROVE  [seq |-> s, type |-> type, t |-> 0] \in Job
BY SeqsTyped DEF Job, JobTypes

LEMMA RestartedTyped ==
  ASSUME Rest, NEW z \in Zones, NEW img \in {"app", "rescue"}, Restarted(z, img),
         resets' \in 0 .. MAX_RESET
  PROVE  Rest'
<1>1. [seq |-> 0, type |-> "BOOT", t |-> 0] \in Job /\ "BOOT" \notin JobTypes
  BY RingCmdAssumption DEF Job, JobTypes
<1>2. EmptyDup \in DupState
  BY RingCmdAssumption DEF EmptyDup, DupState, ZoneStatus
<1>3. <<>> \in Seq(Received)
  OBVIOUS
<1>4. ZoneOK'
  <2>1. busy' \in [Zones -> Job] /\ \A y \in Zones : busy'[y].type \in JobTypes => busy'[y].seq \in Seqs
    BY <1>1, BusyTyped DEF Restarted, Rest
  <2>2. Seqs' = Seqs
    BY DEF Seqs
  <2>3. QED BY <1>2, <1>3, <2>1, <2>2 DEF Restarted, Rest, ZoneOK
<1>5. WiresOK'
  BY DEF Restarted, Rest, WiresOK, wires
<1>6. HistoryOK'
  BY DEF Restarted, Rest, HistoryOK
<1>7. QED BY <1>4, <1>5, <1>6 DEF Rest

(* Each step of the wires and of a zone's control task in turn.             *)
LEMMA RingKeepsTypes ==
  ASSUME Rest, NEW z \in Zones, Deliver(z) \/ LoseDown(z) \/ LoseUp(z)
  PROVE  Rest'
<1>1. CASE Deliver(z)
  <2> DEFINE f == Head(down[z])
  <2>1. down[z] \in Seq(FrameDown) /\ down[z] # <<>>
    BY <1>1 DEF Deliver, Rest, WiresOK
  <2>2. f \in FrameDown /\ Tail(down[z]) \in Seq(FrameDown)
    BY <2>1, HeadTailProperties
  <2>3. down' \in [Zones -> Seq(FrameDown)]
    BY <1>1, <2>2 DEF Deliver, Rest, WiresOK
  <2>4. UNCHANGED <<busy, dup, image, resets, runs, results>>
    BY <1>1 DEF Deliver, history
  <2>5. [seq |-> f.seq, type |-> f.type] \in Received
    BY <2>2 DEF FrameDown, Received
  <2>6. [kind |-> "unclaimed", seq |-> f.seq, status |-> "err", age |-> f.age] \in FrameUp
    BY <2>2 DEF FrameDown, FrameUp, ZoneStatus
  <2>7. Append(rxq[z], [seq |-> f.seq, type |-> f.type]) \in Seq(Received)
    BY <2>5 DEF Rest, ZoneOK
  <2>8. Append(up[z], [kind |-> "unclaimed", seq |-> f.seq, status |-> "err", age |-> f.age])
          \in Seq(FrameUp)
    BY <2>6 DEF Rest, WiresOK
  <2>9. \/ /\ rxq' = rxq \/ rxq' = [rxq EXCEPT ![z] = Append(@, [seq |-> f.seq, type |-> f.type])]
           /\ up' = up
        \/ /\ up' = [up EXCEPT ![z] = Append(@, [kind |-> "unclaimed", seq |-> f.seq,
                                                 status |-> "err", age |-> f.age])]
           /\ rxq' = rxq
    BY <1>1 DEF Deliver
  <2> HIDE DEF f
  <2>10. up' \in [Zones -> Seq(FrameUp)] /\ rxq' \in [Zones -> Seq(Received)]
    BY <2>7, <2>8, <2>9 DEF Rest, WiresOK, ZoneOK
  <2>11. QED BY <2>3, <2>4, <2>10 DEF Rest, WiresOK, ZoneOK, HistoryOK
<1>2. CASE LoseDown(z)
  <2>1. down[z] \in Seq(FrameDown) /\ down[z] # <<>>
    BY <1>2 DEF LoseDown, Rest, WiresOK
  <2>2. Tail(down[z]) \in Seq(FrameDown)
    BY <2>1, HeadTailProperties
  <2>3. QED BY <1>2, <2>2 DEF LoseDown, Rest, WiresOK, ZoneOK, HistoryOK, zoneRam, history
<1>3. CASE LoseUp(z)
  <2>1. up[z] \in Seq(FrameUp) /\ up[z] # <<>>
    BY <1>3 DEF LoseUp, Rest, WiresOK
  <2>2. Tail(up[z]) \in Seq(FrameUp)
    BY <2>1, HeadTailProperties
  <2>3. QED BY <1>3, <2>2 DEF LoseUp, Rest, WiresOK, ZoneOK, HistoryOK, zoneRam, history
<1>4. QED BY <1>1, <1>2, <1>3

LEMMA ZoneKeepsTypes ==
  ASSUME Rest, NEW z \in Zones, Zone(z)
  PROVE  Rest'
<1> DEFINE s == Head(rxq[z]).seq
<1>0. WiresOK /\ ZoneOK /\ HistoryOK
  BY DEF Rest
<1>1. CASE Retransmitted(z)
  <2>1. s \in Seqs /\ rxq' \in [Zones -> Seq(Received)]
    BY <1>0, <1>1, TakeFrameTyped DEF Retransmitted
  <2>2. dup[z].status \in ZoneStatus
    BY <1>0 DEF ZoneOK, DupState
  <2>3. down' = down /\ (SendAck(z, s, dup[z].status) \/ up' = up)
    BY <1>1 DEF Retransmitted
  <2> HIDE DEF s
  <2>4. WiresOK'
    BY <1>0, <2>1, <2>2, <2>3, SendAckTyped DEF WiresOK
  <2>5. QED BY <1>0, <1>1, <2>1, <2>4 DEF Retransmitted, Rest, ZoneOK, HistoryOK, history
<1>2. CASE BeginCmd(z)
  <2>1. s \in Seqs /\ rxq' \in [Zones -> Seq(Received)]
    BY <1>0, <1>2, TakeFrameTyped DEF BeginCmd
  <2>2. /\ dup' = [dup EXCEPT ![z] = DupStarted(s)]
        /\ busy' = [busy EXCEPT ![z] = [seq |-> s, type |-> "CMD", t |-> 0]]
        /\ Record(s)
        /\ UNCHANGED <<down, up, image, resets, results>>
    BY <1>2 DEF BeginCmd, wires
  <2> HIDE DEF s
  <2>3. busy' \in [Zones -> Job] /\ \A y \in Zones : busy'[y].type \in JobTypes => busy'[y].seq \in Seqs
    BY <1>0, <2>1, <2>2, BusyTyped, JobTyped DEF JobTypes
  <2>4. ZoneOK'
    BY <1>0, <2>1, <2>2, <2>3, DupStartedTyped DEF ZoneOK, Seqs
  <2>5. HistoryOK'
    BY <1>0, <2>1, <2>2, RecordTyped DEF HistoryOK
  <2>6. QED BY <1>0, <2>2, <2>4, <2>5 DEF Rest, WiresOK
<1>3. CASE FinishCmd(z)
  <2> DEFINE r == busy[z].seq
  <2>1. r \in Seqs
    BY <1>0, <1>3 DEF FinishCmd, ZoneOK, JobTypes
  <2>2. PICK status \in ZoneStatus :
          /\ dup' = [dup EXCEPT ![z] = DupDone(@, r, status)]
          /\ results' = [results EXCEPT ![r] = @ \cup {status}]
          /\ SendAck(z, r, status)
    BY <1>3 DEF FinishCmd
  <2>3. busy' = [busy EXCEPT ![z] = Idle] /\ UNCHANGED <<down, rxq, image, resets, runs>>
    BY <1>3 DEF FinishCmd
  <2> HIDE DEF r
  <2>4. busy' \in [Zones -> Job] /\ \A y \in Zones : busy'[y].type \in JobTypes => busy'[y].seq \in Seqs
    BY <1>0, <2>3, BusyTyped, IdleTyped
  <2>5. DupDone(dup[z], r, status) \in DupState
    BY <1>0, <2>1, DupDoneTyped DEF ZoneOK
  <2>6. ZoneOK'
    BY <1>0, <2>2, <2>3, <2>4, <2>5 DEF ZoneOK, Seqs
  <2>7. WiresOK'
    BY <1>0, <2>1, <2>2, <2>3, SendAckTyped
  <2>8. HistoryOK'
    BY <1>0, <2>1, <2>2, <2>3, ResultsTyped DEF HistoryOK
  <2>9. QED BY <2>6, <2>7, <2>8 DEF Rest
<1>4. CASE Commit(z)
  <2>1. s \in Seqs /\ rxq' \in [Zones -> Seq(Received)]
    BY <1>0, <1>4, TakeFrameTyped DEF Commit
  <2>2. PICK status \in ZoneStatus :
          /\ dup' = [dup EXCEPT ![z] = DupDone(DupStarted(s), s, status)]
          /\ Record(s)
          /\ results' = [results EXCEPT ![s] = @ \cup {status}]
          /\ SendAck(z, s, status)
          /\ \/ busy' = [busy EXCEPT ![z] = [seq |-> s, type |-> "CFG_COMMIT", t |-> 0]]
             \/ busy' = busy
    BY <1>4 DEF Commit
  <2>3. UNCHANGED <<down, image, resets>>
    BY <1>4 DEF Commit
  <2> HIDE DEF s
  <2>4. DupDone(DupStarted(s), s, status) \in DupState
    BY <2>1, DupStartedTyped, DupDoneTyped
  <2>5. ZoneOK'
    <3>1. busy' \in [Zones -> Job]
          /\ \A y \in Zones : busy'[y].type \in JobTypes => busy'[y].seq \in Seqs
      <4>1. CASE busy' = [busy EXCEPT ![z] = [seq |-> s, type |-> "CFG_COMMIT", t |-> 0]]
        BY <1>0, <2>1, <4>1, BusyTyped, JobTyped DEF JobTypes
      <4>2. CASE busy' = busy
        BY <1>0, <4>2 DEF ZoneOK
      <4>3. QED BY <2>2, <4>1, <4>2
    <3>2. QED BY <1>0, <2>1, <2>2, <2>3, <2>4, <3>1 DEF ZoneOK, Seqs
  <2>6. WiresOK'
    BY <1>0, <2>1, <2>2, <2>3, SendAckTyped
  <2>7. HistoryOK'
    BY <1>0, <2>1, <2>2, RecordTyped, ResultsTyped DEF HistoryOK
  <2>8. QED BY <2>5, <2>6, <2>7 DEF Rest
<1>5. CASE ConfigGet(z)
  <2>1. s \in Seqs /\ rxq' \in [Zones -> Seq(Received)]
    BY <1>0, <1>5, TakeFrameTyped DEF ConfigGet
  <2>2. /\ Record(s)
        /\ results' = [results EXCEPT ![s] = @ \cup {"ok"}]
        /\ SendAck(z, s, "ok")
        /\ UNCHANGED <<down, busy, dup, image, resets>>
    BY <1>5 DEF ConfigGet
  <2> HIDE DEF s
  <2>3. "ok" \in ZoneStatus
    BY DEF ZoneStatus
  <2>4. ZoneOK'
    BY <1>0, <2>1, <2>2 DEF ZoneOK
  <2>5. WiresOK'
    BY <1>0, <2>1, <2>2, <2>3, SendAckTyped
  <2>6. HistoryOK'
    BY <1>0, <2>1, <2>2, <2>3, RecordTyped, ResultsTyped DEF HistoryOK
  <2>7. QED BY <2>4, <2>5, <2>6 DEF Rest
<1>6. CASE FwUpdate(z)
  <2> DEFINE r == busy[z].seq
  <2>1. r \in Seqs
    BY <1>0, <1>6 DEF FwUpdate, ZoneOK, JobTypes
  <2>2. PICK status \in ZoneStatus :
          /\ Record(r)
          /\ results' = [results EXCEPT ![r] = @ \cup {status}]
          /\ SendAck(z, r, status)
          /\ \/ busy' = [busy EXCEPT ![z] = [seq |-> r, type |-> "FW_UPDATE", t |-> 0]]
             \/ busy' = [busy EXCEPT ![z] = Idle]
    BY <1>6 DEF FwUpdate
  <2>3. UNCHANGED <<down, rxq, dup, image, resets>>
    BY <1>6 DEF FwUpdate
  <2> HIDE DEF r
  <2>4. busy' \in [Zones -> Job] /\ \A y \in Zones : busy'[y].type \in JobTypes => busy'[y].seq \in Seqs
    <3>1. CASE busy' = [busy EXCEPT ![z] = [seq |-> r, type |-> "FW_UPDATE", t |-> 0]]
      BY <1>0, <2>1, <3>1, BusyTyped, JobTyped DEF JobTypes
    <3>2. CASE busy' = [busy EXCEPT ![z] = Idle]
      BY <1>0, <3>2, BusyTyped, IdleTyped
    <3>3. QED BY <2>2, <3>1, <3>2
  <2>5. ZoneOK'
    BY <1>0, <2>3, <2>4 DEF ZoneOK, Seqs
  <2>6. WiresOK'
    BY <1>0, <2>1, <2>2, <2>3, SendAckTyped
  <2>7. HistoryOK'
    BY <1>0, <2>1, <2>2, RecordTyped, ResultsTyped DEF HistoryOK
  <2>8. QED BY <2>5, <2>6, <2>7 DEF Rest
<1>7. CASE EnterRescue(z)
  BY <1>0, <1>7, RestartedTyped DEF EnterRescue, ZoneOK
<1>8. CASE BeginFwUpdate(z)
  <2>1. s \in Seqs /\ rxq' \in [Zones -> Seq(Received)]
    BY <1>0, <1>8, TakeFrameTyped DEF BeginFwUpdate
  <2>2. busy' = [busy EXCEPT ![z] = [seq |-> s, type |-> "FLUSH", t |-> 0]]
        /\ UNCHANGED <<down, up, dup, image, resets, runs, results>>
    BY <1>8 DEF BeginFwUpdate, wires, history
  <2> HIDE DEF s
  <2>3. busy' \in [Zones -> Job] /\ \A y \in Zones : busy'[y].type \in JobTypes => busy'[y].seq \in Seqs
    BY <1>0, <2>1, <2>2, BusyTyped, JobTyped DEF JobTypes
  <2>4. ZoneOK'
    BY <1>0, <2>1, <2>2, <2>3 DEF ZoneOK, Seqs
  <2>5. QED BY <1>0, <2>2, <2>4 DEF Rest, WiresOK, HistoryOK
<1>9. CASE BootDone(z) \/ Flushed(z)
  <2>1. busy' = [busy EXCEPT ![z] = Idle]
        /\ UNCHANGED <<down, up, rxq, dup, image, resets, runs, results>>
    BY <1>9 DEF BootDone, Flushed, wires, history
  <2>2. busy' \in [Zones -> Job] /\ \A y \in Zones : busy'[y].type \in JobTypes => busy'[y].seq \in Seqs
    BY <1>0, <2>1, BusyTyped, IdleTyped
  <2>3. ZoneOK'
    BY <1>0, <2>1, <2>2 DEF ZoneOK, Seqs
  <2>4. QED BY <1>0, <2>1, <2>3 DEF Rest, WiresOK, HistoryOK
<1>10. QED
  BY <1>1, <1>2, <1>3, <1>4, <1>5, <1>6, <1>7, <1>8, <1>9 DEF Zone

-----------------------------------------------------------------------------
(* The invariant of the specification *)

LEMMA InitQueueInv == Init => Books /\ Rest
<1> SUFFICES ASSUME Init
             PROVE  Books /\ Rest
  OBVIOUS
<1>1. q = <<>> /\ q \in Seq(Entry) /\ Len(q) = 0 /\ DOMAIN q = {} /\ SeqsOf(q) = {}
  <2>1. q = <<>>
    BY DEF Init
  <2>2. QED BY <2>1, EmptySeq DEF SeqsOf
<1>2. Books
  <2>1. MasterOK
    BY <1>1, RingCmdAssumption, TrkAssumption DEF Init, MasterOK, Outcomes
  <2>2. Fresh /\ Known /\ Accounted /\ QueueOrder
    BY <1>1 DEF Init, Fresh, Known, Accounted, QueueOrder
  <2>3. QED BY <2>1, <2>2 DEF Books
<1>3. Rest
  <2>1. WiresOK
    BY DEF Init, WiresOK
  <2>2. Idle \in Job /\ EmptyDup \in DupState /\ Idle.type \notin JobTypes
    BY IdleTyped, RingCmdAssumption DEF EmptyDup, DupState, ZoneStatus
  <2>3. ZoneOK
    BY <2>2, RingCmdAssumption DEF Init, ZoneOK
  <2>4. HistoryOK
    BY DEF Init, HistoryOK
  <2>5. QED BY <2>1, <2>3, <2>4 DEF Rest
<1>4. QED BY <1>2, <1>3

LEMMA NextQueueInv == Books /\ Rest /\ [Next]_vars => (Books /\ Rest)'
<1> SUFFICES ASSUME Books, Rest, [Next]_vars
             PROVE  Books' /\ Rest'
  OBVIOUS
<1>1. ASSUME NEW z \in Zones, NEW type \in Types, TakeSeq(z, type)
      PROVE  Books' /\ Rest'
  <2>1. Books'
    BY <1>1, TakeSeqKeepsBooks
  <2>2. Rest'
    BY <1>1 DEF TakeSeq, wires, zoneRam, history, Rest, WiresOK, ZoneOK, HistoryOK
  <2>3. QED BY <2>1, <2>2
<1>2. ASSUME NEW s \in Seqs, Submit(s)
      PROVE  Books' /\ Rest'
  <2>1. Books'
    BY <1>2, SubmitKeepsBooks
  <2>2. Rest'
    BY <1>2 DEF Submit, wires, zoneRam, history, Rest, WiresOK, ZoneOK, HistoryOK
  <2>3. QED BY <2>1, <2>2
<1>3. ASSUME NEW s \in Seqs, Cancel(s)
      PROVE  Books' /\ Rest'
  <2>1. Books'
    BY <1>3, CancelKeepsBooks
  <2>2. Rest'
    BY <1>3 DEF Cancel, wires, zoneRam, history, Rest, WiresOK, ZoneOK, HistoryOK
  <2>3. QED BY <2>1, <2>2
<1>4. CASE SendHead
  <2>1. Books'
    BY <1>4, SendHeadKeepsBooks
  <2> DEFINE f == [seq |-> q[1].seq, type |-> q[1].type, age |-> 0]
  <2>2. q[1] \in Entry
    BY <1>4, QueueFacts DEF Books, SendHead
  <2>3. q[1].dst \in Zones /\ f \in FrameDown
    BY <2>2, RingCmdAssumption DEF Entry, FrameDown
  <2>4. down' = [down EXCEPT ![q[1].dst] = Append(@, f)]
        /\ UNCHANGED <<up, rxq, busy, dup, image, resets, runs, results>>
    BY <1>4 DEF SendHead, Transmit, zoneRam, history
  <2> HIDE DEF f
  <2>5. WiresOK'
    BY <2>3, <2>4 DEF Rest, WiresOK
  <2>6. QED BY <2>1, <2>4, <2>5 DEF Rest, ZoneOK, HistoryOK
<1>5. CASE GiveUp
  <2>1. q # <<>> /\ ReportHead("timeout") /\ age' = age /\ nextSeq' = nextSeq /\ req' = req
    BY <1>5 DEF GiveUp, Due, InFlight
  <2>2. Books'
    BY <2>1, ReportHeadKeepsBooks
  <2>3. Rest'
    BY <1>5 DEF GiveUp, wires, zoneRam, history, Rest, WiresOK, ZoneOK, HistoryOK
  <2>4. QED BY <2>2, <2>3
<1>6. ASSUME NEW z \in Zones, MasterReceive(z)
      PROVE  Books' /\ Rest'
  <2>1. Books'
    BY <1>6, MasterReceiveKeepsBooks DEF Rest
  <2>2. up[z] \in Seq(FrameUp) /\ up[z] # <<>>
    BY <1>6 DEF MasterReceive, Rest, WiresOK
  <2>3. Tail(up[z]) \in Seq(FrameUp)
    BY <2>2, HeadTailProperties
  <2>4. up' = [up EXCEPT ![z] = Tail(@)]
        /\ UNCHANGED <<down, rxq, busy, dup, image, resets, runs, results>>
    BY <1>6 DEF MasterReceive, zoneRam, history
  <2>5. QED BY <2>1, <2>3, <2>4 DEF Rest, WiresOK, ZoneOK, HistoryOK
<1>7. ASSUME NEW z \in Zones, Deliver(z) \/ LoseDown(z) \/ LoseUp(z)
      PROVE  Books' /\ Rest'
  <2>1. UNCHANGED master
    BY <1>7 DEF Deliver, LoseDown, LoseUp
  <2>2. QED BY <1>7, <2>1, MasterIdleKeepsBooks, RingKeepsTypes
<1>8. ASSUME NEW z \in Zones, Zone(z)
      PROVE  Books' /\ Rest'
  <2>1. UNCHANGED master
    BY <1>8 DEF Zone, Retransmitted, BeginCmd, FinishCmd, Commit, Flushed, ConfigGet,
                BeginFwUpdate, FwUpdate, EnterRescue, Restarted, BootDone
  <2>2. QED BY <1>8, <2>1, MasterIdleKeepsBooks, ZoneKeepsTypes
<1>9. ASSUME NEW z \in Zones, LeaveRescue(z) \/ Reset(z)
      PROVE  Books' /\ Rest'
  <2>1. UNCHANGED master /\ Restarted(z, "app")
    BY <1>9 DEF LeaveRescue, Reset, Restarted
  <2>2. resets' \in 0 .. MAX_RESET
    BY <1>9, RingCmdAssumption DEF LeaveRescue, Reset, Rest, ZoneOK
  <2>3. QED BY <2>1, <2>2, MasterIdleKeepsBooks, RestartedTyped
<1>10. CASE Tick
  BY <1>10, TickKeepsTypes
<1>11. CASE UNCHANGED vars
  <2>1. UNCHANGED master /\ UNCHANGED <<wires, zoneRam, history>>
    BY <1>11 DEF vars
  <2>2. Rest'
    BY <2>1 DEF wires, zoneRam, history, Rest, WiresOK, ZoneOK, HistoryOK
  <2>3. QED BY <2>1, <2>2, MasterIdleKeepsBooks
<1>12. QED
  BY <1>1, <1>2, <1>3, <1>4, <1>5, <1>6, <1>7, <1>8, <1>9, <1>10, <1>11 DEF Next, Master

(* Books and types hold in every reachable state.                           *)
LEMMA QueueInvariant == Spec => [](Books /\ Rest)
BY InitQueueInv, NextQueueInv, PTL DEF Spec

(* The queue never outgrows its depth, no entry is sent more than           *)
(* MAX_ATTEMPTS times and no timer leaves its range: ring_trk.c, for every  *)
(* depth, attempt limit, ring and timer setting.                            *)
THEOREM TypeCorrect == Spec => []TypeOK
<1>1. Books /\ Rest => TypeOK
  BY DEF Books, Rest, TypeOK
<1>2. QED BY <1>1, QueueInvariant, PTL

(* Only the head is ever in flight and no command waits behind an unsent    *)
(* config frame: the insertion rule of ring_trk_submit is right for every   *)
(* depth and every interleaving of submissions, cancels and replies.        *)
THEOREM QueueOrdered == Spec => []QueueOrder
<1>1. Books => QueueOrder
  BY DEF Books
<1>2. QED BY <1>1, QueueInvariant, PTL

(* No accepted request is lost and none is reported while it is queued.     *)
THEOREM AllAccounted == Spec => []Accounted
<1>1. Books => Accounted
  BY DEF Books
<1>2. QED BY <1>1, QueueInvariant, PTL

-----------------------------------------------------------------------------
(* Where replies come from *)

(* Every ACK on its way and every cached ACK carries a result that the zone *)
(* produced for the request it names.                                       *)
Sourced ==
  /\ \A z \in Zones : \A i \in DOMAIN up[z] :
       up[z][i].kind = "ack" => up[z][i].status \in results[up[z][i].seq]
  /\ \A z \in Zones : dup[z].state = "replay" =>
       /\ dup[z].seq \in Seqs
       /\ dup[z].status \in results[dup[z].seq]

LEMMA AppendElements ==
  ASSUME NEW S, NEW s \in Seq(S), NEW e \in S
  PROVE  \A i \in DOMAIN Append(s, e) :
           Append(s, e)[i] = e \/ \E j \in DOMAIN s : Append(s, e)[i] = s[j]
OBVIOUS

LEMMA TailElements ==
  ASSUME NEW S, NEW s \in Seq(S), s # <<>>
  PROVE  /\ \A i \in DOMAIN Tail(s) : \E j \in DOMAIN s : Tail(s)[i] = s[j]
         /\ \E j \in DOMAIN s : Head(s) = s[j]
<1>1. /\ Tail(s) \in Seq(S) /\ Len(Tail(s)) = Len(s) - 1
      /\ \A i \in 1 .. Len(Tail(s)) : Tail(s)[i] = s[i + 1]
  BY HeadTailProperties
<1>2. DOMAIN s = 1 .. Len(s) /\ Len(s) \in Nat /\ Len(s) > 0
  BY LenProperties, EmptySeq
<1>3. DOMAIN Tail(s) = 1 .. Len(s) - 1
  BY <1>1, LenProperties
<1>4. \A i \in 1 .. Len(s) - 1 : i + 1 \in DOMAIN s
  BY <1>2
<1>5. Head(s) = s[1] /\ 1 \in DOMAIN s
  BY <1>2
<1>6. QED BY <1>1, <1>2, <1>3, <1>4, <1>5

(* If results only grow, and every frame on the way back is an old one, an  *)
(* unclaimed one or one with a result, then every ACK stays sourced.        *)
LEMMA SourcedStep ==
  ASSUME Rest, Sourced,
         \A s \in Seqs : results[s] \subseteq results'[s],
         \A z \in Zones : \A i \in DOMAIN up'[z] :
           \/ up'[z][i].kind = "ack" => up'[z][i].status \in results'[up'[z][i].seq]
           \/ \E j \in DOMAIN up[z] : /\ up'[z][i].kind = up[z][j].kind
                                      /\ up'[z][i].seq = up[z][j].seq
                                      /\ up'[z][i].status = up[z][j].status,
         \A z \in Zones :
           \/ dup'[z].state # "replay"
           \/ dup'[z].seq \in Seqs /\ dup'[z].status \in results'[dup'[z].seq]
           \/ dup'[z].state = dup[z].state /\ dup'[z].seq = dup[z].seq
              /\ dup'[z].status = dup[z].status
  PROVE  Sourced'
<1>1. ASSUME NEW z \in Zones, NEW i \in DOMAIN up'[z], up'[z][i].kind = "ack"
      PROVE  up'[z][i].status \in results'[up'[z][i].seq]
  <2> SUFFICES ASSUME NEW j \in DOMAIN up[z],
                      up[z][j].kind = "ack",
                      up'[z][i].seq = up[z][j].seq,
                      up'[z][i].status = up[z][j].status
               PROVE  up[z][j].status \in results'[up[z][j].seq]
    BY <1>1
  <2>1. up[z][j].status \in results[up[z][j].seq]
    BY DEF Sourced
  <2>2. up[z][j].seq \in Seqs
    <3>1. up[z] \in Seq(FrameUp)
      BY DEF Rest, WiresOK
    <3>2. up[z][j] \in FrameUp
      BY <3>1, LenProperties, ElementOfSeq
    <3>3. QED BY <3>2 DEF FrameUp
  <2>3. QED BY <2>1, <2>2
<1>2. ASSUME NEW z \in Zones, dup'[z].state = "replay"
      PROVE  dup'[z].seq \in Seqs /\ dup'[z].status \in results'[dup'[z].seq]
  BY <1>2 DEF Sourced
<1>3. Seqs' = Seqs
  BY DEF Seqs
<1>4. QED BY <1>1, <1>2, <1>3 DEF Sourced

LEMMA AckSourced ==
  ASSUME WiresOK, NEW z \in Zones, NEW s \in Seqs, NEW status \in ZoneStatus,
         SendAck(z, s, status), status \in results'[s]
  PROVE  \A y \in Zones : \A i \in DOMAIN up'[y] :
           \/ up'[y][i].kind = "ack" => up'[y][i].status \in results'[up'[y][i].seq]
           \/ \E j \in DOMAIN up[y] : /\ up'[y][i].kind = up[y][j].kind
                                      /\ up'[y][i].seq = up[y][j].seq
                                      /\ up'[y][i].status = up[y][j].status
<1> DEFINE f == [kind |-> "ack", seq |-> s, status |-> status, age |-> 0]
<1>1. f \in FrameUp /\ f.seq = s /\ f.status = status
  BY RingCmdAssumption DEF FrameUp
<1>2. up' = [up EXCEPT ![z] = Append(@, f)]
  BY DEF SendAck
<1> HIDE DEF f
<1> TAKE y \in Zones
<1>3. CASE y = z
  <2>1. up[z] \in Seq(FrameUp) /\ up'[y] = Append(up[z], f)
    BY <1>2, <1>3 DEF WiresOK
  <2>2. \A i \in DOMAIN up'[y] : up'[y][i] = f \/ \E j \in DOMAIN up[z] : up'[y][i] = up[z][j]
    BY <1>1, <2>1, AppendElements
  <2>3. QED BY <1>1, <1>3, <2>2
<1>4. CASE y # z
  <2>1. up'[y] = up[y]
    BY <1>2, <1>4 DEF WiresOK
  <2>2. QED BY <2>1
<1>5. QED BY <1>3, <1>4

LEMMA NextSourced == Books /\ Rest /\ Sourced /\ [Next]_vars => Sourced'
<1> SUFFICES ASSUME Books, Rest, Sourced, [Next]_vars
             PROVE  Sourced'
  OBVIOUS
<1>0. WiresOK /\ ZoneOK /\ HistoryOK /\ MasterOK
  BY DEF Rest, Books
<1>1. ASSUME UNCHANGED <<up, dup, results>>
      PROVE  Sourced'
  BY <1>1 DEF Sourced, Seqs
<1>2. ASSUME NEW z \in Zones, up[z] # <<>>, up' = [up EXCEPT ![z] = Tail(@)],
             UNCHANGED <<dup, results>>
      PROVE  Sourced'
  <2>1. ASSUME NEW y \in Zones, NEW i \in DOMAIN up'[y]
        PROVE  \E j \in DOMAIN up[y] : up'[y][i] = up[y][j]
    <3>1. up[z] \in Seq(FrameUp)
      BY <1>0 DEF WiresOK
    <3>2. CASE y = z
      <4>1. up'[y] = Tail(up[z])
        BY <1>0, <1>2, <3>2 DEF WiresOK
      <4>2. QED BY <1>2, <3>1, <3>2, <4>1, TailElements
    <3>3. CASE y # z
      BY <1>0, <1>2, <3>3 DEF WiresOK
    <3>4. QED BY <3>2, <3>3
  <2>2. QED BY <1>2, <2>1, SourcedStep
<1>3. ASSUME NEW z \in Zones, Deliver(z)
      PROVE  Sourced'
  <2>1. CASE up' = up
    BY <1>1, <1>3, <2>1 DEF Deliver, history
  <2>2. CASE up' # up
    <3> DEFINE f == [kind |-> "unclaimed", seq |-> Head(down[z]).seq,
                     status |-> "err", age |-> Head(down[z]).age]
    <3>1. up' = [up EXCEPT ![z] = Append(@, f)] /\ UNCHANGED <<dup, results>>
      BY <1>3, <2>2 DEF Deliver, history
    <3>2. f \in FrameUp /\ f.kind # "ack"
      <4>1. down[z] \in Seq(FrameDown) /\ down[z] # <<>>
        BY <1>0, <1>3 DEF Deliver, WiresOK
      <4>2. Head(down[z]) \in FrameDown
        BY <4>1, HeadTailProperties
      <4>3. QED BY <4>2 DEF FrameDown, FrameUp, ZoneStatus
    <3> HIDE DEF f
    <3>3. ASSUME NEW y \in Zones, NEW i \in DOMAIN up'[y]
          PROVE  up'[y][i].kind # "ack" \/ \E j \in DOMAIN up[y] : up'[y][i] = up[y][j]
      <4>1. CASE y = z
        <5>1. up'[y] = Append(up[z], f) /\ up[z] \in Seq(FrameUp)
          BY <1>0, <3>1, <4>1 DEF WiresOK
        <5>2. \A m \in DOMAIN up'[y] : up'[y][m] = f \/ \E j \in DOMAIN up[z] : up'[y][m] = up[z][j]
          BY <3>2, <5>1, AppendElements
        <5>3. QED BY <3>2, <4>1, <5>2
      <4>2. CASE y # z
        BY <1>0, <3>1, <4>2 DEF WiresOK
      <4>3. QED BY <4>1, <4>2
    <3>4. QED BY <3>1, <3>3, SourcedStep
  <2>3. QED BY <2>1, <2>2
<1>4. ASSUME NEW z \in Zones, NEW s \in Seqs, NEW status \in ZoneStatus,
             SendAck(z, s, status), status \in results'[s],
             \A r \in Seqs : results[r] \subseteq results'[r],
             \A y \in Zones :
               \/ dup'[y].state # "replay"
               \/ dup'[y].seq \in Seqs /\ dup'[y].status \in results'[dup'[y].seq]
               \/ dup'[y].state = dup[y].state /\ dup'[y].seq = dup[y].seq
                  /\ dup'[y].status = dup[y].status
      PROVE  Sourced'
  BY <1>0, <1>4, AckSourced, SourcedStep
<1>5. ASSUME NEW z \in Zones, Retransmitted(z)
      PROVE  Sourced'
  <2> DEFINE s == Head(rxq[z]).seq
  <2>1. UNCHANGED <<dup, results>> /\ s \in Seqs
    BY <1>0, <1>5, TakeFrameTyped DEF Retransmitted, history
  <2>2. CASE up' = up
    BY <1>1, <2>1, <2>2
  <2>3. CASE up' # up
    <3>1. DupVerdict(z, s) = "replay" /\ SendAck(z, s, dup[z].status)
      BY <1>5, <2>3 DEF Retransmitted
    <3>2. dup[z].seq = s /\ dup[z].state = "replay"
      BY <3>1 DEF DupVerdict
    <3>3. dup[z].status \in results[s] /\ dup[z].status \in ZoneStatus
      BY <1>0, <3>2 DEF Sourced, ZoneOK, DupState
    <3> HIDE DEF s
    <3>4. QED BY <1>4, <2>1, <3>1, <3>3
  <2>4. QED BY <2>2, <2>3
<1>6. ASSUME NEW z \in Zones, BeginCmd(z)
      PROVE  Sourced'
  <2>1. UNCHANGED <<up, results>>
        /\ dup' = [dup EXCEPT ![z] = DupStarted(Head(rxq[z]).seq)]
    BY <1>6 DEF BeginCmd, wires
  <2>2. \A y \in Zones : dup'[y].state # "replay" \/ dup'[y] = dup[y]
    BY <1>0, <2>1 DEF ZoneOK, DupStarted
  <2>3. QED BY <2>1, <2>2, SourcedStep
<1>7. ASSUME NEW z \in Zones, FinishCmd(z)
      PROVE  Sourced'
  <2> DEFINE r == busy[z].seq
  <2>1. r \in Seqs
    BY <1>0, <1>7 DEF FinishCmd, ZoneOK, JobTypes
  <2>2. PICK status \in ZoneStatus :
          /\ dup' = [dup EXCEPT ![z] = DupDone(@, r, status)]
          /\ results' = [results EXCEPT ![r] = @ \cup {status}]
          /\ SendAck(z, r, status)
    BY <1>7 DEF FinishCmd
  <2> HIDE DEF r
  <2>3. status \in results'[r] /\ \A x \in Seqs : results[x] \subseteq results'[x]
    BY <1>0, <2>1, <2>2 DEF HistoryOK
  <2>4. \A y \in Zones : dup'[y] = dup[y] \/ (dup'[y].seq = r /\ dup'[y].status = status)
    BY <1>0, <2>2 DEF ZoneOK, DupDone
  <2>5. QED BY <1>4, <2>1, <2>2, <2>3, <2>4
<1>8. ASSUME NEW z \in Zones, Commit(z)
      PROVE  Sourced'
  <2> DEFINE s == Head(rxq[z]).seq
  <2>1. s \in Seqs
    BY <1>0, <1>8, TakeFrameTyped DEF Commit
  <2>2. PICK status \in ZoneStatus :
          /\ dup' = [dup EXCEPT ![z] = DupDone(DupStarted(s), s, status)]
          /\ results' = [results EXCEPT ![s] = @ \cup {status}]
          /\ SendAck(z, s, status)
    BY <1>8 DEF Commit
  <2> HIDE DEF s
  <2>3. status \in results'[s] /\ \A x \in Seqs : results[x] \subseteq results'[x]
    BY <1>0, <2>1, <2>2 DEF HistoryOK
  <2>4. \A y \in Zones : dup'[y] = dup[y] \/ (dup'[y].seq = s /\ dup'[y].status = status)
    BY <1>0, <2>2 DEF ZoneOK, DupDone, DupStarted
  <2>5. QED BY <1>4, <2>1, <2>2, <2>3, <2>4
<1>9. ASSUME NEW z \in Zones, ConfigGet(z) \/ FwUpdate(z)
      PROVE  Sourced'
  <2>1. PICK s \in Seqs, status \in ZoneStatus :
          /\ results' = [results EXCEPT ![s] = @ \cup {status}]
          /\ SendAck(z, s, status)
          /\ dup' = dup
    <3>1. CASE ConfigGet(z)
      <4>1. Head(rxq[z]).seq \in Seqs
        BY <1>0, <3>1, TakeFrameTyped DEF ConfigGet
      <4>2. "ok" \in ZoneStatus
        BY DEF ZoneStatus
      <4>3. QED BY <3>1, <4>1, <4>2 DEF ConfigGet
    <3>2. CASE FwUpdate(z)
      <4>1. busy[z].seq \in Seqs
        BY <1>0, <3>2 DEF FwUpdate, ZoneOK, JobTypes
      <4>2. QED BY <3>2, <4>1 DEF FwUpdate
    <3>3. QED BY <1>9, <3>1, <3>2
  <2>2. status \in results'[s] /\ \A x \in Seqs : results[x] \subseteq results'[x]
    BY <1>0, <2>1 DEF HistoryOK
  <2>3. QED BY <1>4, <2>1, <2>2
<1>10. ASSUME NEW z \in Zones, NEW img, Restarted(z, img)
       PROVE  Sourced'
  <2>1. UNCHANGED <<up, results>> /\ dup' = [dup EXCEPT ![z] = EmptyDup]
    BY <1>10 DEF Restarted, wires
  <2>2. \A y \in Zones : dup'[y].state # "replay" \/ dup'[y] = dup[y]
    BY <1>0, <2>1 DEF ZoneOK, EmptyDup
  <2>3. QED BY <2>1, <2>2, SourcedStep
<1>11. CASE Tick
  <2>1. UNCHANGED results
    BY <1>11 DEF Tick, history
  <2>2. ASSUME NEW y \in Zones, NEW i \in DOMAIN up'[y]
        PROVE  /\ i \in DOMAIN up[y]
               /\ up'[y][i].kind = up[y][i].kind
               /\ up'[y][i].seq = up[y][i].seq
               /\ up'[y][i].status = up[y][i].status
    <3>1. up'[y] = [m \in DOMAIN up[y] |-> [up[y][m] EXCEPT !.age = @ + 1]]
      BY <1>11 DEF Tick, Older
    <3>2. i \in DOMAIN up[y] /\ up'[y][i] = [up[y][i] EXCEPT !.age = @ + 1]
      BY <2>2, <3>1
    <3>3. up[y] \in Seq(FrameUp)
      BY <1>0 DEF WiresOK
    <3>4. up[y][i] \in FrameUp
      BY <3>2, <3>3, LenProperties, ElementOfSeq
    <3>5. QED BY <3>2, <3>4 DEF FrameUp
  <2>3. ASSUME NEW y \in Zones
        PROVE  dup'[y].state = dup[y].state /\ dup'[y].seq = dup[y].seq
               /\ dup'[y].status = dup[y].status
    <3>1. dup'[y] = [dup[y] EXCEPT !.age = AtMost(@ + 1, DUP_WINDOW + 1)]
      BY <1>11 DEF Tick
    <3>2. dup[y] \in DupState
      BY <1>0 DEF ZoneOK
    <3>3. QED BY <3>1, <3>2 DEF DupState
  <2>4. QED BY <2>1, <2>2, <2>3, SourcedStep
<1>12. CASE \E z \in Zones : MasterReceive(z) \/ LoseUp(z)
  BY <1>2, <1>12 DEF MasterReceive, LoseUp, zoneRam, history
<1>13. CASE \/ \E z \in Zones, type \in Types : TakeSeq(z, type)
            \/ \E s \in Seqs : Submit(s) \/ Cancel(s)
            \/ SendHead \/ GiveUp
            \/ \E z \in Zones : LoseDown(z) \/ BootDone(z) \/ Flushed(z) \/ BeginFwUpdate(z)
            \/ UNCHANGED vars
  BY <1>1, <1>13 DEF TakeSeq, Submit, Cancel, SendHead, GiveUp, LoseDown, BootDone,
                     Flushed, BeginFwUpdate, vars, wires, zoneRam, history
<1>14. CASE \E z \in Zones : EnterRescue(z) \/ LeaveRescue(z) \/ Reset(z)
  BY <1>10, <1>14 DEF EnterRescue, LeaveRescue, Reset
<1>15. QED
  BY <1>3, <1>5, <1>6, <1>7, <1>8, <1>9, <1>11, <1>12, <1>13, <1>14 DEF Next, Master, Zone

LEMMA ResultsGrow ==
  ASSUME HistoryOK, Next
  PROVE  \A s \in Seqs : results[s] \subseteq results'[s]
<1>1. ASSUME NEW r, NEW status, results' = [results EXCEPT ![r] = @ \cup {status}]
      PROVE  \A s \in Seqs : results[s] \subseteq results'[s]
  BY <1>1 DEF HistoryOK
<1>2. CASE \E z \in Zones : FinishCmd(z) \/ Commit(z) \/ ConfigGet(z) \/ FwUpdate(z)
  BY <1>1, <1>2 DEF FinishCmd, Commit, ConfigGet, FwUpdate
<1>3. CASE results' = results
  BY <1>3
<1>4. QED
  BY <1>2, <1>3 DEF Next, Master, Zone, TakeSeq, Submit, Cancel, SendHead, GiveUp, MasterReceive,
     Deliver, LoseDown, LoseUp, Retransmitted, BeginCmd, Flushed, BeginFwUpdate, EnterRescue,
     LeaveRescue, Reset, Restarted, BootDone, Tick, wires, zoneRam, history

(* The only step that hands a submitter a zone's status takes it from an    *)
(* ACK that is on the wire and names that very request.                     *)
LEMMA OutcomeStep ==
  ASSUME Books, Rest, Sourced, Next, NEW s \in Seqs, outcome'[s] \in ZoneStatus
  PROVE  outcome'[s] = outcome[s] \/ outcome'[s] \in results[s]
<1>0. outcome \in [Seqs -> Outcomes] /\ MasterOK /\ WiresOK
  BY DEF Books, MasterOK, Rest
<1>1. ASSUME NEW r, NEW what, what \notin ZoneStatus, outcome' = [outcome EXCEPT ![r] = what]
      PROVE  outcome'[s] = outcome[s]
  BY <1>0, <1>1
<1>2. ASSUME NEW z \in Zones, NEW type \in Types, TakeSeq(z, type)
      PROVE  outcome'[s] = outcome[s]
  BY <1>1, <1>2 DEF TakeSeq, ZoneStatus
<1>3. ASSUME NEW r \in Seqs, Submit(r) \/ Cancel(r)
      PROVE  outcome'[s] = outcome[s]
  BY <1>1, <1>3 DEF Submit, Cancel, ZoneStatus
<1>4. CASE GiveUp
  BY <1>1, <1>4 DEF GiveUp, ReportHead, ZoneStatus
<1>5. ASSUME NEW z \in Zones, MasterReceive(z)
      PROVE  outcome'[s] = outcome[s] \/ outcome'[s] \in results[s]
  <2> DEFINE f == Head(up[z])
  <2>1. up[z] # <<>>
    BY <1>5 DEF MasterReceive
  <2>2. PICK j \in DOMAIN up[z] : f = up[z][j]
    BY <1>0, <2>1, TailElements DEF WiresOK
  <2>3. \/ f.kind = "ack" /\ AckMatches(q, f.seq) /\ ReportHead(f.status)
        \/ ReportHead("unknown")
        \/ outcome' = outcome
    BY <1>5 DEF MasterReceive
  <2>4. f.kind = "ack" => f.status \in results[f.seq]
    BY <2>2 DEF Sourced
  <2> HIDE DEF f
  <2>5. CASE f.kind = "ack" /\ AckMatches(q, f.seq) /\ ReportHead(f.status)
    BY <1>0, <2>4, <2>5 DEF ReportHead, AckMatches
  <2>6. CASE ReportHead("unknown")
    BY <1>1, <2>6 DEF ReportHead, ZoneStatus
  <2>7. QED BY <2>3, <2>5, <2>6
<1>6. CASE outcome' = outcome
  BY <1>6
<1>7. QED
  BY <1>2, <1>3, <1>4, <1>5, <1>6 DEF Next, Master, Zone, SendHead,
     Deliver, LoseDown, LoseUp, Retransmitted, BeginCmd, FinishCmd, Commit, Flushed, ConfigGet,
     BeginFwUpdate, FwUpdate, EnterRescue, LeaveRescue, Reset, Restarted, BootDone, Tick, master

(* A reply the submitter is given is one its zone produced for that request,*)
(* however ACKs are delayed, lost, repeated or overtaken by give-ups.       *)
THEOREM RepliesGenuine == Spec => []ReplyIsGenuine
<1> DEFINE Inv == Books /\ Rest /\ Sourced /\ ReplyIsGenuine
<1>1. Init => Inv
  <2>1. Init => Sourced /\ ReplyIsGenuine
    BY DEF Init, Sourced, EmptyDup, ReplyIsGenuine, ZoneStatus
  <2>2. QED BY <2>1, InitQueueInv
<1>2. Inv /\ [Next]_vars => Inv'
  <2> SUFFICES ASSUME Inv, [Next]_vars
               PROVE  Inv'
    OBVIOUS
  <2>1. (Books /\ Rest /\ Sourced)'
    BY NextQueueInv, NextSourced
  <2>2. ReplyIsGenuine'
    <3>1. CASE UNCHANGED vars
      BY <3>1 DEF vars, master, history, ReplyIsGenuine, Seqs, ZoneStatus
    <3>2. CASE Next
      <4>1. \A s \in Seqs : results[s] \subseteq results'[s]
        BY <3>2, ResultsGrow DEF Rest
      <4>2. \A s \in Seqs : outcome'[s] \in ZoneStatus =>
              outcome'[s] = outcome[s] \/ outcome'[s] \in results[s]
        BY <3>2, OutcomeStep
      <4>3. QED BY <4>1, <4>2 DEF ReplyIsGenuine, Seqs, ZoneStatus
    <3>3. QED BY <3>1, <3>2
  <2>3. QED BY <2>1, <2>2
<1>3. Inv => ReplyIsGenuine
  OBVIOUS
<1>4. QED BY <1>1, <1>2, <1>3, PTL DEF Spec

-----------------------------------------------------------------------------
(* What has not been sent has left no trace *)

(* Not yet transmitted: still with its submitter, refused, withdrawn, or    *)
(* queued with no attempt made.                                             *)
Unsent(s) ==
  \/ outcome[s] \in {"none", "taken", "busy", "cancelled"}
  \/ \E i \in DOMAIN q : q[i].seq = s /\ q[i].att = 0

(* A zone, or a wire towards one, has seen it.                              *)
Touched(s) ==
  \/ runs[s].total > 0
  \/ runs[s].boot > 0
  \/ \E z \in Zones :
       \/ s \in SeqsOf(down[z])
       \/ s \in SeqsOf(rxq[z])
       \/ dup[z].seq = s
       \/ busy[z].seq = s

Untouched == \A s \in Seqs : Unsent(s) => ~Touched(s)

(* The elements of a sequence after its two moves.                          *)
LEMMA TailAt ==
  ASSUME NEW S, NEW s \in Seq(S), s # <<>>
  PROVE  /\ Len(s) \in Nat
         /\ DOMAIN s = 1 .. Len(s)
         /\ 1 \in DOMAIN s
         /\ Head(s) = s[1]
         /\ DOMAIN Tail(s) = 1 .. Len(s) - 1
         /\ \A i \in 1 .. Len(s) - 1 : i + 1 \in DOMAIN s /\ Tail(s)[i] = s[i + 1]
<1>1. Len(s) \in Nat \ {0} /\ DOMAIN s = 1 .. Len(s)
  BY LenProperties, EmptySeq
<1>2. /\ Tail(s) \in Seq(S)
      /\ Len(Tail(s)) = Len(s) - 1
      /\ \A i \in 1 .. Len(Tail(s)) : Tail(s)[i] = s[i + 1]
  BY HeadTailProperties
<1>3. DOMAIN Tail(s) = 1 .. Len(s) - 1
  BY <1>2, LenProperties
<1>4. Head(s) = s[1]
  OBVIOUS
<1>5. \A i \in 1 .. Len(s) - 1 : i + 1 \in 1 .. Len(s)
  BY <1>1
<1>6. QED BY <1>1, <1>2, <1>3, <1>4, <1>5

LEMMA AppendAt ==
  ASSUME NEW S, NEW s \in Seq(S), NEW e \in S
  PROVE  /\ Len(s) \in Nat
         /\ DOMAIN s = 1 .. Len(s)
         /\ DOMAIN Append(s, e) = 1 .. Len(s) + 1
         /\ \A i \in 1 .. Len(s) : Append(s, e)[i] = s[i]
         /\ Append(s, e)[Len(s) + 1] = e
OBVIOUS

LEMMA TailSeqs ==
  ASSUME NEW S, NEW s \in Seq(S), s # <<>>
  PROVE  SeqsOf(Tail(s)) \subseteq SeqsOf(s) /\ Head(s).seq \in SeqsOf(s)
<1>1. /\ \A i \in DOMAIN Tail(s) : \E j \in DOMAIN s : Tail(s)[i] = s[j]
      /\ \E j \in DOMAIN s : Head(s) = s[j]
  BY TailElements
<1>2. QED BY <1>1 DEF SeqsOf

LEMMA AppendSeqs ==
  ASSUME NEW S, NEW s \in Seq(S), NEW e \in S
  PROVE  SeqsOf(Append(s, e)) \subseteq SeqsOf(s) \cup {e.seq}
<1>1. \A i \in DOMAIN Append(s, e) :
        Append(s, e)[i] = e \/ \E j \in DOMAIN s : Append(s, e)[i] = s[j]
  BY AppendElements
<1>2. QED BY <1>1 DEF SeqsOf

(* A submission adds one entry, and never in front of the one in flight.    *)
LEMMA SubmittedElements ==
  ASSUME MasterOK, QueueOrder, NEW e \in Entry, e.att = 0
  PROVE  /\ \A i \in DOMAIN Submitted(q, e) :
              Submitted(q, e)[i] = e \/ \E j \in DOMAIN q : Submitted(q, e)[i] = q[j]
         /\ InFlight(Submitted(q, e)) => InFlight(q) /\ Submitted(q, e)[1] = q[1]
<1> DEFINE k == InsertSlot(q, e.type)
           t == Submitted(q, e)
<1>1. q \in Seq(Entry) /\ Len(q) \in Nat /\ DOMAIN q = 1 .. Len(q)
  BY QueueFacts DEF MasterOK
<1>2. k \in FirstSlot(q) .. Len(q) + 1
  BY <1>1, InsertSlotProperties
<1>3. k \in 1 .. Len(q) + 1 /\ (InFlight(q) => k >= 2)
  BY <1>1, <1>2 DEF FirstSlot
<1>a. t = InsertAt(q, k, e)
  BY DEF Submitted
<1> HIDE DEF k, t
<1>4. /\ t \in Seq(Entry)
      /\ Len(t) = Len(q) + 1
      /\ \A i \in 1 .. Len(q) + 1 : t[i] = IF i < k THEN q[i] ELSE IF i = k THEN e ELSE q[i - 1]
  <2>1. PICK m \in 1 .. Len(q) + 1 : m = k
    BY <1>3
  <2>2. InsertAt(q, m, e) \in Seq(Entry)
    BY <1>1, InsertAtProperties
  <2>3. Len(InsertAt(q, m, e)) = Len(q) + 1
    BY <1>1, InsertAtProperties
  <2>4. \A i \in 1 .. Len(q) + 1 :
          InsertAt(q, m, e)[i] = IF i < m THEN q[i] ELSE IF i = m THEN e ELSE q[i - 1]
    BY <1>1, InsertAtProperties
  <2>5. QED BY <1>a, <2>1, <2>2, <2>3, <2>4
<1>5. DOMAIN t = 1 .. Len(q) + 1
  BY <1>1, <1>4, LenProperties
<1>6. ASSUME NEW i \in DOMAIN t
      PROVE  t[i] = e \/ \E j \in DOMAIN q : t[i] = q[j]
  BY <1>1, <1>3, <1>4, <1>5
<1>7. ASSUME InFlight(t)
      PROVE  InFlight(q) /\ t[1] = q[1]
  <2>1. t[1] = IF 1 < k THEN q[1] ELSE e
    BY <1>1, <1>3, <1>4
  <2>2. t[1].att > 0
    BY <1>7 DEF InFlight
  <2>3. k > 1 /\ t[1] = q[1]
    BY <2>1, <2>2, <1>3
  <2>4. q # <<>>
    <3>1. Len(q) + 1 > 1
      BY <1>1, <1>3, <2>3
    <3>2. QED BY <1>1, <3>1, EmptySeq
  <2>5. QED BY <2>2, <2>3, <2>4 DEF InFlight
<1>8. QED BY <1>6, <1>7 DEF t

(* A removal adds nothing, and what follows the head is not in flight.      *)
LEMMA TailUnsent ==
  ASSUME MasterOK, QueueOrder, q # <<>>
  PROVE  /\ \A i \in DOMAIN Tail(q) : \E j \in DOMAIN q : Tail(q)[i] = q[j]
         /\ ~InFlight(Tail(q))
<1>1. q \in Seq(Entry)
  BY DEF MasterOK
<1>2. /\ DOMAIN Tail(q) = 1 .. Len(q) - 1 /\ Len(q) \in Nat /\ DOMAIN q = 1 .. Len(q)
      /\ \A i \in 1 .. Len(q) - 1 : i + 1 \in DOMAIN q /\ Tail(q)[i] = q[i + 1]
  BY <1>1, TailAt
<1>3. ASSUME InFlight(Tail(q))
      PROVE  FALSE
  <2>1. Tail(q) \in Seq(Entry) /\ Tail(q) # <<>> /\ Tail(q)[1].att > 0
    BY <1>1, <1>3, HeadTailProperties DEF InFlight
  <2>2. 1 \in DOMAIN Tail(q)
    BY <2>1, TailAt
  <2>3. Tail(q)[1] = q[2] /\ 2 \in DOMAIN q /\ 1 \in DOMAIN q
    BY <1>2, <2>2
  <2>4. q[2].att = 0
    BY <2>3 DEF QueueOrder
  <2>5. QED BY <2>1, <2>3, <2>4
<1>4. QED BY <1>2, <1>3

LEMMA CancelledElements ==
  ASSUME MasterOK, QueueOrder, Accounted, NEW s, Cancellable(q, s)
  PROVE  /\ \A i \in DOMAIN Cancelled(q, s) : \E j \in DOMAIN q : Cancelled(q, s)[i] = q[j]
         /\ InFlight(Cancelled(q, s)) => InFlight(q) /\ Cancelled(q, s)[1] = q[1]
<1>1. DOMAIN q = 1 .. Len(q) /\ Len(q) \in Nat /\ q \in Seq(Entry)
  BY QueueFacts DEF MasterOK
<1>2. PICK k \in 1 .. Len(q) : q[k].seq = s /\ Cancelled(q, s) = RemoveAt(q, k)
  BY <1>1 DEF Cancelled, Cancellable
<1>3. q[k].att = 0
  BY <1>1, <1>2 DEF Cancellable, Accounted
<1> DEFINE t == RemoveAt(q, k)
<1>4. /\ t \in Seq(Entry)
      /\ Len(t) = Len(q) - 1
      /\ \A i \in 1 .. Len(q) - 1 : t[i] = IF i < k THEN q[i] ELSE q[i + 1]
  BY <1>1, RemoveAtProperties
<1> HIDE DEF t
<1>5. DOMAIN t = 1 .. Len(q) - 1
  BY <1>1, <1>4, LenProperties
<1>6. ASSUME NEW i \in DOMAIN t
      PROVE  \E j \in DOMAIN q : t[i] = q[j]
  BY <1>1, <1>4, <1>5
<1>7. ASSUME InFlight(t)
      PROVE  InFlight(q) /\ t[1] = q[1]
  <2>1. t # <<>> /\ t[1].att > 0
    BY <1>7 DEF InFlight
  <2>2. 1 \in DOMAIN t
    BY <1>4, <2>1, TailAt
  <2>3. 1 \in DOMAIN q /\ 2 \in DOMAIN q /\ t[1] = IF 1 < k THEN q[1] ELSE q[2]
    BY <1>1, <1>4, <1>5, <2>2
  <2>4. q[2].att = 0
    BY <2>3 DEF QueueOrder
  <2>5. t[1] = q[1]
    BY <2>1, <2>3, <2>4
  <2>6. q # <<>>
    BY <1>1, <2>3, EmptySeq
  <2>7. QED BY <2>1, <2>5, <2>6 DEF InFlight
<1>8. QED BY <1>2, <1>6, <1>7 DEF t

(* No step but a first transmission changes which entry is in flight, and   *)
(* no step makes a request unsent that was sent.                            *)
LEMMA MasterStep ==
  ASSUME Books, Rest, [Next]_vars
  PROVE  /\ \A s \in Seqs : Unsent(s)' => Unsent(s)
         /\ InFlight(q') => SendHead \/ (InFlight(q) /\ q'[1] = q[1])
<1>0. MasterOK /\ QueueOrder /\ Accounted /\ Seqs' = Seqs
  BY DEF Books, Seqs
<1> DEFINE Goal == /\ \A s \in Seqs : Unsent(s)' => Unsent(s)
                   /\ InFlight(q') => SendHead \/ (InFlight(q) /\ q'[1] = q[1])
<1> SUFFICES Goal
  OBVIOUS
<1>1. ASSUME UNCHANGED <<q, outcome>>
      PROVE  Goal
  BY <1>1 DEF Unsent
<1>2. ASSUME NEW z \in Zones, NEW type \in Types, TakeSeq(z, type)
      PROVE  Goal
  <2>1. nextSeq + 1 \in Seqs /\ outcome[nextSeq + 1] = "none"
    BY <1>2, SeqsTyped, RingCmdAssumption DEF TakeSeq, Seqs, Books, MasterOK, Fresh
  <2>2. q' = q /\ outcome' = [outcome EXCEPT ![nextSeq + 1] = "taken"]
    BY <1>2 DEF TakeSeq
  <2>3. QED BY <1>0, <2>1, <2>2 DEF Unsent, MasterOK
<1>3. ASSUME NEW r \in Seqs, Submit(r)
      PROVE  Goal
  <2> DEFINE e == [seq |-> r, dst |-> req[r].dst, type |-> req[r].type, att |-> 0]
  <2>1. outcome[r] = "taken" /\ req[r] \in Request
    BY <1>3 DEF Submit, Books, Known
  <2>2. CASE q' = q
    BY <1>0, <1>3, <2>1, <2>2 DEF Submit, Unsent, MasterOK
  <2>3. CASE q' = Submitted(q, e) /\ outcome' = [outcome EXCEPT ![r] = "pending"]
    <3>1. e \in Entry /\ e.att = 0 /\ e.seq = r
      BY <2>1, TrkAssumption DEF Entry, Request
    <3> HIDE DEF e
    <3>2. /\ \A i \in DOMAIN q' : q'[i] = e \/ \E j \in DOMAIN q : q'[i] = q[j]
          /\ InFlight(q') => InFlight(q) /\ q'[1] = q[1]
      BY <1>0, <2>3, <3>1, SubmittedElements
    <3>3. ASSUME NEW s \in Seqs, Unsent(s)'
          PROVE  Unsent(s)
      <4>1. CASE s = r
        BY <2>1, <4>1 DEF Unsent
      <4>2. CASE s # r
        <5>1. outcome'[s] = outcome[s]
          BY <1>0, <2>3, <4>2 DEF MasterOK
        <5>2. QED BY <3>1, <3>2, <3>3, <4>2, <5>1 DEF Unsent
      <4>3. QED BY <4>1, <4>2
    <3>4. QED BY <3>2, <3>3
  <2>4. QED BY <1>3, <2>2, <2>3 DEF Submit
<1>4. CASE SendHead
  <2>1. q # <<>> /\ q[1].att < MAX_ATTEMPTS /\ q' = Sent(q) /\ outcome' = outcome
    BY <1>4, TrkAssumption DEF SendHead
  <2>2. /\ q' \in Seq(Entry) /\ Len(q') = Len(q)
        /\ \A i \in 1 .. Len(q) : /\ q'[i].seq = q[i].seq
                                  /\ q'[i].att = IF i = 1 THEN q[i].att + 1 ELSE q[i].att
    BY <1>0, <2>1, SentProperties
  <2>3. DOMAIN q' = 1 .. Len(q) /\ DOMAIN q = 1 .. Len(q)
    BY <1>0, <2>2, LenProperties, QueueFacts
  <2>4. q[1].att \in Nat
    BY <1>0, <2>1, QueueFacts DEF Entry
  <2>5. ASSUME NEW i \in DOMAIN q', q'[i].att = 0
        PROVE  q[i].att = 0
    BY <2>2, <2>3, <2>4, <2>5
  <2>6. QED BY <1>4, <2>1, <2>2, <2>3, <2>5 DEF Unsent
<1>5. ASSUME NEW what \in {"timeout", "unknown"} \cup ZoneStatus, InFlight(q), ReportHead(what)
      PROVE  Goal
  <2>1. q # <<>> /\ q' = Tail(q) /\ outcome' = [outcome EXCEPT ![q[1].seq] = what]
    BY <1>5 DEF InFlight, ReportHead
  <2>2. /\ \A i \in DOMAIN q' : \E j \in DOMAIN q : q'[i] = q[j]
        /\ ~InFlight(q')
    BY <1>0, <2>1, TailUnsent
  <2>3. what \notin {"none", "taken", "busy", "cancelled"}
    BY DEF ZoneStatus
  <2>4. ASSUME NEW s \in Seqs, outcome'[s] \in {"none", "taken", "busy", "cancelled"}
        PROVE  outcome[s] = outcome'[s]
    BY <1>0, <2>1, <2>3, <2>4 DEF MasterOK
  <2>5. QED BY <2>2, <2>4 DEF Unsent
<1>6. ASSUME NEW r \in Seqs, Cancel(r)
      PROVE  Goal
  <2>1. Cancellable(q, r) /\ q' = Cancelled(q, r) /\ outcome' = [outcome EXCEPT ![r] = "cancelled"]
    BY <1>6 DEF Cancel
  <2>2. /\ \A i \in DOMAIN q' : \E j \in DOMAIN q : q'[i] = q[j]
        /\ InFlight(q') => InFlight(q) /\ q'[1] = q[1]
    BY <1>0, <2>1, CancelledElements
  <2>3. Unsent(r)
    BY <2>1 DEF Cancellable, Unsent
  <2>4. \A s \in Seqs : s # r => outcome'[s] = outcome[s]
    BY <1>0, <2>1 DEF MasterOK
  <2>5. QED BY <2>2, <2>3, <2>4 DEF Unsent
<1>7. CASE GiveUp
  BY <1>5, <1>7 DEF GiveUp, Due
<1>8. ASSUME NEW z \in Zones, MasterReceive(z)
      PROVE  Goal
  <2> DEFINE f == Head(up[z])
  <2>1. f.status \in ZoneStatus
    <3>1. up[z] \in Seq(FrameUp) /\ up[z] # <<>>
      BY <1>8 DEF MasterReceive, Rest, WiresOK
    <3>2. Head(up[z]) \in FrameUp
      BY <3>1, HeadTailProperties
    <3>3. QED BY <3>2 DEF FrameUp
  <2>2. \/ AckMatches(q, f.seq) /\ ReportHead(f.status)
        \/ UnclaimedMatches(q, f.seq, z) /\ ReportHead("unknown")
        \/ UNCHANGED <<q, outcome>>
    BY <1>8 DEF MasterReceive
  <2> HIDE DEF f
  <2>3. QED BY <1>1, <1>5, <2>1, <2>2 DEF AckMatches, UnclaimedMatches
<1>9. CASE \/ \E z \in Zones : \/ Deliver(z) \/ LoseDown(z) \/ LoseUp(z) \/ Zone(z)
                               \/ LeaveRescue(z) \/ Reset(z)
           \/ Tick
           \/ UNCHANGED vars
  <2>1. ASSUME NEW z \in Zones, Deliver(z) \/ LoseDown(z) \/ LoseUp(z)
        PROVE  Goal
    BY <1>1, <2>1 DEF Deliver, LoseDown, LoseUp, master
  <2>2. ASSUME NEW z \in Zones, Zone(z)
        PROVE  Goal
    <3>1. CASE Retransmitted(z) \/ BeginCmd(z)
      BY <1>1, <3>1 DEF Retransmitted, BeginCmd, master
    <3>5. CASE FinishCmd(z)
      BY <1>1, <3>5 DEF FinishCmd, master
    <3>6. CASE Commit(z)
      BY <1>1, <3>6 DEF Commit, master
    <3>2. CASE Flushed(z) \/ ConfigGet(z) \/ BeginFwUpdate(z)
      BY <1>1, <3>2 DEF Flushed, ConfigGet, BeginFwUpdate, master
    <3>7. CASE FwUpdate(z)
      BY <1>1, <3>7 DEF FwUpdate, master
    <3>3. CASE EnterRescue(z) \/ BootDone(z)
      BY <1>1, <3>3 DEF EnterRescue, Restarted, BootDone, master
    <3>4. QED BY <2>2, <3>1, <3>2, <3>3, <3>5, <3>6, <3>7 DEF Zone
  <2>3. ASSUME NEW z \in Zones, LeaveRescue(z) \/ Reset(z)
        PROVE  Goal
    BY <1>1, <2>3 DEF LeaveRescue, Reset, Restarted, master
  <2>4. CASE Tick \/ UNCHANGED vars
    BY <1>1, <2>4 DEF Tick, vars, master
  <2>5. QED BY <1>9, <2>1, <2>2, <2>3, <2>4
<1>10. QED
  BY <1>2, <1>3, <1>4, <1>6, <1>7, <1>8, <1>9 DEF Next, Master

(* A zone learns of a request only from the wire, the wire only from the    *)
(* head of the queue.                                                       *)
LEMMA TouchedStep ==
  ASSUME Books, Rest, [Next]_vars, NEW s \in Seqs, Touched(s)'
  PROVE  Touched(s) \/ (SendHead /\ s = q[1].seq)
<1>0. WiresOK /\ ZoneOK /\ HistoryOK /\ MasterOK /\ s > 0
  BY SeqsTyped DEF Rest, Books, Seqs
<1>1. ASSUME /\ runs'[s].total > 0 \/ runs'[s].boot > 0 => Touched(s)
             /\ \A z \in Zones : /\ s \in SeqsOf(down'[z]) => Touched(s)
                                 /\ s \in SeqsOf(rxq'[z]) => Touched(s)
                                 /\ dup'[z].seq = s => Touched(s)
                                 /\ busy'[z].seq = s => Touched(s)
      PROVE  Touched(s)
  BY <1>1 DEF Touched
<1>2. /\ runs[s].total > 0 \/ runs[s].boot > 0 => Touched(s)
      /\ \A z \in Zones : /\ s \in SeqsOf(down[z]) => Touched(s)
                          /\ s \in SeqsOf(rxq[z]) => Touched(s)
                          /\ dup[z].seq = s => Touched(s)
                          /\ busy[z].seq = s => Touched(s)
  BY DEF Touched
(* a frame taken off a wire, one put in the consume queue *)
<1>3. ASSUME NEW z \in Zones, down[z] # <<>>, down' = [down EXCEPT ![z] = Tail(@)]
      PROVE  /\ \A y \in Zones : s \in SeqsOf(down'[y]) => Touched(s)
             /\ Head(down[z]).seq \in SeqsOf(down[z])
  <2>1. SeqsOf(Tail(down[z])) \subseteq SeqsOf(down[z]) /\ Head(down[z]).seq \in SeqsOf(down[z])
    BY <1>0, <1>3, TailSeqs DEF WiresOK
  <2>2. \A y \in Zones : down'[y] = IF y = z THEN Tail(down[z]) ELSE down[y]
    BY <1>0, <1>3 DEF WiresOK
  <2>3. QED BY <1>2, <2>1, <2>2
<1>4. ASSUME NEW z \in Zones, NEW types, TakeFrame(z, types)
      PROVE  /\ \A y \in Zones : s \in SeqsOf(rxq'[y]) => Touched(s)
             /\ Head(rxq[z]).seq \in Seqs
             /\ Head(rxq[z]).seq = s => Touched(s)
  <2>1. rxq[z] \in Seq(Received) /\ rxq[z] # <<>> /\ rxq' = [rxq EXCEPT ![z] = Tail(@)]
    BY <1>0, <1>4 DEF TakeFrame, ZoneOK
  <2>2. SeqsOf(Tail(rxq[z])) \subseteq SeqsOf(rxq[z]) /\ Head(rxq[z]).seq \in SeqsOf(rxq[z])
    BY <2>1, TailSeqs
  <2>3. \A y \in Zones : rxq'[y] = IF y = z THEN Tail(rxq[z]) ELSE rxq[y]
    BY <1>0, <2>1 DEF ZoneOK
  <2>4. Head(rxq[z]).seq \in Seqs
    BY <1>0, <1>4, TakeFrameTyped
  <2>5. QED BY <1>2, <2>2, <2>3, <2>4
<1>5. ASSUME NEW r \in Seqs, Record(r), r = s => Touched(s)
      PROVE  runs'[s].total > 0 \/ runs'[s].boot > 0 => Touched(s)
  <2>1. r # s => runs'[s] = runs[s]
    BY <1>0, <1>5 DEF Record, HistoryOK
  <2>2. QED BY <1>2, <1>5, <2>1
<1>6. ASSUME NEW z \in Zones, NEW job, busy' = [busy EXCEPT ![z] = job], job.seq = s => Touched(s)
      PROVE  \A y \in Zones : busy'[y].seq = s => Touched(s)
  <2>1. \A y \in Zones : busy'[y] = IF y = z THEN job ELSE busy[y]
    BY <1>0, <1>6 DEF ZoneOK
  <2>2. QED BY <1>2, <1>6, <2>1
<1>7. ASSUME NEW z \in Zones, NEW d, dup' = [dup EXCEPT ![z] = d], d.seq = s => Touched(s)
      PROVE  \A y \in Zones : dup'[y].seq = s => Touched(s)
  <2>1. \A y \in Zones : dup'[y] = IF y = z THEN d ELSE dup[y]
    BY <1>0, <1>7 DEF ZoneOK
  <2>2. QED BY <1>2, <1>7, <2>1
<1>8. Idle.seq # s
  BY <1>0 DEF Idle
<1>9. CASE SendHead
  <2> DEFINE f == [seq |-> q[1].seq, type |-> q[1].type, age |-> 0]
  <2>1. q[1] \in Entry
    BY <1>0, <1>9, QueueFacts DEF SendHead
  <2>2. q[1].dst \in Zones /\ f \in FrameDown /\ f.seq = q[1].seq
    BY <2>1, RingCmdAssumption DEF Entry, FrameDown
  <2>3. down' = [down EXCEPT ![q[1].dst] = Append(@, f)]
        /\ UNCHANGED <<rxq, busy, dup, runs>>
    BY <1>9 DEF SendHead, Transmit, zoneRam, history
  <2> HIDE DEF f
  <2>4. SeqsOf(Append(down[q[1].dst], f)) \subseteq SeqsOf(down[q[1].dst]) \cup {q[1].seq}
    BY <1>0, <2>2, AppendSeqs DEF WiresOK
  <2>5. \A y \in Zones : down'[y] = IF y = q[1].dst THEN Append(down[y], f) ELSE down[y]
    BY <1>0, <2>3 DEF WiresOK
  <2>6. CASE s = q[1].seq
    BY <1>9, <2>6
  <2>7. CASE s # q[1].seq
    BY <1>1, <1>2, <2>2, <2>3, <2>4, <2>5, <2>7
  <2>8. QED BY <2>6, <2>7
<1>10. ASSUME NEW z \in Zones, Deliver(z)
       PROVE  Touched(s)
  <2> DEFINE g == [seq |-> Head(down[z]).seq, type |-> Head(down[z]).type]
  <2>1. /\ down[z] # <<>> /\ down' = [down EXCEPT ![z] = Tail(@)]
        /\ rxq' = rxq \/ rxq' = [rxq EXCEPT ![z] = Append(@, g)]
        /\ UNCHANGED <<busy, dup, runs>>
    BY <1>10 DEF Deliver, history
  <2>2. g \in Received /\ g.seq = Head(down[z]).seq
    <3>1. Head(down[z]) \in FrameDown
      BY <1>0, <2>1, HeadTailProperties DEF WiresOK
    <3>2. QED BY <3>1 DEF FrameDown, Received
  <2> HIDE DEF g
  <2>3. SeqsOf(Append(rxq[z], g)) \subseteq SeqsOf(rxq[z]) \cup {g.seq}
    BY <1>0, <2>2, AppendSeqs DEF ZoneOK
  <2>4. \A y \in Zones : rxq'[y] = rxq[y] \/ (y = z /\ rxq'[y] = Append(rxq[z], g))
    BY <1>0, <2>1 DEF ZoneOK
  <2>5. g.seq = s => Touched(s)
    BY <1>2, <1>3, <2>1, <2>2
  <2>6. \A y \in Zones : s \in SeqsOf(rxq'[y]) => Touched(s)
    BY <1>2, <2>3, <2>4, <2>5
  <2>7. QED BY <1>1, <1>2, <1>3, <2>1, <2>6
<1>11. ASSUME NEW z \in Zones, LoseDown(z)
       PROVE  Touched(s)
  BY <1>1, <1>2, <1>3, <1>11 DEF LoseDown, zoneRam, history
<1>12. ASSUME NEW z \in Zones, Retransmitted(z)
       PROVE  Touched(s)
  BY <1>1, <1>2, <1>4, <1>12 DEF Retransmitted, history
<1>13. ASSUME NEW z \in Zones, BeginCmd(z)
       PROVE  Touched(s)
  <2> DEFINE r == Head(rxq[z]).seq
  <2>1. /\ TakeFrame(z, {"CMD"}) /\ Record(r) /\ down' = down
        /\ dup' = [dup EXCEPT ![z] = DupStarted(r)]
        /\ busy' = [busy EXCEPT ![z] = [seq |-> r, type |-> "CMD", t |-> 0]]
    BY <1>13 DEF BeginCmd, wires
  <2>2. r \in Seqs /\ (r = s => Touched(s))
    BY <1>4, <2>1
  <2>3. DupStarted(r).seq = r /\ [seq |-> r, type |-> "CMD", t |-> 0].seq = r
    BY DEF DupStarted
  <2>4. \A y \in Zones : s \in SeqsOf(rxq'[y]) => Touched(s)
    BY <1>4, <2>1
  <2> HIDE DEF r
  <2>5. QED BY <1>1, <1>2, <1>5, <1>6, <1>7, <2>1, <2>2, <2>3, <2>4
<1>14. ASSUME NEW z \in Zones, Commit(z)
       PROVE  Touched(s)
  <2> DEFINE r == Head(rxq[z]).seq
  <2>1. PICK status \in ZoneStatus :
          /\ TakeFrame(z, {"CFG_COMMIT"}) /\ Record(r) /\ down' = down
          /\ dup' = [dup EXCEPT ![z] = DupDone(DupStarted(r), r, status)]
          /\ \/ busy' = [busy EXCEPT ![z] = [seq |-> r, type |-> "CFG_COMMIT", t |-> 0]]
             \/ busy' = busy
    BY <1>14 DEF Commit
  <2>2. r \in Seqs /\ (r = s => Touched(s))
    BY <1>4, <2>1
  <2>3. DupDone(DupStarted(r), r, status).seq = r
        /\ [seq |-> r, type |-> "CFG_COMMIT", t |-> 0].seq = r
    BY DEF DupStarted, DupDone
  <2>4. \A y \in Zones : s \in SeqsOf(rxq'[y]) => Touched(s)
    BY <1>4, <2>1
  <2> HIDE DEF r
  <2>5. \A y \in Zones : busy'[y].seq = s => Touched(s)
    BY <1>2, <1>6, <2>1, <2>2, <2>3
  <2>6. \A y \in Zones : dup'[y].seq = s => Touched(s)
    BY <1>7, <2>1, <2>2, <2>3
  <2>7. QED BY <1>1, <1>2, <1>5, <2>1, <2>2, <2>4, <2>5, <2>6
<1>15. ASSUME NEW z \in Zones, FinishCmd(z)
       PROVE  Touched(s)
  <2>1. PICK status \in ZoneStatus :
          /\ dup' = [dup EXCEPT ![z] = DupDone(@, busy[z].seq, status)]
          /\ busy' = [busy EXCEPT ![z] = Idle]
          /\ UNCHANGED <<down, rxq, runs>>
    BY <1>15 DEF FinishCmd
  <2>2. DupDone(dup[z], busy[z].seq, status).seq = dup[z].seq
    BY DEF DupDone
  <2>3. dup' = [dup EXCEPT ![z] = DupDone(dup[z], busy[z].seq, status)]
    BY <2>1
  <2>4. \A y \in Zones : dup'[y].seq = s => Touched(s)
    BY <1>2, <1>7, <2>2, <2>3
  <2>5. \A y \in Zones : busy'[y].seq = s => Touched(s)
    BY <1>6, <1>8, <2>1
  <2>6. QED BY <1>1, <1>2, <2>1, <2>4, <2>5
<1>16. ASSUME NEW z \in Zones, Flushed(z) \/ BootDone(z)
       PROVE  Touched(s)
  <2>1. busy' = [busy EXCEPT ![z] = Idle] /\ UNCHANGED <<down, rxq, dup, runs>>
    BY <1>16 DEF Flushed, BootDone, wires, history
  <2>2. QED BY <1>1, <1>2, <1>6, <1>8, <2>1
<1>17. ASSUME NEW z \in Zones, ConfigGet(z)
       PROVE  Touched(s)
  <2>1. /\ TakeFrame(z, {"CFG_GET"}) /\ Record(Head(rxq[z]).seq)
        /\ UNCHANGED <<down, busy, dup>>
    BY <1>17 DEF ConfigGet
  <2>2. QED BY <1>1, <1>2, <1>4, <1>5, <2>1
<1>18. ASSUME NEW z \in Zones, BeginFwUpdate(z)
       PROVE  Touched(s)
  <2> DEFINE r == Head(rxq[z]).seq
  <2>1. /\ TakeFrame(z, {"FW_UPDATE"}) /\ UNCHANGED <<down, dup, runs>>
        /\ busy' = [busy EXCEPT ![z] = [seq |-> r, type |-> "FLUSH", t |-> 0]]
    BY <1>18 DEF BeginFwUpdate, wires, history
  <2>2. (r = s => Touched(s)) /\ [seq |-> r, type |-> "FLUSH", t |-> 0].seq = r
    BY <1>4, <2>1
  <2>3. \A y \in Zones : s \in SeqsOf(rxq'[y]) => Touched(s)
    BY <1>4, <2>1
  <2> HIDE DEF r
  <2>4. QED BY <1>1, <1>2, <1>6, <2>1, <2>2, <2>3
<1>19. ASSUME NEW z \in Zones, FwUpdate(z)
       PROVE  Touched(s)
  <2> DEFINE r == busy[z].seq
  <2>1. /\ Record(r) /\ UNCHANGED <<down, rxq, dup>>
        /\ \/ busy' = [busy EXCEPT ![z] = [seq |-> r, type |-> "FW_UPDATE", t |-> 0]]
           \/ busy' = [busy EXCEPT ![z] = Idle]
    BY <1>19 DEF FwUpdate
  <2>2. r \in Seqs /\ (r = s => Touched(s)) /\ [seq |-> r, type |-> "FW_UPDATE", t |-> 0].seq = r
    BY <1>0, <1>2, <1>19 DEF FwUpdate, ZoneOK, JobTypes
  <2> HIDE DEF r
  <2>3. \A y \in Zones : busy'[y].seq = s => Touched(s)
    BY <1>6, <1>8, <2>1, <2>2
  <2>4. QED BY <1>1, <1>2, <1>5, <2>1, <2>2, <2>3
<1>20. ASSUME NEW z \in Zones, NEW img, Restarted(z, img)
       PROVE  Touched(s)
  <2>1. /\ rxq' = [rxq EXCEPT ![z] = <<>>]
        /\ busy' = [busy EXCEPT ![z] = [seq |-> 0, type |-> "BOOT", t |-> 0]]
        /\ dup' = [dup EXCEPT ![z] = EmptyDup]
        /\ runs' = [r \in Seqs |-> IF req[r].dst = z THEN [runs[r] EXCEPT !.boot = 0] ELSE runs[r]]
        /\ down' = down
    BY <1>20 DEF Restarted, wires
  <2>2. [seq |-> 0, type |-> "BOOT", t |-> 0].seq # s /\ EmptyDup.seq # s
    BY <1>0 DEF EmptyDup
  <2>3. runs'[s] = runs[s] \/ runs'[s] = [runs[s] EXCEPT !.boot = 0]
    BY <2>1
  <2>4. runs'[s].total = runs[s].total /\ (runs'[s].boot = runs[s].boot \/ runs'[s].boot = 0)
    BY <1>0, <2>3 DEF HistoryOK
  <2>5. \A y \in Zones : rxq'[y] = rxq[y] \/ rxq'[y] = <<>>
    BY <1>0, <2>1 DEF ZoneOK
  <2>6. SeqsOf(<<>>) = {}
    BY DEF SeqsOf
  <2>7. \A y \in Zones : s \in SeqsOf(rxq'[y]) => Touched(s)
    BY <1>2, <2>5, <2>6
  <2>8. \A y \in Zones : busy'[y].seq = s => Touched(s)
    BY <1>6, <2>1, <2>2
  <2>9. \A y \in Zones : dup'[y].seq = s => Touched(s)
    BY <1>7, <2>1, <2>2
  <2>10. QED BY <1>1, <1>2, <2>1, <2>4, <2>7, <2>8, <2>9
<1>21. CASE Tick
  <2>1. UNCHANGED <<rxq, runs>>
    BY <1>21 DEF Tick, history
  <2>2. ASSUME NEW y \in Zones
        PROVE  SeqsOf(down'[y]) = SeqsOf(down[y])
    <3>1. down'[y] = [i \in DOMAIN down[y] |-> [down[y][i] EXCEPT !.age = @ + 1]]
      BY <1>21 DEF Tick, Older
    <3>2. down[y] \in Seq(FrameDown)
      BY <1>0 DEF WiresOK
    <3>3. \A i \in DOMAIN down[y] : down'[y][i].seq = down[y][i].seq
      BY <3>1, <3>2, LenProperties, ElementOfSeq DEF FrameDown
    <3>4. QED BY <3>1, <3>3 DEF SeqsOf
  <2>3. ASSUME NEW y \in Zones
        PROVE  busy'[y].seq = busy[y].seq /\ dup'[y].seq = dup[y].seq
    <3>1. /\ busy'[y] = IF busy[y] = Idle THEN Idle ELSE [busy[y] EXCEPT !.t = @ + 1]
          /\ dup'[y] = [dup[y] EXCEPT !.age = AtMost(@ + 1, DUP_WINDOW + 1)]
      BY <1>21 DEF Tick
    <3>2. busy[y] \in Job /\ dup[y] \in DupState
      BY <1>0 DEF ZoneOK
    <3>3. QED BY <3>1, <3>2 DEF Job, DupState
  <2>4. QED BY <1>1, <1>2, <2>1, <2>2, <2>3
<1>22. CASE \/ \E z \in Zones, type \in Types : TakeSeq(z, type)
            \/ \E r \in Seqs : Submit(r) \/ Cancel(r)
            \/ GiveUp
            \/ \E z \in Zones : MasterReceive(z) \/ LoseUp(z)
            \/ UNCHANGED vars
  BY <1>1, <1>2, <1>22 DEF TakeSeq, Submit, Cancel, GiveUp, MasterReceive, LoseUp,
     vars, wires, zoneRam, history
<1>23. CASE \E z \in Zones : EnterRescue(z) \/ LeaveRescue(z) \/ Reset(z)
  BY <1>20, <1>23 DEF EnterRescue, LeaveRescue, Reset
<1>24. QED
  BY <1>9, <1>10, <1>11, <1>12, <1>13, <1>14, <1>15, <1>16, <1>17, <1>18, <1>19, <1>21,
     <1>22, <1>23 DEF Next, Master, Zone

LEMMA InitUntouched == Init => Untouched
<1> SUFFICES ASSUME Init, NEW s \in Seqs
             PROVE  ~Touched(s)
  BY DEF Untouched
<1>1. s # 0
  BY SeqsTyped DEF Seqs
<1>2. SeqsOf(<<>>) = {}
  BY DEF SeqsOf
<1>3. QED BY <1>1, <1>2 DEF Init, Touched, Idle, EmptyDup

LEMMA NextUntouched == Books /\ Rest /\ Untouched /\ [Next]_vars => Untouched'
<1> SUFFICES ASSUME Books, Rest, Untouched, [Next]_vars, NEW s \in Seqs, Unsent(s)', Touched(s)'
             PROVE  FALSE
  BY DEF Untouched, Seqs
<1>1. Unsent(s)
  BY MasterStep
<1>2. SendHead /\ s = q[1].seq
  BY <1>1, TouchedStep DEF Untouched
<1>3. /\ MasterOK /\ q # <<>> /\ q[1].att < MAX_ATTEMPTS /\ q' = Sent(q) /\ outcome' = outcome
  BY <1>2, TrkAssumption DEF SendHead, Books
<1>4. /\ Distinct(q) /\ 1 \in 1 .. Len(q) /\ DOMAIN q = 1 .. Len(q) /\ q[1] \in Entry
      /\ q[1].seq \in SeqsOf(q)
  BY <1>3, QueueFacts DEF Books, Accounted, Distinct
<1>5. outcome[s] = "pending"
  BY <1>2, <1>4 DEF Books, Accounted
<1>6. PICK i \in DOMAIN q' : q'[i].seq = s /\ q'[i].att = 0
  BY <1>3, <1>5 DEF Unsent
<1>7. /\ q' \in Seq(Entry) /\ Len(q') = Len(q) /\ Distinct(q')
      /\ \A j \in 1 .. Len(q) : /\ q'[j].seq = q[j].seq
                                /\ q'[j].att = IF j = 1 THEN q[j].att + 1 ELSE q[j].att
  BY <1>3, <1>4, SentProperties
<1>8. i \in 1 .. Len(q)
  BY <1>6, <1>7, LenProperties
<1>9. i = 1
  BY <1>2, <1>4, <1>6, <1>7, <1>8 DEF Distinct
<1>10. q'[1].att > 0
  BY <1>4, <1>7 DEF Entry
<1>11. QED BY <1>6, <1>9, <1>10

(* A withdrawn config frame never reaches a zone: nmgr_cancel's contract,   *)
(* for any number of zones and any interleaving of submissions, cancels,    *)
(* retransmissions and resets.                                              *)
THEOREM WithdrawnStaysUnsent == Spec => []WithdrawnNeverSent
<1>1. Untouched /\ HistoryOK => WithdrawnNeverSent
  <2> SUFFICES ASSUME Untouched, HistoryOK, NEW s \in Seqs, outcome[s] = "cancelled"
               PROVE  /\ runs[s].total = 0
                      /\ \A z \in Zones : s \notin SeqsOf(down[z]) \cup SeqsOf(rxq[z])
    BY DEF WithdrawnNeverSent
  <2>1. ~Touched(s)
    BY DEF Untouched, Unsent
  <2>2. runs[s].total \in Nat
    BY DEF HistoryOK
  <2>3. QED BY <2>1, <2>2 DEF Touched
<1>2. Spec => []Untouched
  BY QueueInvariant, InitUntouched, NextUntouched, PTL DEF Spec
<1>3. Books /\ Rest => HistoryOK
  BY DEF Rest
<1>4. QED BY <1>1, <1>2, <1>3, QueueInvariant, PTL

-----------------------------------------------------------------------------
(* Once per boot: what the order of the frames and the window rest on *)

(* Every copy of a request carries its request's type to its request's zone, *)
(* and the cache holds only requests it is meant for.                        *)
Labelled ==
  /\ \A i \in DOMAIN q : req[q[i].seq] = [dst |-> q[i].dst, type |-> q[i].type]
  /\ \A z \in Zones :
       /\ \A i \in DOMAIN down[z] : req[down[z][i].seq] = [dst |-> z, type |-> down[z][i].type]
       /\ \A i \in DOMAIN rxq[z] : req[rxq[z][i].seq] = [dst |-> z, type |-> rxq[z][i].type]
       /\ dup[z].seq # 0 => req[dup[z].seq].type \in DedupTypes
       /\ busy[z].seq # 0 => req[busy[z].seq].dst = z

(* What a control task is busy with, and the state of its cache meanwhile.  *)
JobOK(z) ==
  /\ busy[z].type = "none" => busy[z] = Idle
  /\ busy[z].seq # 0 <=> busy[z].type \in JobTypes
  /\ busy[z].type = "CMD" => /\ dup[z].seq = busy[z].seq
                             /\ dup[z].state = "absorb"
                             /\ runs[busy[z].seq].boot > 0
  /\ busy[z].type = "CFG_COMMIT" => /\ dup[z].seq = busy[z].seq
                                    /\ dup[z].age <= busy[z].t
                                    /\ busy[z].t <= FLUSH_MAX
  /\ busy[z].type \in {"FLUSH", "FW_UPDATE"} => req[busy[z].seq].type = "FW_UPDATE"
  /\ rxq[z] # <<>> => Runs(z, "app")
  /\ dup[z].seq # 0 => dup[z].state \in {"absorb", "replay"}

Jobs == \A z \in Zones : JobOK(z)

(* The cached answer of a request is young enough for every copy of it that *)
(* is still to come: one the master may send, one on the wire, one queued.  *)
TimelyAt(z) ==
  dup[z].state = "replay" =>
    /\ InFlight(q) /\ q[1].seq = dup[z].seq => dup[z].age <= (q[1].att - 1) * ACK_TIMEOUT + age
    /\ \A i \in DOMAIN down[z] : down[z][i].seq = dup[z].seq =>
         dup[z].age <= (MAX_ATTEMPTS - 1) * ACK_TIMEOUT + down[z][i].age
    /\ \A i \in DOMAIN rxq[z] : rxq[z][i].seq = dup[z].seq =>
         \/ busy[z].type = "CFG_COMMIT"
         \/ busy[z].type = "none" /\ dup[z].age <= DUP_WINDOW

InTime == \A z \in Zones : TimelyAt(z)

(* r ranks the requests in the order of their first transmission; a zone    *)
(* takes frames in that order, and f[z] is the rank of the last it took.    *)
Rising(r, s)    == \A i, j \in DOMAIN s : i <= j => r[s[i].seq] <= r[s[j].seq]
Before(r, s, t) == \A i \in DOMAIN s, j \in DOMAIN t : r[s[i].seq] <= r[t[j].seq]
From(r, m, s)   == \A i \in DOMAIN s : m <= r[s[i].seq]

WireInLine(r, m, z) ==
  /\ Rising(r, down[z])
  /\ Rising(r, rxq[z])
  /\ Before(r, rxq[z], down[z])
  /\ From(r, m, down[z])
  /\ From(r, m, rxq[z])

CacheInLine(r, m, z) ==
  /\ dup[z].seq # 0 => r[dup[z].seq] <= m
  /\ busy[z].seq # 0 => r[busy[z].seq] = m
  /\ \A s \in Seqs : (req[s].dst = z /\ req[s].type \in DedupTypes /\ runs[s].boot > 0) =>
       dup[z].seq # 0 /\ r[s] <= r[dup[z].seq]

Ranking(r, n, f) ==
  /\ r \in [Seqs -> Nat]
  /\ n \in Nat
  /\ f \in [Zones -> Nat]

Lined(r, n, f) ==
  /\ Ranking(r, n, f)
  /\ \A s \in Seqs : r[s] <= n
  /\ \A z \in Zones : f[z] <= n
  /\ \A s \in Seqs : Touched(s) => r[s] > 0
  /\ \A s, t \in Seqs : r[s] = r[t] /\ r[s] > 0 => s = t
  /\ \A z \in Zones : WireInLine(r, f[z], z) /\ CacheInLine(r, f[z], z)

(* The request in flight is the last that was given a rank.                 *)
InLine(r, n, f) == Lined(r, n, f) /\ (InFlight(q) => r[q[1].seq] = n /\ n > 0)

Firsts == \E r, n, f : InLine(r, n, f)

Once == Labelled /\ Jobs /\ InTime /\ Firsts /\ AtMostOncePerBoot

-----------------------------------------------------------------------------
(* A copy of what was executed in this boot is recognised *)

LEMMA Recognised ==
  ASSUME Books, Rest, Labelled, Jobs, InTime, Firsts,
         NEW z \in Zones, TakeFrame(z, DedupTypes), runs[Head(rxq[z]).seq].boot > 0
  PROVE  DupVerdict(z, Head(rxq[z]).seq) # "exec"
<1> DEFINE s == Head(rxq[z]).seq
<1>1. rxq[z] \in Seq(Received) /\ rxq[z] # <<>> /\ Free(z) /\ Head(rxq[z]).type \in DedupTypes
  BY DEF TakeFrame, Rest, ZoneOK
<1>2. 1 \in DOMAIN rxq[z] /\ Head(rxq[z]) = rxq[z][1] /\ s \in Seqs
  BY <1>1, TailAt, TakeFrameTyped DEF Rest
<1>3. req[s].dst = z /\ req[s].type \in DedupTypes
  <2>1. req[rxq[z][1].seq] = [dst |-> z, type |-> rxq[z][1].type]
    BY <1>2 DEF Labelled
  <2>2. QED BY <1>1, <1>2, <2>1
<1> HIDE DEF s
<1>4. runs[s].boot > 0
  BY DEF s
<1>5. PICK r, n, f : InLine(r, n, f)
  BY DEF Firsts
<1>6. /\ dup[z].seq # 0
      /\ r[s] <= r[dup[z].seq]
      /\ r[dup[z].seq] <= f[z]
      /\ f[z] <= r[s]
  BY <1>2, <1>3, <1>4, <1>5 DEF InLine, Lined, WireInLine, CacheInLine, From, s
<1>7. dup[z].seq \in Seqs /\ dup[z] \in DupState
  BY <1>6 DEF Rest, ZoneOK, DupState, Seqs
<1>8. r[s] \in Nat /\ r[dup[z].seq] \in Nat /\ f[z] \in Nat
  BY <1>2, <1>5, <1>7 DEF InLine, Lined, Ranking
<1>9. r[s] > 0
  BY <1>2, <1>4, <1>5 DEF InLine, Lined, Touched
<1>10. dup[z].seq = s
  <2>1. r[s] = r[dup[z].seq]
    BY <1>6, <1>8
  <2>2. \A a, b \in Seqs : r[a] = r[b] /\ r[a] > 0 => a = b
    BY <1>5 DEF InLine, Lined
  <2>3. QED BY <1>2, <1>7, <1>9, <2>1, <2>2
<1>11. dup[z].state \in {"absorb", "replay"}
  BY <1>6 DEF Jobs, JobOK
<1>12. dup[z].state = "replay" => dup[z].age <= DUP_WINDOW
  <2>1. busy[z].type = "none"
    BY <1>1 DEF Free, Idle
  <2>2. rxq[z][1].seq = dup[z].seq
    BY <1>2, <1>10 DEF s
  <2>3. QED BY <1>2, <2>1, <2>2 DEF InTime, TimelyAt
<1>13. DupVerdict(z, s) # "exec"
  BY <1>10, <1>11, <1>12 DEF DupVerdict
<1>14. QED BY <1>13 DEF s

-----------------------------------------------------------------------------
(* Labels *)

LEMMA InitOnce == Init => Once
<1> SUFFICES ASSUME Init
             PROVE  Once
  OBVIOUS
<1>1. /\ q = <<>> /\ DOMAIN q = {} /\ ~InFlight(q)
      /\ \A z \in Zones : /\ down[z] = <<>> /\ rxq[z] = <<>>
                          /\ DOMAIN down[z] = {} /\ DOMAIN rxq[z] = {}
                          /\ busy[z] = Idle /\ dup[z] = EmptyDup
      /\ \A s \in Seqs : runs[s].boot = 0 /\ runs[s].total = 0
  BY DEF Init, InFlight
<1>2. Labelled
  BY <1>1 DEF Labelled, EmptyDup, Idle
<1>3. Jobs
  BY <1>1 DEF Jobs, JobOK, EmptyDup, Idle, JobTypes
<1>4. InTime
  BY <1>1 DEF InTime, TimelyAt, EmptyDup
<1>5. Firsts
  <2> DEFINE r == [s \in Seqs |-> 0]
             f == [z \in Zones |-> 0]
  <2>1. Ranking(r, 0, f)
    BY DEF Ranking
  <2>2. \A s \in Seqs : ~Touched(s)
    <3>1. \A s \in Seqs : s # 0
      BY SeqsTyped DEF Seqs
    <3>2. QED BY <1>1, <3>1 DEF Touched, SeqsOf, EmptyDup, Idle
  <2>3. \A z \in Zones : WireInLine(r, f[z], z) /\ CacheInLine(r, f[z], z)
    BY <1>1 DEF WireInLine, CacheInLine, Rising, Before, From, EmptyDup, Idle
  <2>4. InLine(r, 0, f)
    BY <1>1, <2>1, <2>2, <2>3 DEF InLine, Lined
  <2>5. QED BY <2>4 DEF Firsts
<1>6. AtMostOncePerBoot
  BY <1>1 DEF AtMostOncePerBoot
<1>7. QED BY <1>2, <1>3, <1>4, <1>5, <1>6 DEF Once

(* A request keeps its label from the moment anything carries it.           *)
LEMMA ReqKept ==
  ASSUME Books, Rest, Untouched, [Next]_vars, NEW s \in Seqs, Touched(s) \/ s \in SeqsOf(q)
  PROVE  req'[s] = req[s]
<1>1. CASE req' = req
  BY <1>1
<1>2. ASSUME NEW z \in Zones, NEW type \in Types, TakeSeq(z, type)
      PROVE  req'[s] = req[s]
  <2>1. outcome[nextSeq + 1] = "none" /\ nextSeq + 1 \in Seqs
    BY <1>2, SeqsTyped, RingCmdAssumption DEF TakeSeq, Seqs, Books, MasterOK, Fresh
  <2>2. s # nextSeq + 1
    BY <2>1 DEF Untouched, Unsent, Books, Accounted
  <2>3. QED BY <1>2, <2>1, <2>2 DEF TakeSeq, Books, MasterOK
<1>3. CASE ~ \E z \in Zones, type \in Types : TakeSeq(z, type)
  BY <1>1, <1>3 DEF Next, Submit, Cancel, Master, SendHead, GiveUp, MasterReceive, Deliver, LoseDown,
     LoseUp, Zone, Retransmitted, BeginCmd, FinishCmd, Commit, Flushed, ConfigGet, BeginFwUpdate,
     FwUpdate, EnterRescue, LeaveRescue, Reset, Restarted, BootDone, Tick, vars, master
<1>4. QED BY <1>2, <1>3

(* What a wire, a consume queue, a cache and a control task carry.          *)
LEMMA Carried ==
  ASSUME Books, Rest, NEW z \in Zones
  PROVE  /\ \A i \in DOMAIN q : q[i] \in Entry /\ q[i].seq \in SeqsOf(q)
         /\ \A i \in DOMAIN down[z] : down[z][i] \in FrameDown /\ Touched(down[z][i].seq)
         /\ \A i \in DOMAIN rxq[z] : rxq[z][i] \in Received /\ Touched(rxq[z][i].seq)
         /\ dup[z].seq # 0 => dup[z].seq \in Seqs /\ Touched(dup[z].seq)
         /\ busy[z].seq # 0 => busy[z].seq \in Seqs /\ Touched(busy[z].seq)
<1>1. q \in Seq(Entry) /\ down[z] \in Seq(FrameDown) /\ rxq[z] \in Seq(Received)
  BY DEF Books, MasterOK, Rest, WiresOK, ZoneOK
<1>2. dup[z].seq \in 0 .. MAX_SEQ /\ busy[z].seq \in 0 .. MAX_SEQ
  BY DEF Rest, ZoneOK, DupState, Job
<1>3. \A i \in DOMAIN q : q[i] \in Entry /\ q[i].seq \in SeqsOf(q)
  BY <1>1, ElementOfSeq, LenProperties DEF SeqsOf
<1>4. \A i \in DOMAIN down[z] : down[z][i] \in FrameDown /\ down[z][i].seq \in SeqsOf(down[z])
  BY <1>1, ElementOfSeq, LenProperties DEF SeqsOf
<1>5. \A i \in DOMAIN rxq[z] : rxq[z][i] \in Received /\ rxq[z][i].seq \in SeqsOf(rxq[z])
  BY <1>1, ElementOfSeq, LenProperties DEF SeqsOf
<1>6. /\ dup[z].seq # 0 => dup[z].seq \in Seqs
      /\ busy[z].seq # 0 => busy[z].seq \in Seqs
  BY <1>2, RingCmdAssumption DEF Seqs
<1>7. QED BY <1>3, <1>4, <1>5, <1>6 DEF Touched

(* Where the entries of the queue come from.                                *)
LEMMA QueueMoves ==
  ASSUME Books, Rest, [Next]_vars, NEW i \in DOMAIN q'
  PROVE  \/ \E j \in DOMAIN q : /\ q'[i].seq = q[j].seq
                                /\ q'[i].dst = q[j].dst
                                /\ q'[i].type = q[j].type
         \/ q'[i].seq \in Seqs /\ req' = req /\ req[q'[i].seq] = [dst |-> q'[i].dst, type |-> q'[i].type]
<1>0. MasterOK /\ QueueOrder /\ Accounted
  BY DEF Books
<1> DEFINE Goal == \/ \E j \in DOMAIN q : /\ q'[i].seq = q[j].seq
                                          /\ q'[i].dst = q[j].dst
                                          /\ q'[i].type = q[j].type
                   \/ /\ q'[i].seq \in Seqs /\ req' = req
                      /\ req[q'[i].seq] = [dst |-> q'[i].dst, type |-> q'[i].type]
<1> SUFFICES Goal
  OBVIOUS
<1>1. ASSUME \E j \in DOMAIN q : q'[i] = q[j]
      PROVE  Goal
  BY <1>1
<1>2. CASE q' = q
  BY <1>1, <1>2
<1>3. ASSUME NEW r \in Seqs, Submit(r)
      PROVE  Goal
  <2> DEFINE e == [seq |-> r, dst |-> req[r].dst, type |-> req[r].type, att |-> 0]
  <2>1. req[r] \in Request /\ req' = req
    BY <1>3 DEF Submit, Books, Known
  <2>2. CASE q' = Submitted(q, e)
    <3>1. e \in Entry /\ e.att = 0 /\ req[e.seq] = [dst |-> e.dst, type |-> e.type] /\ e.seq \in Seqs
      BY <2>1, TrkAssumption DEF Entry, Request
    <3> HIDE DEF e
    <3>2. q'[i] = e \/ \E j \in DOMAIN q : q'[i] = q[j]
      BY <1>0, <2>2, <3>1, SubmittedElements
    <3>3. QED BY <1>1, <2>1, <3>1, <3>2
  <2>3. QED BY <1>2, <1>3, <2>2 DEF Submit
<1>4. CASE SendHead
  <2>1. q # <<>> /\ q' = [q EXCEPT ![1].att = @ + 1]
    BY <1>4 DEF SendHead, Sent
  <2>2. DOMAIN q' = DOMAIN q /\ q[i] \in Entry
    BY <1>0, <2>1, QueueFacts
  <2>3. q'[i].seq = q[i].seq /\ q'[i].dst = q[i].dst /\ q'[i].type = q[i].type
    BY <2>1, <2>2 DEF Entry
  <2>4. QED BY <2>2, <2>3
<1>5. ASSUME q # <<>>, q' = Tail(q)
      PROVE  Goal
  BY <1>0, <1>1, <1>5, TailElements DEF MasterOK
<1>6. ASSUME NEW r \in Seqs, Cancel(r)
      PROVE  Goal
  BY <1>0, <1>1, <1>6, CancelledElements DEF Cancel
<1>7. CASE GiveUp
  BY <1>5, <1>7 DEF GiveUp, Due, InFlight, ReportHead
<1>8. ASSUME NEW z \in Zones, MasterReceive(z)
      PROVE  Goal
  BY <1>2, <1>5, <1>8 DEF MasterReceive, AckMatches, UnclaimedMatches, InFlight, ReportHead
<1>9. CASE \/ \E z \in Zones, type \in Types : TakeSeq(z, type)
           \/ \E z \in Zones : \/ Deliver(z) \/ LoseDown(z) \/ LoseUp(z) \/ Zone(z)
                               \/ LeaveRescue(z) \/ Reset(z)
           \/ Tick
           \/ UNCHANGED vars
  BY <1>2, <1>9 DEF TakeSeq, Deliver, LoseDown, LoseUp, Zone, Retransmitted, BeginCmd, FinishCmd,
     Commit, Flushed, ConfigGet, BeginFwUpdate, FwUpdate, EnterRescue, LeaveRescue, Reset, Restarted,
     BootDone, Tick, vars, master
<1>10. QED BY <1>3, <1>4, <1>6, <1>7, <1>8, <1>9 DEF Next, Master

(* A control task takes the oldest frame of its queue.                      *)
Taking(z) == Retransmitted(z) \/ BeginCmd(z) \/ Commit(z) \/ ConfigGet(z) \/ BeginFwUpdate(z)

LEMMA TakingFrame ==
  ASSUME NEW z \in Zones, Taking(z)
  PROVE  TakeFrame(z, TrackedTypes) /\ down' = down
BY DEF Taking, Retransmitted, BeginCmd, Commit, ConfigGet, BeginFwUpdate, TakeFrame, DedupTypes,
   TrackedTypes, PriorityTypes, ConfigTypes, wires

(* The steps that move frames, one shape for each.                          *)
LEMMA WireShapes ==
  ASSUME [Next]_vars
  PROVE  \/ UNCHANGED <<down, rxq>>
         \/ SendHead
         \/ \E z \in Zones : LoseDown(z)
         \/ \E z \in Zones : Deliver(z)
         \/ \E z \in Zones : Taking(z)
         \/ \E z \in Zones, img \in {"app", "rescue"} : Restarted(z, img) /\ down' = down
         \/ Tick
<1>1. ASSUME NEW z \in Zones, Zone(z), ~EnterRescue(z)
      PROVE  UNCHANGED <<down, rxq>> \/ Taking(z)
  BY <1>1 DEF Zone, Taking, FinishCmd, Flushed, FwUpdate, BootDone, wires
<1>2. ASSUME NEW z \in Zones, EnterRescue(z) \/ LeaveRescue(z) \/ Reset(z)
      PROVE  \E img \in {"app", "rescue"} : Restarted(z, img) /\ down' = down
  BY <1>2 DEF EnterRescue, LeaveRescue, Reset, Restarted, wires
<1>3. CASE \/ \E z \in Zones, type \in Types : TakeSeq(z, type)
           \/ \E r \in Seqs : Submit(r) \/ Cancel(r)
           \/ GiveUp
           \/ \E z \in Zones : MasterReceive(z) \/ LoseUp(z)
           \/ UNCHANGED vars
  BY <1>3 DEF TakeSeq, Submit, Cancel, GiveUp, MasterReceive, LoseUp, vars, wires, zoneRam
<1>4. QED BY <1>1, <1>2, <1>3 DEF Next, Master

(* The steps that change what a control task does and remembers.            *)
LEMMA TaskShapes ==
  ASSUME [Next]_vars
  PROVE  \/ UNCHANGED <<busy, dup, runs>>
         \/ \E z \in Zones : \/ BeginCmd(z) \/ FinishCmd(z) \/ Commit(z) \/ Flushed(z) \/ ConfigGet(z)
                             \/ BeginFwUpdate(z) \/ FwUpdate(z) \/ BootDone(z)
         \/ \E z \in Zones, img \in {"app", "rescue"} : Restarted(z, img)
         \/ Tick
BY DEF Next, TakeSeq, Submit, Cancel, Master, SendHead, GiveUp, MasterReceive, Deliver, LoseDown,
   LoseUp, Zone, Retransmitted, EnterRescue, LeaveRescue, Reset, vars, zoneRam, history

(* The frame a control task takes is the oldest of its queue.               *)
LEMMA TakenAt ==
  ASSUME Rest, NEW z \in Zones, NEW types, TakeFrame(z, types)
  PROVE  /\ rxq[z] \in Seq(Received) /\ rxq[z] # <<>>
         /\ 1 \in DOMAIN rxq[z] /\ Head(rxq[z]) = rxq[z][1] /\ rxq[z][1].seq \in Seqs
         /\ rxq[z][1].type \in types
         /\ \A y \in Zones : rxq'[y] = IF y = z THEN Tail(rxq[z]) ELSE rxq[y]
<1>1. rxq \in [Zones -> Seq(Received)] /\ rxq[z] # <<>> /\ rxq' = [rxq EXCEPT ![z] = Tail(@)]
  BY DEF TakeFrame, Rest, ZoneOK
<1>2. rxq[z] \in Seq(Received)
  BY <1>1
<1>3. 1 \in DOMAIN rxq[z] /\ Head(rxq[z]) = rxq[z][1]
  BY <1>1, <1>2, TailAt
<1>4. Head(rxq[z]).seq \in Seqs /\ Head(rxq[z]).type \in types
  BY TakeFrameTyped DEF Rest, TakeFrame
<1>5. QED BY <1>1, <1>2, <1>3, <1>4

LEMMA DownMoves ==
  ASSUME Rest, Books, [Next]_vars, NEW z \in Zones, NEW i \in DOMAIN down'[z]
  PROVE  \/ \E j \in DOMAIN down[z] : down'[z][i].seq = down[z][j].seq /\ down'[z][i].type = down[z][j].type
         \/ /\ SendHead /\ z = q[1].dst
            /\ down'[z][i].seq = q[1].seq /\ down'[z][i].type = q[1].type
<1>0. down \in [Zones -> Seq(FrameDown)] /\ down[z] \in Seq(FrameDown)
  BY DEF Rest, WiresOK
<1>1. CASE down' = down
  BY <1>1
<1>2. CASE SendHead
  <2> DEFINE f == [seq |-> q[1].seq, type |-> q[1].type, age |-> 0]
  <2>1. q[1] \in Entry /\ down' = [down EXCEPT ![q[1].dst] = Append(@, f)]
    BY <1>2, QueueFacts DEF SendHead, Books, Transmit
  <2>2. f \in FrameDown /\ f.seq = q[1].seq /\ f.type = q[1].type
    BY <2>1, RingCmdAssumption DEF Entry, FrameDown
  <2> HIDE DEF f
  <2>3. CASE z # q[1].dst
    BY <1>0, <2>1, <2>3
  <2>4. CASE z = q[1].dst
    <3>1. down'[z] = Append(down[z], f)
      BY <1>0, <2>1, <2>4
    <3>2. down'[z][i] = f \/ \E j \in DOMAIN down[z] : down'[z][i] = down[z][j]
      BY <1>0, <2>2, <3>1, AppendElements
    <3>3. QED BY <1>2, <2>2, <2>4, <3>2
  <2>5. QED BY <2>3, <2>4
<1>3. ASSUME NEW y \in Zones, LoseDown(y) \/ Deliver(y)
      PROVE  \E j \in DOMAIN down[z] : down'[z][i] = down[z][j]
  <2>1. down[y] # <<>> /\ down' = [down EXCEPT ![y] = Tail(@)]
    BY <1>3 DEF LoseDown, Deliver
  <2>2. CASE z # y
    BY <1>0, <2>1, <2>2
  <2>3. CASE z = y
    <3>1. down'[z] = Tail(down[z])
      BY <1>0, <2>1, <2>3
    <3>2. QED BY <1>0, <2>1, <2>3, <3>1, TailElements
  <2>4. QED BY <2>2, <2>3
<1>4. CASE Tick
  <2>1. down'[z] = [j \in DOMAIN down[z] |-> [down[z][j] EXCEPT !.age = @ + 1]]
    BY <1>4 DEF Tick, Older
  <2>2. i \in DOMAIN down[z] /\ down[z][i] \in FrameDown
    BY <1>0, <2>1, LenProperties, ElementOfSeq
  <2>3. down'[z][i].seq = down[z][i].seq /\ down'[z][i].type = down[z][i].type
    BY <2>1, <2>2 DEF FrameDown
  <2>4. QED BY <2>2, <2>3
<1>5. QED BY <1>1, <1>2, <1>3, <1>4, WireShapes, TakingFrame

LEMMA RxqMoves ==
  ASSUME Rest, Books, [Next]_vars, NEW z \in Zones, NEW i \in DOMAIN rxq'[z]
  PROVE  \/ \E j \in DOMAIN rxq[z] : rxq'[z][i] = rxq[z][j]
         \/ \E j \in DOMAIN down[z] : rxq'[z][i].seq = down[z][j].seq /\ rxq'[z][i].type = down[z][j].type
<1>0. /\ down \in [Zones -> Seq(FrameDown)] /\ down[z] \in Seq(FrameDown)
      /\ rxq \in [Zones -> Seq(Received)] /\ rxq[z] \in Seq(Received)
  BY DEF Rest, WiresOK, ZoneOK
<1>1. CASE rxq'[z] = rxq[z]
  BY <1>1
<1>2. ASSUME NEW y \in Zones, Deliver(y), y = z
      PROVE  \/ \E j \in DOMAIN rxq[z] : rxq'[z][i] = rxq[z][j]
             \/ \E j \in DOMAIN down[z] : rxq'[z][i].seq = down[z][j].seq /\ rxq'[z][i].type = down[z][j].type
  <2> DEFINE g == [seq |-> Head(down[z]).seq, type |-> Head(down[z]).type]
  <2>1. down[z] # <<>> /\ (rxq' = rxq \/ rxq' = [rxq EXCEPT ![z] = Append(@, g)])
    BY <1>2 DEF Deliver
  <2>2. \E j \in DOMAIN down[z] : Head(down[z]) = down[z][j]
    BY <1>0, <2>1, TailElements
  <2>3. Head(down[z]) \in FrameDown
    BY <1>0, <2>1, HeadTailProperties
  <2>4. g \in Received /\ \E j \in DOMAIN down[z] : g.seq = down[z][j].seq /\ g.type = down[z][j].type
    BY <2>2, <2>3 DEF FrameDown, Received
  <2> HIDE DEF g
  <2>5. CASE rxq'[z] = Append(rxq[z], g)
    <3>1. rxq'[z][i] = g \/ \E j \in DOMAIN rxq[z] : rxq'[z][i] = rxq[z][j]
      BY <1>0, <2>4, <2>5, AppendElements
    <3>2. QED BY <2>4, <3>1
  <2>6. QED BY <1>0, <1>1, <2>1, <2>5
<1>3. ASSUME NEW y \in Zones, Deliver(y), y # z
      PROVE  rxq'[z] = rxq[z]
  BY <1>0, <1>3 DEF Deliver
<1>4. ASSUME NEW y \in Zones, Taking(y)
      PROVE  \E j \in DOMAIN rxq[z] : rxq'[z][i] = rxq[z][j]
  <2>1. rxq'[z] = rxq[z] \/ (z = y /\ rxq'[z] = Tail(rxq[z]) /\ rxq[z] # <<>>)
    BY <1>4, TakingFrame, TakenAt
  <2>2. CASE rxq'[z] = rxq[z]
    BY <2>2
  <2>3. CASE rxq'[z] = Tail(rxq[z]) /\ rxq[z] # <<>>
    BY <1>0, <2>3, TailElements
  <2>4. QED BY <2>1, <2>2, <2>3
<1>5. ASSUME NEW y \in Zones, NEW img, Restarted(y, img)
      PROVE  rxq'[z] = rxq[z]
  <2>1. rxq'[z] = rxq[z] \/ rxq'[z] = <<>>
    BY <1>0, <1>5 DEF Restarted
  <2>2. QED BY <2>1
<1>6. SendHead \/ Tick \/ (\E y \in Zones : LoseDown(y)) => rxq' = rxq
  BY DEF SendHead, Tick, LoseDown, zoneRam
<1>7. QED BY <1>1, <1>2, <1>3, <1>4, <1>5, <1>6, WireShapes

(* The cache and the control task take up only the frame just taken, and    *)
(* the cache only a command or a commit.                                    *)
LEMMA TaskMoves ==
  ASSUME Rest, Books, [Next]_vars, NEW z \in Zones
  PROVE  /\ dup'[z].seq \notin {0, dup[z].seq} =>
              \E j \in DOMAIN rxq[z] : rxq[z][j].seq = dup'[z].seq /\ rxq[z][j].type \in DedupTypes
         /\ busy'[z].seq \notin {0, busy[z].seq} =>
              \E j \in DOMAIN rxq[z] : rxq[z][j].seq = busy'[z].seq
<1> DEFINE Goal == /\ dup'[z].seq \notin {0, dup[z].seq} =>
                        \E j \in DOMAIN rxq[z] : rxq[z][j].seq = dup'[z].seq /\ rxq[z][j].type \in DedupTypes
                   /\ busy'[z].seq \notin {0, busy[z].seq} =>
                        \E j \in DOMAIN rxq[z] : rxq[z][j].seq = busy'[z].seq
<1> SUFFICES Goal
  OBVIOUS
<1>0. ZoneOK /\ HistoryOK
  BY DEF Rest
<1>1. CASE dup'[z].seq \in {0, dup[z].seq} /\ busy'[z].seq \in {0, busy[z].seq}
  BY <1>1
<1>2. ASSUME NEW y \in Zones, BeginCmd(y)
      PROVE  Goal
  <2>1. /\ rxq[y][1].type \in DedupTypes /\ 1 \in DOMAIN rxq[y]
        /\ dup' = [dup EXCEPT ![y] = DupStarted(rxq[y][1].seq)]
        /\ busy' = [busy EXCEPT ![y] = [seq |-> rxq[y][1].seq, type |-> "CMD", t |-> 0]]
    BY <1>2, TakenAt DEF BeginCmd, DedupTypes
  <2>2. CASE y # z
    BY <1>0, <1>1, <2>1, <2>2 DEF ZoneOK
  <2>3. CASE y = z
    <3>1. dup'[z].seq = rxq[z][1].seq /\ busy'[z].seq = rxq[z][1].seq
      BY <1>0, <2>1, <2>3 DEF ZoneOK, DupStarted
    <3>2. QED BY <2>1, <2>3, <3>1
  <2>4. QED BY <2>2, <2>3
<1>3. ASSUME NEW y \in Zones, FinishCmd(y) \/ Flushed(y) \/ BootDone(y) \/ ConfigGet(y)
      PROVE  dup'[z].seq \in {0, dup[z].seq} /\ busy'[z].seq \in {0, busy[z].seq}
  <2>1. /\ dup' = dup \/ \E s, status : dup' = [dup EXCEPT ![y] = DupDone(@, s, status)]
        /\ busy' = busy \/ busy' = [busy EXCEPT ![y] = Idle]
    BY <1>3 DEF FinishCmd, Flushed, BootDone, ConfigGet
  <2>2. \A s, status : DupDone(dup[y], s, status).seq = dup[y].seq
    BY DEF DupDone
  <2>3. busy'[z].seq \in {0, busy[z].seq}
    <3>1. busy'[z] = busy[z] \/ busy'[z] = Idle
      BY <1>0, <2>1 DEF ZoneOK
    <3>2. QED BY <3>1 DEF Idle
  <2>4. dup'[z].seq \in {0, dup[z].seq}
    <3>1. \/ dup'[z] = dup[z]
          \/ z = y /\ \E s, status : dup'[z] = DupDone(dup[z], s, status)
      BY <1>0, <2>1 DEF ZoneOK
    <3>2. QED BY <2>2, <3>1
  <2>5. QED BY <2>3, <2>4
<1>4. ASSUME NEW y \in Zones, Commit(y)
      PROVE  Goal
  <2>0. TakeFrame(y, {"CFG_COMMIT"})
    BY <1>4 DEF Commit
  <2>a. 1 \in DOMAIN rxq[y] /\ Head(rxq[y]) = rxq[y][1] /\ rxq[y][1].type \in DedupTypes
    BY <2>0, TakenAt DEF DedupTypes
  <2>1. PICK status \in ZoneStatus :
          /\ dup' = [dup EXCEPT ![y] = DupDone(DupStarted(rxq[y][1].seq), rxq[y][1].seq, status)]
          /\ \/ busy' = [busy EXCEPT ![y] = [seq |-> rxq[y][1].seq, type |-> "CFG_COMMIT", t |-> 0]]
             \/ busy' = busy
    BY <1>4, <2>a DEF Commit
  <2>2. CASE y # z
    BY <1>0, <1>1, <2>1, <2>2 DEF ZoneOK
  <2>3. CASE y = z
    <3>1. dup'[z].seq = rxq[z][1].seq
      BY <1>0, <2>1, <2>3 DEF ZoneOK, DupStarted, DupDone
    <3>2. busy'[z].seq = rxq[z][1].seq \/ busy'[z].seq = busy[z].seq
      BY <1>0, <2>1, <2>3 DEF ZoneOK
    <3>3. QED BY <2>a, <2>3, <3>1, <3>2
  <2>4. QED BY <2>2, <2>3
<1>5. ASSUME NEW y \in Zones, BeginFwUpdate(y) \/ FwUpdate(y)
      PROVE  Goal
  <2>1. /\ dup' = dup
        /\ \/ busy' = [busy EXCEPT ![y] = Idle]
           \/ \E type : busy' = [busy EXCEPT ![y] = [seq |-> busy[y].seq, type |-> type, t |-> 0]]
           \/ /\ 1 \in DOMAIN rxq[y]
              /\ busy' = [busy EXCEPT ![y] = [seq |-> rxq[y][1].seq, type |-> "FLUSH", t |-> 0]]
    BY <1>5, TakenAt DEF BeginFwUpdate, FwUpdate
  <2>2. CASE y # z
    BY <1>0, <1>1, <2>1, <2>2 DEF ZoneOK
  <2>3. CASE y = z
    <3>1. \/ busy'[z].seq \in {0, busy[z].seq}
          \/ 1 \in DOMAIN rxq[z] /\ busy'[z].seq = rxq[z][1].seq
      BY <1>0, <2>1, <2>3 DEF ZoneOK, Idle
    <3>2. QED BY <2>1, <3>1
  <2>4. QED BY <2>2, <2>3
<1>6. ASSUME NEW y \in Zones, NEW img, Restarted(y, img)
      PROVE  dup'[z].seq \in {0, dup[z].seq} /\ busy'[z].seq \in {0, busy[z].seq}
  BY <1>0, <1>6 DEF Restarted, ZoneOK, EmptyDup
<1>7. CASE Tick
  <2>1. /\ busy'[z] = IF busy[z] = Idle THEN Idle ELSE [busy[z] EXCEPT !.t = @ + 1]
        /\ dup'[z] = [dup[z] EXCEPT !.age = AtMost(@ + 1, DUP_WINDOW + 1)]
    BY <1>7 DEF Tick
  <2>2. busy[z] \in Job /\ dup[z] \in DupState
    BY <1>0 DEF ZoneOK
  <2>3. busy'[z].seq = busy[z].seq /\ dup'[z].seq = dup[z].seq
    BY <2>1, <2>2 DEF Job, DupState
  <2>4. QED BY <1>1, <2>3
<1>8. QED BY <1>1, <1>2, <1>3, <1>4, <1>5, <1>6, <1>7, TaskShapes

LEMMA NextLabelled ==
  ASSUME Books, Rest, Untouched, Labelled, [Next]_vars
  PROVE  Labelled'
<1>1. ASSUME NEW i \in DOMAIN q'
      PROVE  req'[q'[i].seq] = [dst |-> q'[i].dst, type |-> q'[i].type]
  <2>1. CASE req' = req /\ req[q'[i].seq] = [dst |-> q'[i].dst, type |-> q'[i].type]
    BY <2>1
  <2>2. CASE \E j \in DOMAIN q : q'[i].seq = q[j].seq /\ q'[i].dst = q[j].dst /\ q'[i].type = q[j].type
    <3>1. PICK j \in DOMAIN q : q'[i].seq = q[j].seq /\ q'[i].dst = q[j].dst /\ q'[i].type = q[j].type
      BY <2>2
    <3>2. req[q[j].seq] = [dst |-> q[j].dst, type |-> q[j].type]
      BY DEF Labelled
    <3>3. q[j].seq \in SeqsOf(q) /\ q[j].seq \in Seqs
      BY QueueFacts DEF Books, SeqsOf
    <3>4. req'[q[j].seq] = req[q[j].seq]
      BY <3>3, ReqKept
    <3>5. QED BY <3>1, <3>2, <3>4
  <2>3. QED BY <2>1, <2>2, QueueMoves
<1>2. ASSUME NEW z \in Zones, NEW i \in DOMAIN down'[z]
      PROVE  req'[down'[z][i].seq] = [dst |-> z, type |-> down'[z][i].type]
  <2>1. CASE \E j \in DOMAIN down[z] : down'[z][i].seq = down[z][j].seq /\ down'[z][i].type = down[z][j].type
    <3>1. PICK j \in DOMAIN down[z] : down'[z][i].seq = down[z][j].seq /\ down'[z][i].type = down[z][j].type
      BY <2>1
    <3>2. req[down[z][j].seq] = [dst |-> z, type |-> down[z][j].type]
      BY DEF Labelled
    <3>3. down[z][j].seq \in Seqs /\ Touched(down[z][j].seq)
      BY Carried DEF FrameDown
    <3>4. req'[down[z][j].seq] = req[down[z][j].seq]
      BY <3>3, ReqKept
    <3>5. QED BY <3>1, <3>2, <3>4
  <2>2. CASE /\ SendHead /\ z = q[1].dst
             /\ down'[z][i].seq = q[1].seq /\ down'[z][i].type = q[1].type
    <3>1. 1 \in DOMAIN q /\ req' = req
      BY <2>2, QueueFacts DEF SendHead, Books
    <3>2. req[q[1].seq] = [dst |-> q[1].dst, type |-> q[1].type]
      BY <3>1 DEF Labelled
    <3>3. QED BY <2>2, <3>1, <3>2
  <2>3. QED BY <2>1, <2>2, DownMoves
<1>3. ASSUME NEW z \in Zones, NEW i \in DOMAIN rxq'[z]
      PROVE  req'[rxq'[z][i].seq] = [dst |-> z, type |-> rxq'[z][i].type]
  <2>1. CASE \E j \in DOMAIN rxq[z] : rxq'[z][i] = rxq[z][j]
    <3>1. PICK j \in DOMAIN rxq[z] : rxq'[z][i] = rxq[z][j]
      BY <2>1
    <3>2. req[rxq[z][j].seq] = [dst |-> z, type |-> rxq[z][j].type]
      BY DEF Labelled
    <3>3. rxq[z][j].seq \in Seqs /\ Touched(rxq[z][j].seq)
      BY Carried DEF Received
    <3>4. req'[rxq[z][j].seq] = req[rxq[z][j].seq]
      BY <3>3, ReqKept
    <3>5. QED BY <3>1, <3>2, <3>4
  <2>2. CASE \E j \in DOMAIN down[z] : rxq'[z][i].seq = down[z][j].seq /\ rxq'[z][i].type = down[z][j].type
    <3>1. PICK j \in DOMAIN down[z] : rxq'[z][i].seq = down[z][j].seq /\ rxq'[z][i].type = down[z][j].type
      BY <2>2
    <3>2. req[down[z][j].seq] = [dst |-> z, type |-> down[z][j].type]
      BY DEF Labelled
    <3>3. down[z][j].seq \in Seqs /\ Touched(down[z][j].seq)
      BY Carried DEF FrameDown
    <3>4. req'[down[z][j].seq] = req[down[z][j].seq]
      BY <3>3, ReqKept
    <3>5. QED BY <3>1, <3>2, <3>4
  <2>3. QED BY <2>1, <2>2, RxqMoves
<1>4. ASSUME NEW z \in Zones, NEW j \in DOMAIN rxq[z]
      PROVE  req'[rxq[z][j].seq] = [dst |-> z, type |-> rxq[z][j].type]
  <2>1. req[rxq[z][j].seq] = [dst |-> z, type |-> rxq[z][j].type]
    BY DEF Labelled
  <2>2. rxq[z][j].seq \in Seqs /\ Touched(rxq[z][j].seq)
    BY Carried DEF Received
  <2>3. QED BY <2>1, <2>2, ReqKept
<1>5. ASSUME NEW z \in Zones, dup'[z].seq # 0
      PROVE  req'[dup'[z].seq].type \in DedupTypes
  <2>1. CASE dup'[z].seq = dup[z].seq
    BY <1>5, <2>1, Carried, ReqKept DEF Labelled
  <2>2. CASE dup'[z].seq # dup[z].seq
    <3>1. PICK j \in DOMAIN rxq[z] : rxq[z][j].seq = dup'[z].seq /\ rxq[z][j].type \in DedupTypes
      BY <1>5, <2>2, TaskMoves
    <3>2. req'[rxq[z][j].seq] = [dst |-> z, type |-> rxq[z][j].type]
      BY <1>4
    <3>3. QED BY <3>1, <3>2
  <2>3. QED BY <2>1, <2>2
<1>6. ASSUME NEW z \in Zones, busy'[z].seq # 0
      PROVE  req'[busy'[z].seq].dst = z
  <2>1. CASE busy'[z].seq = busy[z].seq
    BY <1>6, <2>1, Carried, ReqKept DEF Labelled
  <2>2. CASE busy'[z].seq # busy[z].seq
    <3>1. PICK j \in DOMAIN rxq[z] : rxq[z][j].seq = busy'[z].seq
      BY <1>6, <2>2, TaskMoves
    <3>2. req'[rxq[z][j].seq] = [dst |-> z, type |-> rxq[z][j].type]
      BY <1>4
    <3>3. QED BY <3>1, <3>2
  <2>3. QED BY <2>1, <2>2
<1>7. QED BY <1>1, <1>2, <1>3, <1>5, <1>6 DEF Labelled

-----------------------------------------------------------------------------
(* Jobs *)

LEMMA BootsStep ==
  ASSUME Rest, [Next]_vars, NEW s \in Seqs, runs[s].boot > 0
  PROVE  runs'[s].boot > 0 \/ \E z \in Zones, img \in {"app", "rescue"} : Restarted(z, img) /\ req[s].dst = z
<1>0. runs \in [Seqs -> [boot : Nat, total : Nat]]
  BY DEF Rest, HistoryOK
<1>1. CASE runs' = runs
  BY <1>1
<1>2. ASSUME NEW r, Record(r)
      PROVE  runs'[s].boot > 0
  <2>1. CASE r # s
    BY <1>0, <1>2, <2>1 DEF Record
  <2>2. CASE r = s
    <3>1. runs'[s] = [runs[s] EXCEPT !.boot = @ + 1, !.total = @ + 1]
      BY <1>0, <1>2, <2>2 DEF Record
    <3>2. runs[s] \in [boot : Nat, total : Nat]
      BY <1>0
    <3>3. QED BY <3>1, <3>2
  <2>3. QED BY <2>1, <2>2
<1>3. ASSUME NEW z \in Zones, NEW img \in {"app", "rescue"}, Restarted(z, img), req[s].dst # z
      PROVE  runs'[s] = runs[s]
  BY <1>3 DEF Restarted
<1>4. QED
  BY <1>1, <1>2, <1>3, TaskShapes DEF BeginCmd, FinishCmd, Commit, Flushed, ConfigGet, BeginFwUpdate,
     FwUpdate, BootDone, Tick, history

(* A zone the step does not concern.                                        *)
LEMMA JobKept ==
  ASSUME NEW z \in Zones, JobOK(z), busy'[z] = busy[z], dup'[z] = dup[z], image'[z] = image[z],
         rxq'[z] # <<>> => Runs(z, "app"),
         busy[z].seq # 0 => req'[busy[z].seq] = req[busy[z].seq],
         busy[z].type = "CMD" => runs'[busy[z].seq].boot > 0
  PROVE  JobOK(z)'
<1> USE DEF JobOK
<1>1. (busy[z].type = "none" => busy[z] = Idle)' /\ (busy[z].seq # 0 <=> busy[z].type \in JobTypes)'
  BY DEF Idle, JobTypes
<1>2. (busy[z].type = "CMD" => /\ dup[z].seq = busy[z].seq
                               /\ dup[z].state = "absorb"
                               /\ runs[busy[z].seq].boot > 0)'
  OBVIOUS
<1>3. (busy[z].type = "CFG_COMMIT" => /\ dup[z].seq = busy[z].seq
                                      /\ dup[z].age <= busy[z].t
                                      /\ busy[z].t <= FLUSH_MAX)'
  OBVIOUS
<1>4. (busy[z].type \in {"FLUSH", "FW_UPDATE"} => req[busy[z].seq].type = "FW_UPDATE")'
  <2>1. busy[z].type \in {"FLUSH", "FW_UPDATE"} => busy[z].seq # 0
    BY DEF JobTypes
  <2>2. QED BY <2>1
<1>5. (rxq[z] # <<>> => Runs(z, "app"))' /\ (dup[z].seq # 0 => dup[z].state \in {"absorb", "replay"})'
  BY DEF Runs
<1>6. QED BY <1>1, <1>2, <1>3, <1>4, <1>5

LEMMA NextJobs ==
  ASSUME Books, Rest, Untouched, Labelled, Jobs, [Next]_vars
  PROVE  Jobs'
<1> SUFFICES ASSUME NEW z \in Zones
             PROVE  JobOK(z)'
  BY DEF Jobs
<1>0. ZoneOK /\ JobOK(z) /\ busy[z] \in Job /\ dup[z] \in DupState /\ DUP_WINDOW \in Nat /\ FLUSH_MAX \in Nat
  BY RingCmdAssumption DEF Jobs, Rest, ZoneOK
<1>1. busy[z].seq # 0 => /\ busy[z].seq \in Seqs
                         /\ req'[busy[z].seq] = req[busy[z].seq]
                         /\ req[busy[z].seq].dst = z
  BY Carried, ReqKept DEF Labelled
<1>2. ASSUME NEW img, Restarted(z, img)
      PROVE  rxq'[z] = <<>> /\ busy'[z] = [seq |-> 0, type |-> "BOOT", t |-> 0] /\ dup'[z] = EmptyDup
  BY <1>0, <1>2 DEF Restarted, ZoneOK
<1>3. ASSUME busy'[z].type = "CMD", busy[z].type = "CMD"
      PROVE  runs'[busy[z].seq].boot > 0
  <2>1. busy[z].seq \in Seqs /\ req[busy[z].seq].dst = z /\ runs[busy[z].seq].boot > 0
    BY <1>0, <1>1, <1>3 DEF JobOK, JobTypes
  <2>2. QED BY <1>2, <1>3, <2>1, BootsStep
<1>4. ASSUME busy'[z] = busy[z], dup'[z] = dup[z], image'[z] = image[z],
             rxq'[z] # <<>> => Runs(z, "app")
      PROVE  JobOK(z)'
  BY <1>0, <1>1, <1>3, <1>4, JobKept
<1>5. ASSUME rxq'[z] = rxq[z], busy'[z] = busy[z], dup'[z] = dup[z], image'[z] = image[z]
      PROVE  JobOK(z)'
  BY <1>0, <1>4, <1>5 DEF JobOK
<1>6. ASSUME NEW y \in Zones, y # z,
             Zone(y) \/ LeaveRescue(y) \/ Reset(y) \/ Deliver(y) \/ LoseDown(y)
      PROVE  JobOK(z)'
  <2>1. \A v : /\ [rxq EXCEPT ![y] = v][z] = rxq[z]
               /\ [busy EXCEPT ![y] = v][z] = busy[z]
               /\ [dup EXCEPT ![y] = v][z] = dup[z]
               /\ [image EXCEPT ![y] = v][z] = image[z]
    BY <1>0, <1>6 DEF ZoneOK
  <2>2. /\ rxq' = rxq \/ \E v : rxq' = [rxq EXCEPT ![y] = v]
        /\ busy' = busy \/ \E v : busy' = [busy EXCEPT ![y] = v]
        /\ dup' = dup \/ \E v : dup' = [dup EXCEPT ![y] = v]
        /\ image' = image \/ \E v : image' = [image EXCEPT ![y] = v]
    BY <1>6 DEF Zone, Retransmitted, BeginCmd, FinishCmd, Commit, Flushed, ConfigGet, BeginFwUpdate,
       FwUpdate, EnterRescue, BootDone, LeaveRescue, Reset, Restarted, Deliver, LoseDown, TakeFrame,
       wires, zoneRam
  <2>3. QED BY <1>5, <2>1, <2>2
(* a control task that takes a frame runs the application, and goes on      *)
<1>7. ASSUME NEW types, TakeFrame(z, types), image' = image, busy'[z].type # "BOOT"
      PROVE  (rxq[z] # <<>> => Runs(z, "app"))'
  BY <1>7 DEF TakeFrame, Free, Runs
<1>8. CASE Deliver(z) \/ LoseDown(z)
  <2>1. busy' = busy /\ dup' = dup /\ image' = image
        /\ (rxq' = rxq \/ Runs(z, "app"))
    BY <1>8 DEF Deliver, LoseDown, zoneRam
  <2>2. QED BY <1>0, <1>4, <2>1 DEF JobOK
<1>9. CASE Retransmitted(z) \/ ConfigGet(z)
  <2>1. /\ \E types : TakeFrame(z, types)
        /\ busy' = busy /\ dup' = dup /\ image' = image
    BY <1>9 DEF Retransmitted, ConfigGet
  <2>2. Runs(z, "app")
    BY <2>1 DEF TakeFrame, Free, Runs, Idle
  <2>3. QED BY <1>4, <2>1, <2>2
<1>10. CASE BeginCmd(z)
  <2> DEFINE s == Head(rxq[z]).seq
  <2>1. /\ TakeFrame(z, {"CMD"}) /\ image' = image /\ Record(s)
        /\ dup'[z] = DupStarted(s)
        /\ busy'[z] = [seq |-> s, type |-> "CMD", t |-> 0]
    BY <1>0, <1>10 DEF BeginCmd, ZoneOK
  <2>2. s \in Seqs /\ s # 0
    BY <1>0, <2>1, TakeFrameTyped, SeqsTyped DEF Seqs
  <2> HIDE DEF s
  <2>3. runs'[s].boot > 0
    <3>1. runs[s] \in [boot : Nat, total : Nat] /\ runs \in [Seqs -> [boot : Nat, total : Nat]]
      BY <2>2 DEF Rest, HistoryOK
    <3>2. runs'[s] = [runs[s] EXCEPT !.boot = @ + 1, !.total = @ + 1]
      BY <2>1, <2>2, <3>1 DEF Record
    <3>3. QED BY <3>1, <3>2
  <2>4. (rxq[z] # <<>> => Runs(z, "app"))'
    BY <1>7, <2>1
  <2>5. QED BY <2>1, <2>2, <2>3, <2>4 DEF JobOK, DupStarted, JobTypes
<1>11. CASE FinishCmd(z)
  <2>1. PICK status \in ZoneStatus :
          /\ dup'[z] = DupDone(dup[z], busy[z].seq, status)
          /\ busy'[z] = Idle
          /\ rxq' = rxq /\ image' = image /\ busy[z].type = "CMD"
    BY <1>0, <1>11 DEF FinishCmd, ZoneOK
  <2>2. dup'[z].state = "replay"
    BY <1>0, <2>1 DEF DupDone, JobOK
  <2>3. (rxq[z] # <<>> => Runs(z, "app"))'
    BY <1>0, <2>1 DEF JobOK, Runs, Idle
  <2>4. QED BY <2>1, <2>2, <2>3 DEF JobOK, Idle, JobTypes
<1>12. CASE Commit(z)
  <2> DEFINE s == Head(rxq[z]).seq
  <2>1. PICK status \in ZoneStatus :
          /\ TakeFrame(z, {"CFG_COMMIT"}) /\ image' = image
          /\ dup'[z] = DupDone(DupStarted(s), s, status)
          /\ \/ busy'[z] = [seq |-> s, type |-> "CFG_COMMIT", t |-> 0]
             \/ busy'[z] = busy[z]
    BY <1>0, <1>12 DEF Commit, ZoneOK
  <2>2. s \in Seqs /\ s # 0
    BY <1>0, <2>1, TakeFrameTyped, SeqsTyped DEF Seqs
  <2> HIDE DEF s
  <2>3. busy[z] = Idle
    BY <2>1 DEF TakeFrame, Free
  <2>4. dup'[z] = [seq |-> s, state |-> "replay", status |-> status, age |-> 0]
    BY <2>1 DEF DupDone, DupStarted
  <2>5. (rxq[z] # <<>> => Runs(z, "app"))'
    BY <1>7, <2>1, <2>3 DEF Idle
  <2>6. QED BY <1>0, <2>1, <2>2, <2>3, <2>4, <2>5 DEF JobOK, JobTypes, Idle
<1>13. CASE Flushed(z) \/ BootDone(z)
  <2>1. /\ busy'[z] = Idle /\ UNCHANGED <<rxq, dup, image>>
        /\ busy[z].type \in {"CFG_COMMIT", "BOOT"}
    BY <1>0, <1>13 DEF Flushed, BootDone, ZoneOK
  <2>2. (rxq[z] # <<>> => Runs(z, "app"))'
    BY <1>0, <2>1 DEF JobOK, Runs, Idle
  <2>3. QED BY <1>0, <2>1, <2>2 DEF JobOK, JobTypes, Idle
<1>14. CASE BeginFwUpdate(z)
  <2>1. /\ TakeFrame(z, {"FW_UPDATE"}) /\ UNCHANGED <<dup, image, req>>
        /\ busy'[z] = [seq |-> Head(rxq[z]).seq, type |-> "FLUSH", t |-> 0]
    BY <1>0, <1>14 DEF BeginFwUpdate, ZoneOK, master
  <2>2. /\ 1 \in DOMAIN rxq[z] /\ Head(rxq[z]) = rxq[z][1] /\ rxq[z][1].seq \in Seqs
        /\ rxq[z][1].type = "FW_UPDATE"
    BY <2>1, TakenAt
  <2>3. req[rxq[z][1].seq] = [dst |-> z, type |-> rxq[z][1].type]
    BY <2>2 DEF Labelled
  <2>4. rxq[z][1].seq # 0
    BY <2>2, SeqsTyped DEF Seqs
  <2>5. (rxq[z] # <<>> => Runs(z, "app"))'
    BY <1>7, <2>1
  <2>6. QED BY <1>0, <2>1, <2>2, <2>3, <2>4, <2>5 DEF JobOK, JobTypes
<1>15. CASE FwUpdate(z)
  <2>1. /\ UNCHANGED <<rxq, dup, image, req>> /\ busy[z].type = "FLUSH"
        /\ \/ busy'[z] = [seq |-> busy[z].seq, type |-> "FW_UPDATE", t |-> 0]
           \/ busy'[z] = Idle
    BY <1>0, <1>15 DEF FwUpdate, ZoneOK, master
  <2>2. busy[z].seq # 0 /\ req[busy[z].seq].type = "FW_UPDATE"
    BY <1>0, <2>1 DEF JobOK, JobTypes
  <2>3. (rxq[z] # <<>> => Runs(z, "app"))'
    BY <1>0, <2>1 DEF JobOK, Runs, Idle
  <2>4. QED BY <1>0, <2>1, <2>2, <2>3 DEF JobOK, JobTypes, Idle
<1>16. CASE EnterRescue(z) \/ LeaveRescue(z) \/ Reset(z)
  <2>1. rxq'[z] = <<>> /\ busy'[z] = [seq |-> 0, type |-> "BOOT", t |-> 0] /\ dup'[z] = EmptyDup
    BY <1>2, <1>16 DEF EnterRescue, LeaveRescue, Reset
  <2>2. QED BY <2>1 DEF JobOK, EmptyDup, JobTypes
<1>17. CASE Tick
  <2>1. /\ busy'[z] = IF busy[z] = Idle THEN Idle ELSE [busy[z] EXCEPT !.t = @ + 1]
        /\ dup'[z] = [dup[z] EXCEPT !.age = AtMost(@ + 1, DUP_WINDOW + 1)]
        /\ UNCHANGED <<rxq, image, req, runs>>
    BY <1>17 DEF Tick, history
  <2>2. /\ busy'[z].seq = busy[z].seq /\ busy'[z].type = busy[z].type
        /\ busy'[z].type = "none" => busy'[z] = Idle
        /\ busy[z].type # "none" => busy'[z].t = busy[z].t + 1
    BY <1>0, <2>1 DEF Job, JobOK, Idle
  <2>3. /\ dup'[z].seq = dup[z].seq /\ dup'[z].state = dup[z].state
        /\ dup'[z].age <= dup[z].age + 1
    BY <1>0, <2>1 DEF DupState, AtMost
  <2>4. ASSUME busy[z].type = "CFG_COMMIT"
        PROVE  busy[z].t < FLUSH_MAX
    BY <1>0, <1>17, <2>4 DEF Tick, Urgent, Job
  <2>5. busy[z].t \in Nat /\ dup[z].age \in Int /\ dup'[z].age \in Int
    BY <1>0, <2>1 DEF Job, DupState, AtMost
  <2>6. (rxq[z] # <<>> => Runs(z, "app"))'
    BY <1>0, <2>1, <2>2 DEF JobOK, Runs
  <2>7. QED BY <1>0, <2>1, <2>2, <2>3, <2>4, <2>5, <2>6 DEF JobOK
<1>18. CASE \/ \E y \in Zones, type \in Types : TakeSeq(y, type)
            \/ \E r \in Seqs : Submit(r) \/ Cancel(r)
            \/ Master
            \/ \E y \in Zones : LoseUp(y)
            \/ UNCHANGED vars
  BY <1>5, <1>18 DEF TakeSeq, Submit, Cancel, Master, SendHead, GiveUp, MasterReceive, LoseUp,
     vars, zoneRam
<1>19. ASSUME NEW y \in Zones,
              Zone(y) \/ LeaveRescue(y) \/ Reset(y) \/ Deliver(y) \/ LoseDown(y)
       PROVE  JobOK(z)'
  BY <1>6, <1>8, <1>9, <1>10, <1>11, <1>12, <1>13, <1>14, <1>15, <1>16, <1>19 DEF Zone
<1>20. QED BY <1>17, <1>18, <1>19 DEF Next

-----------------------------------------------------------------------------
(* The line *)

LEMMA RisingTail ==
  ASSUME NEW S, NEW s \in Seq(S), s # <<>>, NEW r, Rising(r, s)
  PROVE  Rising(r, Tail(s)) /\ From(r, r[Head(s).seq], Tail(s))
<1>1. /\ Len(s) \in Nat /\ DOMAIN s = 1 .. Len(s) /\ 1 \in DOMAIN s /\ Head(s) = s[1]
      /\ DOMAIN Tail(s) = 1 .. Len(s) - 1
      /\ \A i \in 1 .. Len(s) - 1 : i + 1 \in DOMAIN s /\ Tail(s)[i] = s[i + 1]
  BY TailAt
<1>2. ASSUME NEW i \in DOMAIN Tail(s), NEW j \in DOMAIN Tail(s), i <= j
      PROVE  r[Tail(s)[i].seq] <= r[Tail(s)[j].seq]
  <2>1. i + 1 <= j + 1 /\ Tail(s)[i] = s[i + 1] /\ Tail(s)[j] = s[j + 1]
        /\ i + 1 \in DOMAIN s /\ j + 1 \in DOMAIN s
    BY <1>1, <1>2
  <2>2. QED BY <2>1 DEF Rising
<1>3. ASSUME NEW i \in DOMAIN Tail(s)
      PROVE  r[Head(s).seq] <= r[Tail(s)[i].seq]
  <2>1. 1 <= i + 1 /\ Tail(s)[i] = s[i + 1] /\ i + 1 \in DOMAIN s
    BY <1>1
  <2>2. r[s[1].seq] <= r[s[i + 1].seq]
    BY <1>1, <2>1 DEF Rising
  <2>3. QED BY <1>1, <2>1, <2>2
<1>4. QED BY <1>2, <1>3 DEF Rising, From

LEMMA RisingAppend ==
  ASSUME NEW S, NEW s \in Seq(S), NEW e \in S, NEW r, Rising(r, s), r[e.seq] \in Nat,
         \A i \in DOMAIN s : r[s[i].seq] <= r[e.seq]
  PROVE  Rising(r, Append(s, e))
<1>1. /\ Len(s) \in Nat /\ DOMAIN s = 1 .. Len(s) /\ DOMAIN Append(s, e) = 1 .. Len(s) + 1
      /\ \A i \in 1 .. Len(s) : Append(s, e)[i] = s[i]
      /\ Append(s, e)[Len(s) + 1] = e
  BY AppendAt
<1>2. ASSUME NEW i \in DOMAIN Append(s, e), NEW j \in DOMAIN Append(s, e), i <= j
      PROVE  r[Append(s, e)[i].seq] <= r[Append(s, e)[j].seq]
  <2>1. CASE j \in 1 .. Len(s)
    <3>1. i \in 1 .. Len(s)
      BY <1>1, <1>2, <2>1
    <3>2. r[s[i].seq] <= r[s[j].seq]
      BY <1>1, <1>2, <2>1, <3>1 DEF Rising
    <3>3. QED BY <1>1, <2>1, <3>1, <3>2
  <2>2. CASE j = Len(s) + 1 /\ i \in 1 .. Len(s)
    BY <1>1, <2>2
  <2>3. CASE j = Len(s) + 1 /\ i = Len(s) + 1
    BY <1>1, <2>3
  <2>4. QED BY <1>1, <1>2, <2>1, <2>2, <2>3
<1>3. QED BY <1>2 DEF Rising

(* Only the ranks of what was sent matter.                                  *)
LEMMA Rerank ==
  ASSUME Books, Rest, NEW r, NEW r2, NEW m, NEW z \in Zones,
         \A s \in Seqs : Touched(s) => r2[s] = r[s],
         WireInLine(r, m, z), CacheInLine(r, m, z)
  PROVE  WireInLine(r2, m, z) /\ CacheInLine(r2, m, z)
<1>1. \A i \in DOMAIN down[z] : r2[down[z][i].seq] = r[down[z][i].seq]
  BY Carried DEF FrameDown
<1>2. \A i \in DOMAIN rxq[z] : r2[rxq[z][i].seq] = r[rxq[z][i].seq]
  BY Carried DEF Received
<1>3. /\ dup[z].seq # 0 => r2[dup[z].seq] = r[dup[z].seq]
      /\ busy[z].seq # 0 => r2[busy[z].seq] = r[busy[z].seq]
  BY Carried
<1>4. \A s \in Seqs : runs[s].boot > 0 => r2[s] = r[s]
  BY DEF Touched
<1>5. WireInLine(r2, m, z)
  BY <1>1, <1>2 DEF WireInLine, Rising, Before, From
<1>6. CacheInLine(r2, m, z)
  <2> USE DEF CacheInLine
  <2>1. /\ dup[z].seq # 0 => r2[dup[z].seq] <= m
        /\ busy[z].seq # 0 => r2[busy[z].seq] = m
    BY <1>3
  <2>2. ASSUME NEW s \in Seqs, req[s].dst = z /\ req[s].type \in DedupTypes /\ runs[s].boot > 0
        PROVE  dup[z].seq # 0 /\ r2[s] <= r2[dup[z].seq]
    BY <1>3, <1>4, <2>2
  <2>3. QED BY <2>1, <2>2
<1>7. QED BY <1>5, <1>6

(* The head that is about to be transmitted has the highest rank, or gets   *)
(* the next one.                                                            *)
LEMMA HeadRanked ==
  ASSUME Books, Rest, Untouched, SendHead, NEW r, NEW n, NEW f, InLine(r, n, f)
  PROVE  \E r2, n2 : Lined(r2, n2, f) /\ r2[q[1].seq] = n2 /\ n2 > 0
<1>1. /\ q # <<>> /\ MasterOK /\ q[1] \in Entry /\ 1 \in DOMAIN q /\ q[1].seq \in Seqs
      /\ q[1].att \in Nat
  BY QueueFacts DEF SendHead, Books, Entry
<1>2. /\ r \in [Seqs -> Nat] /\ n \in Nat /\ f \in [Zones -> Nat]
      /\ \A s \in Seqs : r[s] <= n
      /\ \A z \in Zones : f[z] <= n
      /\ \A s \in Seqs : Touched(s) => r[s] > 0
      /\ \A s, t \in Seqs : r[s] = r[t] /\ r[s] > 0 => s = t
      /\ \A z \in Zones : WireInLine(r, f[z], z) /\ CacheInLine(r, f[z], z)
  BY DEF InLine, Lined, Ranking
<1>3. CASE q[1].att > 0
  BY <1>1, <1>3 DEF InLine, InFlight
<1>4. CASE q[1].att = 0
  <2>1. ~Touched(q[1].seq)
    BY <1>1, <1>4 DEF Untouched, Unsent
  <2> DEFINE r2 == [r EXCEPT ![q[1].seq] = n + 1]
  <2>2. /\ r2 \in [Seqs -> Nat] /\ r2[q[1].seq] = n + 1
        /\ \A s \in Seqs : s # q[1].seq => r2[s] = r[s]
    BY <1>1, <1>2
  <2> HIDE DEF r2
  <2>3. \A s \in Seqs : Touched(s) => r2[s] = r[s]
    BY <2>1, <2>2
  <2>4. \A z \in Zones : WireInLine(r2, f[z], z) /\ CacheInLine(r2, f[z], z)
    BY <1>2, <2>3, Rerank
  <2>5. \A s, t \in Seqs : r2[s] = r2[t] /\ r2[s] > 0 => s = t
    <3> SUFFICES ASSUME NEW s \in Seqs, NEW t \in Seqs, r2[s] = r2[t], r2[s] > 0
                 PROVE  s = t
      OBVIOUS
    <3>1. s # q[1].seq => r2[s] = r[s] /\ r[s] <= n /\ r[s] \in Nat
      BY <1>2, <2>2
    <3>2. t # q[1].seq => r2[t] = r[t] /\ r[t] <= n /\ r[t] \in Nat
      BY <1>2, <2>2
    <3>3. QED BY <1>2, <2>2, <3>1, <3>2
  <2>6. \A s \in Seqs : r2[s] <= n + 1
    <3> TAKE s \in Seqs
    <3>1. r[s] <= n /\ r[s] \in Nat
      BY <1>2
    <3>2. QED BY <1>2, <2>2, <3>1
  <2>7. \A z \in Zones : f[z] <= n + 1
    BY <1>2
  <2>8. \A s \in Seqs : Touched(s) => r2[s] > 0
    BY <1>2, <2>3
  <2>9. Lined(r2, n + 1, f) /\ n + 1 > 0
    BY <1>2, <2>2, <2>4, <2>5, <2>6, <2>7, <2>8 DEF Lined, Ranking
  <2>10. QED BY <2>2, <2>9
<1>5. QED BY <1>1, <1>3, <1>4

LEMMA SendLine ==
  ASSUME Books, Rest, SendHead, NEW r, NEW n, NEW f, Lined(r, n, f), r[q[1].seq] = n, n > 0
  PROVE  InLine(r, n, f)'
<1>0. [Next]_vars
  BY DEF Next, Master
<1>1. /\ q # <<>> /\ q[1] \in Entry /\ q[1].att < MAX_ATTEMPTS /\ q' = Sent(q) /\ MasterOK
      /\ UNCHANGED <<rxq, busy, dup, runs, req>>
  BY QueueFacts, TrkAssumption DEF SendHead, Books, zoneRam, history
<1>2. q'[1].seq = q[1].seq
  <2>1. 1 \in 1 .. Len(q)
    BY <1>1, QueueFacts
  <2>2. QED BY <1>1, <2>1, SentProperties
<1>3. /\ r \in [Seqs -> Nat] /\ n \in Nat /\ f \in [Zones -> Nat]
      /\ \A s \in Seqs : r[s] <= n
      /\ \A z \in Zones : f[z] <= n
      /\ \A s \in Seqs : Touched(s) => r[s] > 0
      /\ \A s, t \in Seqs : r[s] = r[t] /\ r[s] > 0 => s = t
      /\ \A z \in Zones : WireInLine(r, f[z], z) /\ CacheInLine(r, f[z], z)
  BY DEF Lined, Ranking
<1>4. ASSUME NEW s \in Seqs, Touched(s)'
      PROVE  r[s] > 0
  BY <1>0, <1>3, <1>4, TouchedStep
<1>5. ASSUME NEW z \in Zones
      PROVE  CacheInLine(r, f[z], z)'
  BY <1>1, <1>3, SeqsTyped DEF CacheInLine, Seqs
<1>6. ASSUME NEW z \in Zones
      PROVE  WireInLine(r, f[z], z)'
  <2> DEFINE e == [seq |-> q[1].seq, type |-> q[1].type, age |-> 0]
  <2>1. e \in FrameDown /\ e.seq = q[1].seq
    BY <1>1, RingCmdAssumption DEF Entry, FrameDown
  <2>2. down \in [Zones -> Seq(FrameDown)] /\ down' = [down EXCEPT ![q[1].dst] = Append(@, e)]
    BY DEF SendHead, Transmit, Rest, WiresOK
  <2> HIDE DEF e
  <2>3. WireInLine(r, f[z], z)
    BY <1>3
  <2>4. CASE z # q[1].dst
    <3>1. down'[z] = down[z] /\ rxq'[z] = rxq[z]
      BY <1>1, <2>2, <2>4
    <3>2. QED BY <2>3, <3>1 DEF WireInLine, Rising, Before, From
  <2>5. CASE z = q[1].dst
    <3>1. down'[z] = Append(down[z], e) /\ rxq'[z] = rxq[z] /\ down[z] \in Seq(FrameDown)
      BY <1>1, <2>2, <2>5
    <3>2. /\ \A i \in DOMAIN down[z] : r[down[z][i].seq] <= r[e.seq]
          /\ \A i \in DOMAIN rxq[z] : r[rxq[z][i].seq] <= r[e.seq]
          /\ r[e.seq] \in Nat /\ f[z] <= r[e.seq]
      BY <1>3, <2>1, Carried DEF FrameDown, Received
    <3>3. Rising(r, down'[z])
      BY <2>1, <2>3, <3>1, <3>2, RisingAppend DEF WireInLine
    <3>4. \A i \in DOMAIN down'[z] : down'[z][i] = e \/ \E j \in DOMAIN down[z] : down'[z][i] = down[z][j]
      BY <2>1, <3>1, AppendElements
    <3>5. Before(r, rxq[z], down'[z])
      BY <2>3, <3>2, <3>4 DEF WireInLine, Before
    <3>6. From(r, f[z], down'[z])
      BY <2>3, <3>2, <3>4 DEF WireInLine, From
    <3>7. QED BY <2>3, <3>1, <3>3, <3>5, <3>6 DEF WireInLine, Rising, Before, From
  <2>6. QED BY <2>4, <2>5
<1>7. Seqs' = Seqs
  BY DEF Seqs
<1>8. Lined(r, n, f)'
  BY <1>3, <1>4, <1>5, <1>6, <1>7 DEF Lined, Ranking
<1>9. QED BY <1>2, <1>8 DEF InLine

(* Every other step moves frames towards the zones or drops them.           *)
LEMMA KeptLine ==
  ASSUME Books, Rest, [Next]_vars, ~SendHead, NEW r, NEW n, NEW f, NEW f2, InLine(r, n, f),
         f2 \in [Zones -> Nat],
         \A z \in Zones : f2[z] <= n,
         \A z \in Zones : WireInLine(r, f2[z], z)' /\ CacheInLine(r, f2[z], z)'
  PROVE  InLine(r, n, f2)'
<1>1. Seqs' = Seqs
  BY DEF Seqs
<1>2. \A s \in Seqs : Touched(s)' => r[s] > 0
  BY TouchedStep DEF InLine, Lined
<1>3. Lined(r, n, f2)'
  BY <1>1, <1>2 DEF InLine, Lined, Ranking
<1>4. InFlight(q') => r[q'[1].seq] = n /\ n > 0
  BY MasterStep DEF InLine
<1>5. QED BY <1>3, <1>4 DEF InLine

LEMMA SameWire ==
  ASSUME NEW z \in Zones, NEW r, NEW m, WireInLine(r, m, z),
         DOMAIN down'[z] = DOMAIN down[z],
         \A i \in DOMAIN down[z] : down'[z][i].seq = down[z][i].seq,
         rxq'[z] = rxq[z]
  PROVE  WireInLine(r, m, z)'
BY DEF WireInLine, Rising, Before, From

(* The wire of a zone after a step that is not a transmission, when its     *)
(* control task takes nothing.                                              *)
LEMMA WireKept ==
  ASSUME Books, Rest, [Next]_vars, ~SendHead, NEW z \in Zones, ~Taking(z),
         NEW r \in [Seqs -> Nat], NEW m \in Nat, WireInLine(r, m, z)
  PROVE  WireInLine(r, m, z)'
<1>0. /\ down \in [Zones -> Seq(FrameDown)] /\ down[z] \in Seq(FrameDown)
      /\ rxq \in [Zones -> Seq(Received)] /\ rxq[z] \in Seq(Received)
  BY DEF Rest, WiresOK, ZoneOK
<1>1. ASSUME down'[z] = down[z], rxq'[z] = rxq[z]
      PROVE  WireInLine(r, m, z)'
  BY <1>1, SameWire
<1>2. ASSUME down[z] # <<>>, down'[z] = Tail(down[z])
      PROVE  /\ Rising(r, down'[z]) /\ From(r, r[Head(down[z]).seq], down'[z])
             /\ Before(r, rxq[z], down'[z])
             /\ From(r, m, down'[z])
             /\ \A i \in DOMAIN rxq[z] : r[rxq[z][i].seq] <= r[Head(down[z]).seq]
             /\ m <= r[Head(down[z]).seq]
  <2>1. /\ \A i \in DOMAIN Tail(down[z]) : \E j \in DOMAIN down[z] : Tail(down[z])[i] = down[z][j]
        /\ \E j \in DOMAIN down[z] : Head(down[z]) = down[z][j]
    BY <1>0, <1>2, TailElements
  <2>2. Rising(r, Tail(down[z])) /\ From(r, r[Head(down[z]).seq], Tail(down[z]))
    BY <1>0, <1>2, RisingTail DEF WireInLine
  <2>3. QED BY <1>2, <2>1, <2>2 DEF WireInLine, Before, From
<1>3. ASSUME NEW y \in Zones, LoseDown(y)
      PROVE  WireInLine(r, m, z)'
  <2>1. down[y] # <<>> /\ down' = [down EXCEPT ![y] = Tail(@)] /\ rxq' = rxq
    BY <1>3 DEF LoseDown, zoneRam
  <2>2. CASE y # z
    BY <1>0, <1>1, <2>1, <2>2
  <2>3. CASE y = z
    <3>1. down'[z] = Tail(down[z])
      BY <1>0, <2>1, <2>3
    <3>2. QED BY <1>2, <2>1, <2>3, <3>1 DEF WireInLine
  <2>4. QED BY <2>2, <2>3
<1>4. ASSUME NEW y \in Zones, Deliver(y)
      PROVE  WireInLine(r, m, z)'
  <2> DEFINE g == [seq |-> Head(down[y]).seq, type |-> Head(down[y]).type]
  <2>1. /\ down[y] # <<>> /\ down' = [down EXCEPT ![y] = Tail(@)]
        /\ rxq' = rxq \/ rxq' = [rxq EXCEPT ![y] = Append(@, g)]
    BY <1>4 DEF Deliver
  <2>2. CASE y # z
    BY <1>0, <1>1, <2>1, <2>2
  <2>3. CASE y = z
    <3>1. down'[z] = Tail(down[z]) /\ (rxq'[z] = rxq[z] \/ rxq'[z] = Append(rxq[z], g))
      BY <1>0, <2>1, <2>3
    <3>2. Head(down[z]) \in FrameDown
      BY <1>0, <2>1, <2>3, HeadTailProperties
    <3>3. g \in Received /\ g.seq = Head(down[z]).seq /\ r[g.seq] \in Nat
      BY <2>3, <3>2 DEF FrameDown, Received
    <3> HIDE DEF g
    <3>4. CASE rxq'[z] = rxq[z]
      BY <1>2, <2>1, <2>3, <3>1, <3>4 DEF WireInLine
    <3>5. CASE rxq'[z] = Append(rxq[z], g)
      <4>0. Rising(r, rxq[z]) /\ \A i \in DOMAIN rxq[z] : r[rxq[z][i].seq] <= r[g.seq]
        BY <1>2, <2>1, <2>3, <3>1, <3>3 DEF WireInLine
      <4>1. Rising(r, rxq'[z])
        BY <1>0, <3>3, <3>5, <4>0, RisingAppend
      <4>2. \A i \in DOMAIN rxq'[z] : rxq'[z][i] = g \/ \E j \in DOMAIN rxq[z] : rxq'[z][i] = rxq[z][j]
        BY <1>0, <3>3, <3>5, AppendElements
      <4>3. Before(r, rxq'[z], down'[z])
        BY <1>2, <2>1, <2>3, <3>1, <3>3, <4>2 DEF Before, From
      <4>4. From(r, m, rxq'[z])
        BY <1>2, <2>1, <2>3, <3>1, <3>3, <4>2 DEF WireInLine, From
      <4>5. QED BY <1>2, <2>1, <2>3, <3>1, <4>1, <4>3, <4>4 DEF WireInLine
    <3>6. QED BY <3>1, <3>4, <3>5
  <2>4. QED BY <2>2, <2>3
<1>5. ASSUME NEW y \in Zones, Taking(y)
      PROVE  WireInLine(r, m, z)'
  BY <1>1, <1>5, TakingFrame, TakenAt
<1>6. ASSUME NEW y \in Zones, NEW img, Restarted(y, img), down' = down
      PROVE  WireInLine(r, m, z)'
  <2>1. rxq'[z] = rxq[z] \/ rxq'[z] = <<>>
    BY <1>0, <1>6 DEF Restarted
  <2>2. CASE rxq'[z] = <<>>
    BY <1>6, <2>2 DEF WireInLine, Rising, Before, From
  <2>3. QED BY <1>1, <1>6, <2>1, <2>2
<1>7. CASE Tick
  <2>1. down'[z] = [j \in DOMAIN down[z] |-> [down[z][j] EXCEPT !.age = @ + 1]] /\ rxq' = rxq
    BY <1>7 DEF Tick, Older
  <2>2. \A i \in DOMAIN down[z] : down'[z][i].seq = down[z][i].seq
    BY <2>1, Carried DEF FrameDown
  <2>3. QED BY <2>1, <2>2, SameWire
<1>8. QED BY <1>1, <1>3, <1>4, <1>5, <1>6, <1>7, WireShapes

(* And when it takes one.                                                   *)
LEMMA WireTaken ==
  ASSUME Rest, NEW z \in Zones, TakeFrame(z, TrackedTypes), down' = down,
         NEW r \in [Seqs -> Nat], NEW m \in Nat, WireInLine(r, m, z),
         NEW m2, m2 = r[rxq[z][1].seq]
  PROVE  WireInLine(r, m2, z)' /\ m <= m2
<1>1. /\ rxq[z] \in Seq(Received) /\ rxq[z] # <<>> /\ 1 \in DOMAIN rxq[z] /\ Head(rxq[z]) = rxq[z][1]
      /\ rxq'[z] = Tail(rxq[z])
  BY TakenAt
<1>2. Rising(r, Tail(rxq[z])) /\ From(r, m2, Tail(rxq[z]))
  BY <1>1, RisingTail DEF WireInLine
<1>3. \A i \in DOMAIN Tail(rxq[z]) : \E j \in DOMAIN rxq[z] : Tail(rxq[z])[i] = rxq[z][j]
  BY <1>1, TailElements
<1>4. Before(r, Tail(rxq[z]), down[z])
  BY <1>3 DEF WireInLine, Before
<1>5. From(r, m2, down[z]) /\ m <= m2
  BY <1>1 DEF WireInLine, Before, From
<1>6. QED BY <1>1, <1>2, <1>4, <1>5 DEF WireInLine

(* What a command or a commit owes its execution in this boot to.           *)
LEMMA Executed ==
  ASSUME Books, Rest, Untouched, Labelled, Jobs, [Next]_vars, NEW s \in Seqs,
         req'[s].type \in DedupTypes, runs'[s].boot > 0
  PROVE  /\ req'[s] = req[s]
         /\ \/ runs'[s] = runs[s]
            \/ \E z \in Zones : /\ BeginCmd(z) \/ Commit(z)
                                /\ s = rxq[z][1].seq /\ req[s].dst = z
                                /\ runs' = [runs EXCEPT ![s].boot = @ + 1, ![s].total = @ + 1]
<1>0. runs \in [Seqs -> [boot : Nat, total : Nat]]
  BY DEF Rest, HistoryOK
<1>1. ASSUME runs[s].boot > 0
      PROVE  req'[s] = req[s]
  BY <1>1, ReqKept DEF Touched
<1>2. ASSUME NEW img, Restarted(req[s].dst, img)
      PROVE  FALSE
  <2>1. runs'[s].boot = 0
    BY <1>0, <1>2 DEF Restarted
  <2>2. QED BY <2>1
<1>4. ASSUME NEW r, Record(r), r # s
      PROVE  runs'[s] = runs[s]
  BY <1>0, <1>4 DEF Record
<1>5. ASSUME NEW z \in Zones, NEW types, TakeFrame(z, types), s = rxq[z][1].seq
      PROVE  /\ req'[s] = req[s] /\ req[s].dst = z /\ req[s].type \in types
  <2>1. 1 \in DOMAIN rxq[z] /\ rxq[z][1].type \in types
    BY <1>5, TakenAt
  <2>2. req[rxq[z][1].seq] = [dst |-> z, type |-> rxq[z][1].type]
    BY <2>1 DEF Labelled
  <2>3. Touched(s)
    BY <1>5, <2>1, Carried
  <2>4. QED BY <1>5, <2>1, <2>2, <2>3, ReqKept
<1>6. ASSUME NEW z \in Zones, BeginCmd(z) \/ Commit(z)
      PROVE  \/ runs'[s] = runs[s]
             \/ /\ s = rxq[z][1].seq /\ req[s].dst = z /\ req'[s] = req[s]
                /\ runs' = [runs EXCEPT ![s].boot = @ + 1, ![s].total = @ + 1]
  <2>1. Record(Head(rxq[z]).seq) /\ \E types : TakeFrame(z, types)
    BY <1>6 DEF BeginCmd, Commit
  <2>2. Head(rxq[z]) = rxq[z][1]
    BY <2>1, TakenAt
  <2>3. QED BY <1>4, <1>5, <2>1, <2>2 DEF Record
<1>7. ASSUME NEW z \in Zones, ConfigGet(z)
      PROVE  runs'[s] = runs[s]
  <2>1. Record(Head(rxq[z]).seq) /\ TakeFrame(z, {"CFG_GET"})
    BY <1>7 DEF ConfigGet
  <2>2. Head(rxq[z]) = rxq[z][1]
    BY <2>1, TakenAt
  <2>3. s # rxq[z][1].seq
    BY <1>5, <2>1 DEF DedupTypes
  <2>4. QED BY <1>4, <2>1, <2>2, <2>3
<1>8. ASSUME NEW z \in Zones, FwUpdate(z)
      PROVE  runs'[s] = runs[s]
  <2>1. Record(busy[z].seq) /\ busy[z].type = "FLUSH" /\ req' = req
    BY <1>8 DEF FwUpdate, master
  <2>2. req[busy[z].seq].type = "FW_UPDATE"
    BY <2>1 DEF Jobs, JobOK
  <2>3. s # busy[z].seq
    BY <2>1, <2>2 DEF DedupTypes
  <2>4. QED BY <1>4, <2>1, <2>3
<1>9. ASSUME NEW z \in Zones, NEW img, Restarted(z, img)
      PROVE  runs'[s] = runs[s]
  <2>1. req[s].dst # z
    BY <1>2, <1>9
  <2>2. QED BY <1>9, <2>1 DEF Restarted
<1>10. ASSUME runs' = runs
       PROVE  runs'[s] = runs[s]
  BY <1>10
<1>11. \/ runs'[s] = runs[s]
       \/ \E z \in Zones : /\ BeginCmd(z) \/ Commit(z)
                           /\ s = rxq[z][1].seq /\ req[s].dst = z /\ req'[s] = req[s]
                           /\ runs' = [runs EXCEPT ![s].boot = @ + 1, ![s].total = @ + 1]
  BY <1>6, <1>7, <1>8, <1>9, <1>10, TaskShapes DEF FinishCmd, Flushed, BeginFwUpdate, BootDone, Tick, history
<1>12. QED BY <1>1, <1>2, <1>11

LEMMA NextAtMostOnce ==
  ASSUME Books, Rest, Untouched, Once, [Next]_vars
  PROVE  AtMostOncePerBoot'
<1> SUFFICES ASSUME NEW s \in Seqs, req'[s].type \in DedupTypes, runs'[s].boot > 1
             PROVE  FALSE
  <2>1. \A s \in Seqs : runs'[s].boot \in Nat
    BY NextQueueInv DEF Rest, HistoryOK, Seqs
  <2>2. QED BY <2>1 DEF AtMostOncePerBoot, Seqs
<1>0. Labelled /\ Jobs /\ InTime /\ Firsts /\ AtMostOncePerBoot
  BY DEF Once
<1>1. runs \in [Seqs -> [boot : Nat, total : Nat]] /\ runs' \in [Seqs -> [boot : Nat, total : Nat]]
  BY NextQueueInv DEF Rest, HistoryOK, Seqs
<1>2. /\ req'[s] = req[s]
      /\ \/ runs'[s] = runs[s]
         \/ \E z \in Zones : /\ BeginCmd(z) \/ Commit(z)
                             /\ s = rxq[z][1].seq /\ req[s].dst = z
                             /\ runs' = [runs EXCEPT ![s].boot = @ + 1, ![s].total = @ + 1]
  <2>1. runs'[s].boot > 0
    BY <1>1
  <2>2. QED BY <1>0, <2>1, Executed
<1>3. runs[s].boot <= 1
  BY <1>0, <1>2 DEF AtMostOncePerBoot
<1>4. PICK z \in Zones : /\ BeginCmd(z) \/ Commit(z)
                         /\ s = rxq[z][1].seq
                         /\ runs' = [runs EXCEPT ![s].boot = @ + 1, ![s].total = @ + 1]
  BY <1>1, <1>2, <1>3
<1>5. runs[s].boot > 0
  <2>1. runs[s] \in [boot : Nat, total : Nat]
    BY <1>1
  <2>2. runs'[s] = [runs[s] EXCEPT !.boot = @ + 1, !.total = @ + 1]
    BY <1>1, <1>4
  <2>3. runs'[s].boot = runs[s].boot + 1
    BY <2>1, <2>2
  <2>4. QED BY <2>1, <2>3
<1>6. TakeFrame(z, DedupTypes) /\ Head(rxq[z]) = rxq[z][1] /\ DupVerdict(z, Head(rxq[z]).seq) = "exec"
  <2>1. CASE BeginCmd(z)
    <3>1. TakeFrame(z, {"CMD"}) /\ DupVerdict(z, Head(rxq[z]).seq) = "exec"
      BY <2>1 DEF BeginCmd
    <3>2. TakeFrame(z, DedupTypes)
      BY <3>1 DEF TakeFrame, DedupTypes
    <3>3. QED BY <3>1, <3>2, TakenAt
  <2>2. CASE Commit(z)
    <3>1. TakeFrame(z, {"CFG_COMMIT"}) /\ DupVerdict(z, Head(rxq[z]).seq) = "exec"
      BY <2>2 DEF Commit
    <3>2. TakeFrame(z, DedupTypes)
      BY <3>1 DEF TakeFrame, DedupTypes
    <3>3. QED BY <3>1, <3>2, TakenAt
  <2>3. QED BY <1>4, <2>1, <2>2
<1>7. QED BY <1>0, <1>4, <1>5, <1>6, Recognised

(* The cache of a zone whose control task takes nothing.                    *)
LEMMA CacheKept ==
  ASSUME Books, Rest, Untouched, Labelled, Jobs, [Next]_vars, NEW z \in Zones, ~Taking(z),
         NEW r \in [Seqs -> Nat], NEW m, CacheInLine(r, m, z)
  PROVE  CacheInLine(r, m, z)'
<1>0. ZoneOK /\ HistoryOK
  BY DEF Rest
<1>1. \/ dup'[z].seq = dup[z].seq /\ busy'[z].seq \in {0, busy[z].seq}
      \/ \E img : Restarted(z, img) /\ dup'[z].seq = 0 /\ busy'[z].seq = 0
  <2> DEFINE Goal == \/ dup'[z].seq = dup[z].seq /\ busy'[z].seq \in {0, busy[z].seq}
                     \/ \E img : Restarted(z, img) /\ dup'[z].seq = 0 /\ busy'[z].seq = 0
  <2>1. CASE UNCHANGED <<busy, dup>>
    BY <2>1
  <2>2. ASSUME NEW y \in Zones, BeginCmd(y) \/ Commit(y) \/ ConfigGet(y) \/ BeginFwUpdate(y)
        PROVE  Goal
    <3>1. y # z
      BY <2>2 DEF Taking
    <3>2. /\ dup' = dup \/ \E v : dup' = [dup EXCEPT ![y] = v]
          /\ busy' = busy \/ \E v : busy' = [busy EXCEPT ![y] = v]
      BY <2>2 DEF BeginCmd, Commit, ConfigGet, BeginFwUpdate
    <3>3. dup'[z] = dup[z] /\ busy'[z] = busy[z]
      BY <1>0, <3>1, <3>2 DEF ZoneOK
    <3>4. QED BY <3>3
  <2>3. ASSUME NEW y \in Zones, FinishCmd(y)
        PROVE  Goal
    <3>1. PICK status \in ZoneStatus :
            /\ dup' = [dup EXCEPT ![y] = DupDone(dup[y], busy[y].seq, status)]
            /\ busy' = [busy EXCEPT ![y] = Idle]
      BY <1>0, <2>3 DEF FinishCmd, ZoneOK
    <3>2. DupDone(dup[y], busy[y].seq, status).seq = dup[y].seq
      BY DEF DupDone
    <3>3. dup'[z].seq = dup[z].seq
      BY <1>0, <3>1, <3>2 DEF ZoneOK
    <3>4. busy'[z] \in {Idle, busy[z]}
      BY <1>0, <3>1 DEF ZoneOK
    <3>5. QED BY <3>3, <3>4 DEF Idle
  <2>4. ASSUME NEW y \in Zones, Flushed(y) \/ BootDone(y) \/ FwUpdate(y)
        PROVE  Goal
    <3>1. /\ dup' = dup
          /\ \/ busy' = [busy EXCEPT ![y] = Idle]
             \/ busy' = [busy EXCEPT ![y] = [seq |-> busy[y].seq, type |-> "FW_UPDATE", t |-> 0]]
      BY <2>4 DEF Flushed, BootDone, FwUpdate
    <3>2. busy'[z] \in {Idle, busy[z], [seq |-> busy[z].seq, type |-> "FW_UPDATE", t |-> 0]}
      BY <1>0, <3>1 DEF ZoneOK
    <3>3. QED BY <3>1, <3>2 DEF Idle
  <2>5. ASSUME NEW y \in Zones, NEW img, Restarted(y, img)
        PROVE  Goal
    <3>1. CASE y = z
      <4>1. dup'[z] = EmptyDup /\ busy'[z] = [seq |-> 0, type |-> "BOOT", t |-> 0]
        BY <1>0, <2>5, <3>1 DEF Restarted, ZoneOK
      <4>2. QED BY <2>5, <3>1, <4>1 DEF EmptyDup
    <3>2. CASE y # z
      <4>1. dup'[z] = dup[z] /\ busy'[z] = busy[z]
        BY <1>0, <2>5, <3>2 DEF Restarted, ZoneOK
      <4>2. QED BY <4>1
    <3>3. QED BY <3>1, <3>2
  <2>6. CASE Tick
    <3>1. /\ busy'[z] = IF busy[z] = Idle THEN Idle ELSE [busy[z] EXCEPT !.t = @ + 1]
          /\ dup'[z] = [dup[z] EXCEPT !.age = AtMost(@ + 1, DUP_WINDOW + 1)]
      BY <2>6 DEF Tick
    <3>2. busy[z] \in Job /\ dup[z] \in DupState
      BY <1>0 DEF ZoneOK
    <3>3. busy'[z].seq = busy[z].seq /\ dup'[z].seq = dup[z].seq
      BY <3>1, <3>2 DEF Job, DupState
    <3>4. QED BY <3>3
  <2>7. QED BY <2>1, <2>2, <2>3, <2>4, <2>5, <2>6, TaskShapes
<1>2. /\ dup'[z].seq # 0 => r[dup'[z].seq] <= m
      /\ busy'[z].seq # 0 => r[busy'[z].seq] = m
  BY <1>1 DEF CacheInLine
<1>3. ASSUME NEW s \in Seqs, req'[s].dst = z, req'[s].type \in DedupTypes, runs'[s].boot > 0
      PROVE  dup'[z].seq # 0 /\ r[s] <= r[dup'[z].seq]
  <2>1. /\ req'[s] = req[s]
        /\ \/ runs'[s] = runs[s]
           \/ \E y \in Zones : (BeginCmd(y) \/ Commit(y)) /\ req[s].dst = y
    BY <1>3, Executed
  <2>2. runs'[s] = runs[s]
    BY <1>3, <2>1 DEF Taking
  <2>3. dup[z].seq # 0 /\ r[s] <= r[dup[z].seq]
    BY <1>3, <2>1, <2>2 DEF CacheInLine
  <2>4. ~ \E img : Restarted(z, img)
    <3> SUFFICES ASSUME NEW img, Restarted(z, img)
                 PROVE  FALSE
      OBVIOUS
    <3>1. runs'[s] = [runs[s] EXCEPT !.boot = 0] /\ runs[s] \in [boot : Nat, total : Nat]
      BY <1>0, <1>3, <2>1 DEF Restarted, HistoryOK
    <3>2. QED BY <1>3, <3>1
  <2>5. QED BY <1>1, <2>3, <2>4
<1>4. Seqs' = Seqs
  BY DEF Seqs
<1>5. QED BY <1>2, <1>3, <1>4 DEF CacheInLine

(* And of one that takes the frame in its turn.                             *)
LEMMA CacheTaken ==
  ASSUME Books, Rest, Untouched, Labelled, Jobs, [Next]_vars, NEW z \in Zones, Taking(z),
         NEW r \in [Seqs -> Nat], NEW m \in Nat, CacheInLine(r, m, z),
         NEW m2, m2 = r[rxq[z][1].seq], m <= m2
  PROVE  CacheInLine(r, m2, z)'
<1>0. ZoneOK /\ HistoryOK
  BY DEF Rest
<1> DEFINE t == rxq[z][1].seq
<1>1. /\ Head(rxq[z]) = rxq[z][1] /\ t \in Seqs /\ t # 0 /\ busy[z].seq = 0
  BY TakingFrame, TakenAt, SeqsTyped DEF TakeFrame, Free, Idle, Seqs
<1> HIDE DEF t
<1>2. dup[z].seq # 0 => dup[z].seq \in Seqs /\ r[dup[z].seq] <= m2
  <2>1. dup[z].seq # 0 => dup[z].seq \in Seqs /\ r[dup[z].seq] <= m
    BY Carried DEF CacheInLine
  <2>2. m2 \in Nat
    BY <1>1 DEF t
  <2>3. QED BY <2>1, <2>2
<1>3. /\ busy'[z].seq \in {0, t}
      /\ \/ dup'[z] = dup[z] /\ ~ (BeginCmd(z) \/ Commit(z))
         \/ dup'[z].seq = t
  <2>1. CASE Retransmitted(z) \/ ConfigGet(z)
    <3>1. dup' = dup /\ busy' = busy
      BY <2>1 DEF Retransmitted, ConfigGet
    <3>2. ASSUME BeginCmd(z) \/ Commit(z)
          PROVE  dup'[z].seq = t
      BY <1>0, <1>1, <3>2 DEF BeginCmd, Commit, DupStarted, DupDone, ZoneOK, t
    <3>3. QED BY <1>1, <3>1, <3>2
  <2>2. CASE BeginCmd(z) \/ Commit(z)
    <3>1. dup'[z].seq = t
      BY <1>0, <1>1, <2>2 DEF BeginCmd, Commit, DupStarted, DupDone, ZoneOK, t
    <3>2. busy'[z].seq \in {0, t}
      BY <1>0, <1>1, <2>2 DEF BeginCmd, Commit, ZoneOK, t
    <3>3. QED BY <3>1, <3>2
  <2>3. CASE BeginFwUpdate(z)
    <3>1. dup' = dup /\ busy'[z].seq = t
      BY <1>0, <1>1, <2>3 DEF BeginFwUpdate, ZoneOK, t
    <3>2. ASSUME BeginCmd(z) \/ Commit(z)
          PROVE  dup'[z].seq = t
      BY <1>0, <1>1, <3>2 DEF BeginCmd, Commit, DupStarted, DupDone, ZoneOK, t
    <3>3. QED BY <3>1, <3>2
  <2>4. QED BY <2>1, <2>2, <2>3 DEF Taking
<1>4. /\ dup'[z].seq # 0 => r[dup'[z].seq] <= m2
      /\ busy'[z].seq # 0 => r[busy'[z].seq] = m2
  BY <1>1, <1>2, <1>3 DEF t
<1>5. ASSUME NEW s \in Seqs, req'[s].dst = z, req'[s].type \in DedupTypes, runs'[s].boot > 0
      PROVE  dup'[z].seq # 0 /\ r[s] <= r[dup'[z].seq]
  <2>1. /\ req'[s] = req[s]
        /\ \/ runs'[s] = runs[s]
           \/ \E y \in Zones : (BeginCmd(y) \/ Commit(y)) /\ req[s].dst = y /\ s = rxq[y][1].seq
    BY <1>5, Executed
  <2>2. CASE runs'[s] = runs[s]
    <3>1. dup[z].seq # 0 /\ r[s] <= r[dup[z].seq]
      BY <1>5, <2>1, <2>2 DEF CacheInLine
    <3>2. r[s] <= m2
      <4>1. r[s] \in Nat /\ r[dup[z].seq] \in Nat /\ m2 \in Nat
        BY <1>1, <1>2, <3>1 DEF t
      <4>2. QED BY <1>2, <3>1, <4>1
    <3>3. QED BY <1>1, <1>3, <3>1, <3>2 DEF t
  <2>3. CASE s = rxq[z][1].seq /\ (BeginCmd(z) \/ Commit(z))
    BY <1>1, <1>3, <2>3 DEF t
  <2>4. QED BY <1>5, <2>1, <2>2, <2>3
<1>6. Seqs' = Seqs
  BY DEF Seqs
<1>7. QED BY <1>4, <1>5, <1>6 DEF CacheInLine

LEMMA NextFirsts ==
  ASSUME Books, Rest, Untouched, Labelled, Jobs, Firsts, [Next]_vars
  PROVE  Firsts'
<1>1. PICK r, n, f : InLine(r, n, f)
  BY DEF Firsts
<1>2. /\ r \in [Seqs -> Nat] /\ n \in Nat /\ f \in [Zones -> Nat]
      /\ \A s \in Seqs : r[s] <= n
      /\ \A z \in Zones : f[z] <= n
      /\ \A z \in Zones : WireInLine(r, f[z], z) /\ CacheInLine(r, f[z], z)
  BY <1>1 DEF InLine, Lined, Ranking
<1>3. CASE SendHead
  <2>1. PICK r2, n2 : Lined(r2, n2, f) /\ r2[q[1].seq] = n2 /\ n2 > 0
    BY <1>1, <1>3, HeadRanked
  <2>2. InLine(r2, n2, f)'
    BY <1>3, <2>1, SendLine
  <2>3. QED BY <2>2 DEF Firsts
<1>4. CASE ~SendHead /\ ~ \E z \in Zones : Taking(z)
  <2>1. \A z \in Zones : WireInLine(r, f[z], z)' /\ CacheInLine(r, f[z], z)'
    <3> TAKE z \in Zones
    <3>1. f[z] \in Nat /\ WireInLine(r, f[z], z) /\ CacheInLine(r, f[z], z)
      BY <1>2
    <3>2. WireInLine(r, f[z], z)'
      BY <1>2, <1>4, <3>1, WireKept
    <3>3. CacheInLine(r, f[z], z)'
      BY <1>2, <1>4, <3>1, CacheKept
    <3>4. QED BY <3>2, <3>3
  <2>2. InLine(r, n, f)'
    BY <1>1, <1>2, <1>4, <2>1, KeptLine
  <2>3. QED BY <2>2 DEF Firsts
<1>5. ASSUME NEW y \in Zones, Taking(y)
      PROVE  Firsts'
  <2>1. PICK m2 : m2 = r[rxq[y][1].seq]
    OBVIOUS
  <2>2. TakeFrame(y, TrackedTypes) /\ down' = down /\ rxq[y][1].seq \in Seqs
    BY <1>5, TakingFrame, TakenAt
  <2>3. m2 \in Nat /\ m2 <= n /\ f[y] \in Nat
    BY <1>2, <2>1, <2>2
  <2>4. WireInLine(r, m2, y)' /\ f[y] <= m2
    BY <1>2, <2>1, <2>2, <2>3, WireTaken
  <2>5. CacheInLine(r, m2, y)'
    BY <1>2, <1>5, <2>1, <2>3, <2>4, CacheTaken
  <2> DEFINE f2 == [f EXCEPT ![y] = m2]
  <2>6. /\ f2 \in [Zones -> Nat] /\ f2[y] = m2
        /\ \A z \in Zones : z # y => f2[z] = f[z]
    BY <1>2, <2>3
  <2> HIDE DEF f2
  <2>7. ~SendHead
    <3>1. rxq'[y] = Tail(rxq[y]) /\ rxq[y] \in Seq(Received) /\ rxq[y] # <<>>
      BY <2>2, TakenAt
    <3>2. Len(Tail(rxq[y])) = Len(rxq[y]) - 1 /\ Len(rxq[y]) \in Nat
      BY <3>1, HeadTailProperties, LenProperties
    <3>3. Len(rxq'[y]) # Len(rxq[y])
      BY <3>1, <3>2
    <3>4. QED BY <3>3 DEF SendHead, zoneRam
  <2>8. \A z \in Zones : z # y => ~Taking(z)
    <3>a. SUFFICES ASSUME NEW z \in Zones, z # y, Taking(z)
                   PROVE  FALSE
      OBVIOUS
    <3>1. rxq'[y] = Tail(rxq[y]) /\ rxq[y] \in Seq(Received) /\ rxq[y] # <<>>
      BY <2>2, TakenAt
    <3>2. Len(Tail(rxq[y])) = Len(rxq[y]) - 1 /\ Len(rxq[y]) \in Nat
      BY <3>1, HeadTailProperties, LenProperties
    <3>3. Len(rxq'[y]) # Len(rxq[y])
      BY <3>1, <3>2
    <3>4. TakeFrame(z, TrackedTypes)
      BY <3>a, TakingFrame
    <3>5. rxq'[y] = rxq[y]
      BY <3>a, <3>4, TakenAt
    <3>6. QED BY <3>3, <3>5
  <2>9. \A z \in Zones : WireInLine(r, f2[z], z)' /\ CacheInLine(r, f2[z], z)'
    <3> TAKE z \in Zones
    <3>1. CASE z = y
      BY <2>4, <2>5, <2>6, <3>1
    <3>2. CASE z # y
      <4>1. f[z] \in Nat /\ WireInLine(r, f[z], z) /\ CacheInLine(r, f[z], z) /\ ~Taking(z)
        BY <1>2, <2>8, <3>2
      <4>2. WireInLine(r, f[z], z)'
        BY <1>2, <2>7, <4>1, WireKept
      <4>3. CacheInLine(r, f[z], z)'
        BY <1>2, <4>1, CacheKept
      <4>4. QED BY <2>6, <3>2, <4>2, <4>3
    <3>3. QED BY <3>1, <3>2
  <2>10. \A z \in Zones : f2[z] <= n
    BY <1>2, <2>3, <2>6
  <2>11. InLine(r, n, f2)'
    BY <1>1, <2>6, <2>7, <2>9, <2>10, KeptLine
  <2>12. QED BY <2>11 DEF Firsts
<1>6. QED BY <1>3, <1>4, <1>5

-----------------------------------------------------------------------------
(* The window *)

LEMMA Multiples ==
  /\ \A a \in Nat, k \in Nat : a * k \in Nat /\ (a + 1) * k = a * k + k
  /\ \A a \in Nat, b \in Nat, k \in Nat : a <= b => a * k <= b * k
OBVIOUS

(* Nothing older comes after a firmware update.                             *)
LEMMA LateCopy ==
  ASSUME Books, Rest, Labelled, Jobs, Firsts, NEW z \in Zones, dup[z].seq # 0
  PROVE  /\ busy[z].type \in {"FLUSH", "FW_UPDATE"} =>
              \A i \in DOMAIN down[z] : down[z][i].seq # dup[z].seq
         /\ (rxq[z] # <<>> /\ rxq[z][1].type = "FW_UPDATE") =>
              \A i \in DOMAIN rxq[z] : rxq[z][i].seq # dup[z].seq
<1>1. PICK r, n, f : InLine(r, n, f)
  BY DEF Firsts
<1>2. /\ r \in [Seqs -> Nat] /\ f \in [Zones -> Nat]
      /\ \A s \in Seqs : Touched(s) => r[s] > 0
      /\ \A s, t \in Seqs : r[s] = r[t] /\ r[s] > 0 => s = t
      /\ WireInLine(r, f[z], z) /\ CacheInLine(r, f[z], z)
  BY <1>1 DEF InLine, Lined, Ranking
<1>3. /\ dup[z].seq \in Seqs /\ Touched(dup[z].seq)
      /\ req[dup[z].seq].type \in DedupTypes /\ r[dup[z].seq] <= f[z]
      /\ r[dup[z].seq] \in Nat /\ f[z] \in Nat
  BY <1>2, Carried DEF Labelled, CacheInLine
<1>4. ASSUME NEW x \in Seqs, req[x].type = "FW_UPDATE", f[z] <= r[x], r[x] <= r[dup[z].seq]
      PROVE  FALSE
  <2>1. r[x] = r[dup[z].seq] /\ r[x] > 0
    BY <1>2, <1>3, <1>4
  <2>2. x = dup[z].seq
    BY <1>2, <1>3, <2>1
  <2>3. QED BY <1>3, <1>4, <2>2 DEF DedupTypes
<1>5. ASSUME busy[z].type \in {"FLUSH", "FW_UPDATE"}, NEW i \in DOMAIN down[z],
             down[z][i].seq = dup[z].seq
      PROVE  FALSE
  <2>1. busy[z].seq # 0 /\ req[busy[z].seq].type = "FW_UPDATE"
    BY <1>5 DEF Jobs, JobOK, JobTypes
  <2>2. busy[z].seq \in Seqs /\ r[busy[z].seq] = f[z]
    BY <1>2, <2>1, Carried DEF CacheInLine
  <2>3. f[z] <= r[dup[z].seq]
    BY <1>2, <1>5 DEF WireInLine, From
  <2>4. QED BY <1>3, <1>4, <2>1, <2>2, <2>3
<1>6. ASSUME rxq[z] # <<>>, rxq[z][1].type = "FW_UPDATE", NEW i \in DOMAIN rxq[z],
             rxq[z][i].seq = dup[z].seq
      PROVE  FALSE
  <2>1. 1 \in DOMAIN rxq[z] /\ 1 <= i /\ rxq[z][1] \in Received
    <3>1. rxq[z] \in Seq(Received)
      BY DEF Rest, ZoneOK
    <3>2. QED BY <1>6, <3>1, TailAt, Carried
  <2>2. req[rxq[z][1].seq] = [dst |-> z, type |-> rxq[z][1].type] /\ rxq[z][1].seq \in Seqs
    BY <2>1 DEF Labelled, Received
  <2>3. r[rxq[z][1].seq] <= r[rxq[z][i].seq]
    BY <1>2, <2>1 DEF WireInLine, Rising
  <2>4. f[z] <= r[rxq[z][1].seq]
    BY <1>2, <2>1 DEF WireInLine, From
  <2>5. QED BY <1>4, <1>6, <2>2, <2>3, <2>4
<1>7. QED BY <1>5, <1>6

(* An answer just cached is in time for everything.                         *)
LEMMA FreshTimely ==
  ASSUME Books', Rest', NEW z \in Zones, dup'[z].age = 0, busy'[z].type \in {"none", "CFG_COMMIT"}
  PROVE  TimelyAt(z)'
<1>1. MAX_ATTEMPTS - 1 \in Nat /\ ACK_TIMEOUT \in Nat /\ DUP_WINDOW \in Nat /\ age' \in Nat
  BY TrkAssumption, RingCmdAssumption DEF Books, MasterOK
<1>2. (MAX_ATTEMPTS - 1) * ACK_TIMEOUT \in Nat
  BY <1>1, Multiples
<1>3. ASSUME InFlight(q')
      PROVE  0 <= (q'[1].att - 1) * ACK_TIMEOUT + age'
  <2>0. q' \in Seq(Entry)
    BY DEF Books, MasterOK, Entry, Seqs
  <2>a. q' # <<>> /\ q'[1].att > 0
    BY <1>3 DEF InFlight
  <2>1. q'[1] \in Entry /\ q'[1].att > 0
    BY <2>0, <2>a, TailAt, ElementOfSeq, LenProperties
  <2>2. q'[1].att - 1 \in Nat
    BY <2>1 DEF Entry
  <2>3. (q'[1].att - 1) * ACK_TIMEOUT \in Nat
    BY <1>1, <2>2, Multiples
  <2>4. QED BY <1>1, <2>3
<1>4. \A i \in DOMAIN down'[z] : down'[z][i].age \in Nat
  <2>1. down'[z] \in Seq(FrameDown)
    BY DEF Rest, WiresOK, FrameDown, Seqs
  <2>2. \A i \in DOMAIN down'[z] : down'[z][i] \in FrameDown
    BY <2>1, LenProperties, ElementOfSeq
  <2>3. QED BY <2>2, RingCmdAssumption DEF FrameDown
<1>5. \A i \in DOMAIN down'[z] : 0 <= (MAX_ATTEMPTS - 1) * ACK_TIMEOUT + down'[z][i].age
  BY <1>2, <1>4
<1>6. QED BY <1>1, <1>3, <1>5 DEF TimelyAt

(* The answer a zone still holds ages no faster than the copies do.         *)
LEMMA HeldTimely ==
  ASSUME Books, Rest, [Next]_vars, ~SendHead, ~Tick, NEW z \in Zones, TimelyAt(z), dup'[z] = dup[z],
         \A i \in DOMAIN down'[z] : \E j \in DOMAIN down[z] : down'[z][i] = down[z][j],
         \A i \in DOMAIN rxq'[z] : rxq'[z][i].seq = dup[z].seq =>
           \/ busy'[z].type = "CFG_COMMIT"
           \/ busy'[z].type = "none" /\ dup[z].age <= DUP_WINDOW
  PROVE  TimelyAt(z)'
<1>1. age' = age
  BY DEF Next, TakeSeq, Submit, Cancel, Master, GiveUp, MasterReceive, Deliver, LoseDown, LoseUp,
     Zone, Retransmitted, BeginCmd, FinishCmd, Commit, Flushed, ConfigGet, BeginFwUpdate, FwUpdate,
     EnterRescue, LeaveRescue, Reset, Restarted, BootDone, vars, master
<1>2. InFlight(q') => InFlight(q) /\ q'[1] = q[1]
  BY MasterStep
<1>3. ASSUME dup[z].state = "replay", InFlight(q'), q'[1].seq = dup[z].seq
      PROVE  dup[z].age <= (q'[1].att - 1) * ACK_TIMEOUT + age'
  BY <1>1, <1>2, <1>3 DEF TimelyAt
<1>4. ASSUME dup[z].state = "replay", NEW i \in DOMAIN down'[z], down'[z][i].seq = dup[z].seq
      PROVE  dup[z].age <= (MAX_ATTEMPTS - 1) * ACK_TIMEOUT + down'[z][i].age
  BY <1>4 DEF TimelyAt
<1>5. QED BY <1>3, <1>4 DEF TimelyAt

LEMMA SendTimely ==
  ASSUME Books, Rest, Untouched, SendHead, NEW z \in Zones, TimelyAt(z)
  PROVE  TimelyAt(z)'
<1>0. MAX_ATTEMPTS \in Nat \ {0} /\ ACK_TIMEOUT \in Nat \ {0} /\ age \in 0 .. ACK_TIMEOUT /\ DUP_WINDOW \in Nat
  BY TrkAssumption, RingCmdAssumption DEF Books, MasterOK
<1>1. /\ q # <<>> /\ q[1] \in Entry /\ 1 \in DOMAIN q /\ q[1].seq \in Seqs /\ q[1].att \in Nat
      /\ q[1].att < MAX_ATTEMPTS
      /\ q[1].att = 0 \/ (q[1].att > 0 /\ age = ACK_TIMEOUT)
      /\ q' = Sent(q) /\ age' = 0 /\ UNCHANGED <<rxq, busy, dup>>
  BY <1>0, QueueFacts DEF SendHead, Books, Entry, zoneRam, Due, InFlight
<1>2. q'[1].seq = q[1].seq /\ q'[1].att = q[1].att + 1
  BY <1>1, QueueFacts, SentProperties DEF Books
<1> DEFINE e == [seq |-> q[1].seq, type |-> q[1].type, age |-> 0]
<1>3. \A i \in DOMAIN down'[z] : \/ down'[z][i].seq = q[1].seq /\ down'[z][i].age = 0
                                 \/ \E j \in DOMAIN down[z] : down'[z][i] = down[z][j]
  <2>1. e \in FrameDown /\ e.seq = q[1].seq /\ e.age = 0
    BY <1>1, RingCmdAssumption DEF Entry, FrameDown
  <2>2. down \in [Zones -> Seq(FrameDown)] /\ down' = [down EXCEPT ![q[1].dst] = Append(@, e)]
    BY DEF SendHead, Transmit, Rest, WiresOK
  <2> HIDE DEF e
  <2>3. down'[z] = down[z] \/ down'[z] = Append(down[z], e)
    BY <2>2
  <2>4. down'[z] = Append(down[z], e) =>
          \A i \in DOMAIN down'[z] : down'[z][i] = e \/ \E j \in DOMAIN down[z] : down'[z][i] = down[z][j]
    BY <2>1, <2>2, AppendElements
  <2>5. QED BY <2>1, <2>3, <2>4
<1>4. dup[z].seq = q[1].seq => q[1].att > 0 /\ age = ACK_TIMEOUT
  <2>1. ASSUME dup[z].seq = q[1].seq, q[1].att = 0
        PROVE  FALSE
    <3>1. Touched(q[1].seq)
      BY <2>1 DEF Touched
    <3>2. Unsent(q[1].seq)
      BY <1>1, <2>1 DEF Unsent
    <3>3. QED BY <1>1, <3>1, <3>2 DEF Untouched
  <2>2. QED BY <1>1, <2>1
<1>5. ASSUME dup[z].state = "replay", dup[z].seq = q[1].seq
      PROVE  dup[z].age <= q[1].att * ACK_TIMEOUT /\ dup[z].age <= (MAX_ATTEMPTS - 1) * ACK_TIMEOUT
  <2>1. dup[z].age <= (q[1].att - 1) * ACK_TIMEOUT + ACK_TIMEOUT
    BY <1>1, <1>4, <1>5 DEF TimelyAt, InFlight
  <2>2. (q[1].att - 1) * ACK_TIMEOUT + ACK_TIMEOUT = q[1].att * ACK_TIMEOUT
    <3>1. PICK a \in Nat : q[1].att = a + 1
      <4>1. q[1].att - 1 \in Nat /\ q[1].att = (q[1].att - 1) + 1
        BY <1>1, <1>4, <1>5
      <4>2. QED BY <4>1
    <3>2. (a + 1) * ACK_TIMEOUT = a * ACK_TIMEOUT + ACK_TIMEOUT
      BY <1>0, Multiples
    <3>3. a + 1 - 1 = a
      OBVIOUS
    <3>4. QED BY <3>1, <3>2, <3>3
  <2>3. q[1].att * ACK_TIMEOUT <= (MAX_ATTEMPTS - 1) * ACK_TIMEOUT
    <3>1. q[1].att <= MAX_ATTEMPTS - 1 /\ MAX_ATTEMPTS - 1 \in Nat
      BY <1>0, <1>1
    <3>2. QED BY <1>0, <1>1, <3>1, Multiples
  <2>4. dup[z].age \in Nat
    BY DEF Rest, ZoneOK, DupState
  <2>5. q[1].att * ACK_TIMEOUT \in Nat /\ (MAX_ATTEMPTS - 1) * ACK_TIMEOUT \in Nat
    BY <1>0, <1>1, Multiples
  <2>6. QED BY <2>1, <2>2, <2>3, <2>4, <2>5
<1>6. ASSUME dup[z].state = "replay", InFlight(q'), q'[1].seq = dup[z].seq
      PROVE  dup[z].age <= (q'[1].att - 1) * ACK_TIMEOUT + age'
  <2>1. q'[1].att - 1 = q[1].att /\ age' = 0
    BY <1>1, <1>2
  <2>2. q[1].att * ACK_TIMEOUT \in Nat
    BY <1>0, <1>1, Multiples
  <2>3. q[1].att * ACK_TIMEOUT + age' = q[1].att * ACK_TIMEOUT
    BY <2>1, <2>2
  <2>4. QED BY <1>2, <1>5, <1>6, <2>1, <2>3
<1>7. ASSUME dup[z].state = "replay", NEW i \in DOMAIN down'[z], down'[z][i].seq = dup[z].seq
      PROVE  dup[z].age <= (MAX_ATTEMPTS - 1) * ACK_TIMEOUT + down'[z][i].age
  <2>1. CASE down'[z][i].seq = q[1].seq /\ down'[z][i].age = 0
    <3>1. (MAX_ATTEMPTS - 1) * ACK_TIMEOUT \in Nat
      <4>1. MAX_ATTEMPTS - 1 \in Nat
        BY <1>0
      <4>2. QED BY <1>0, <4>1, Multiples
    <3>2. (MAX_ATTEMPTS - 1) * ACK_TIMEOUT + down'[z][i].age = (MAX_ATTEMPTS - 1) * ACK_TIMEOUT
      BY <2>1, <3>1
    <3>3. QED BY <1>5, <1>7, <2>1, <3>2
  <2>2. CASE \E j \in DOMAIN down[z] : down'[z][i] = down[z][j]
    BY <1>7, <2>2 DEF TimelyAt
  <2>3. QED BY <1>3, <2>1, <2>2
<1>8. QED BY <1>1, <1>6, <1>7 DEF TimelyAt

(* Time passes only while no retransmission is due and no frame waits for a *)
(* free control task, so what is compared ages together.                    *)
LEMMA TickTimely ==
  ASSUME Books, Rest, Jobs, Tick, NEW z \in Zones, TimelyAt(z)
  PROVE  TimelyAt(z)'
<1>0. /\ ACK_TIMEOUT \in Nat /\ age \in Nat /\ DUP_WINDOW \in Nat
      /\ dup[z] \in DupState /\ busy[z] \in Job /\ JobOK(z)
      /\ MAX_ATTEMPTS \in Nat \ {0}
  BY RingCmdAssumption, TrkAssumption DEF Books, MasterOK, Rest, ZoneOK, Jobs
<1>1. /\ age' = AtMost(age + 1, ACK_TIMEOUT)
      /\ down'[z] = [j \in DOMAIN down[z] |-> [down[z][j] EXCEPT !.age = @ + 1]]
      /\ busy'[z] = IF busy[z] = Idle THEN Idle ELSE [busy[z] EXCEPT !.t = @ + 1]
      /\ dup'[z] = [dup[z] EXCEPT !.age = AtMost(@ + 1, DUP_WINDOW + 1)]
      /\ q' = q /\ rxq' = rxq /\ ~Urgent
  BY DEF Tick, Older
<1>2. /\ dup'[z].seq = dup[z].seq /\ dup'[z].state = dup[z].state /\ dup[z].age \in Nat
      /\ dup'[z].age \in Nat /\ dup'[z].age <= dup[z].age + 1
  BY <1>0, <1>1 DEF DupState, AtMost
<1>3. busy'[z].type = busy[z].type
  BY <1>0, <1>1 DEF Job
<1>4. ASSUME dup[z].state = "replay", InFlight(q), q[1].seq = dup[z].seq
      PROVE  dup'[z].age <= (q[1].att - 1) * ACK_TIMEOUT + age'
  <2>1. dup[z].age <= (q[1].att - 1) * ACK_TIMEOUT + age
    BY <1>4 DEF TimelyAt
  <2>2. age' = age + 1
    BY <1>0, <1>1, <1>4 DEF AtMost, Urgent, Due
  <2>3. (q[1].att - 1) * ACK_TIMEOUT \in Nat
    <3>1. q[1] \in Entry /\ q[1].att > 0
      BY <1>4, QueueFacts DEF Books, InFlight
    <3>2. q[1].att - 1 \in Nat
      BY <1>0, <3>1 DEF Entry
    <3>3. QED BY <1>0, <3>2, Multiples
  <2>4. QED BY <1>0, <1>2, <2>1, <2>2, <2>3
<1>5. ASSUME dup[z].state = "replay", NEW i \in DOMAIN down'[z], down'[z][i].seq = dup[z].seq
      PROVE  dup'[z].age <= (MAX_ATTEMPTS - 1) * ACK_TIMEOUT + down'[z][i].age
  <2>1. i \in DOMAIN down[z] /\ down[z][i] \in FrameDown
    BY <1>1, Carried
  <2>2. down'[z][i].seq = down[z][i].seq /\ down'[z][i].age = down[z][i].age + 1 /\ down[z][i].age \in Nat
    BY <1>1, <2>1, RingCmdAssumption DEF FrameDown
  <2>3. dup[z].age <= (MAX_ATTEMPTS - 1) * ACK_TIMEOUT + down[z][i].age
    BY <1>5, <2>1, <2>2 DEF TimelyAt
  <2>4. (MAX_ATTEMPTS - 1) * ACK_TIMEOUT \in Nat
    <3>1. MAX_ATTEMPTS - 1 \in Nat
      BY <1>0
    <3>2. QED BY <1>0, <3>1, Multiples
  <2>5. QED BY <1>2, <2>2, <2>3, <2>4
<1>6. ASSUME dup[z].state = "replay", NEW i \in DOMAIN rxq[z], rxq[z][i].seq = dup[z].seq
      PROVE  busy[z].type = "CFG_COMMIT"
  <2>1. busy[z].type = "CFG_COMMIT" \/ busy[z].type = "none"
    BY <1>6 DEF TimelyAt
  <2>2. rxq[z] # <<>>
    BY <1>6
  <2>3. ASSUME busy[z].type = "none"
        PROVE  FALSE
    BY <1>0, <1>1, <2>2, <2>3 DEF JobOK, Runs, Urgent, Free
  <2>4. QED BY <2>1, <2>3
<1>7. QED BY <1>1, <1>2, <1>3, <1>4, <1>5, <1>6 DEF TimelyAt

LEMMA NextInTime ==
  ASSUME Books, Rest, Untouched, Labelled, Jobs, InTime, Firsts, [Next]_vars
  PROVE  InTime'
<1> SUFFICES ASSUME NEW z \in Zones
             PROVE  TimelyAt(z)'
  BY DEF InTime
<1>0. /\ down \in [Zones -> Seq(FrameDown)] /\ down[z] \in Seq(FrameDown)
      /\ rxq \in [Zones -> Seq(Received)] /\ rxq[z] \in Seq(Received)
      /\ ZoneOK /\ TimelyAt(z) /\ JobOK(z)
      /\ dup[z] \in DupState /\ DUP_WINDOW \in Nat /\ FLUSH_MAX <= DUP_WINDOW /\ FLUSH_MAX \in Nat
      /\ busy[z] \in Job
  BY RingCmdAssumption, WindowAssumption DEF Rest, WiresOK, ZoneOK, InTime, Jobs
<1>a. Books' /\ Rest'
  BY NextQueueInv
<1>1. CASE SendHead
  BY <1>0, <1>1, SendTimely
<1>2. CASE Tick
  BY <1>0, <1>2, TickTimely
<1>3. ASSUME ~SendHead, ~Tick, dup'[z] = dup[z],
             \A i \in DOMAIN down'[z] : \E j \in DOMAIN down[z] : down'[z][i] = down[z][j],
             \A i \in DOMAIN rxq'[z] : \E j \in DOMAIN rxq[z] : rxq'[z][i] = rxq[z][j],
             busy'[z] = busy[z]
      PROVE  TimelyAt(z)'
  <2>1. ASSUME dup[z].state = "replay", NEW i \in DOMAIN rxq'[z], rxq'[z][i].seq = dup[z].seq
        PROVE  \/ busy'[z].type = "CFG_COMMIT"
               \/ busy'[z].type = "none" /\ dup[z].age <= DUP_WINDOW
    BY <1>0, <1>3, <2>1 DEF TimelyAt
  <2>2. CASE dup[z].state = "replay"
    BY <1>0, <1>3, <2>1, <2>2, HeldTimely
  <2>3. CASE dup[z].state # "replay"
    BY <1>3, <2>3 DEF TimelyAt
  <2>4. QED BY <2>2, <2>3
(* the steps that leave the zone's cache and task as they are               *)
<1>4. ASSUME ~SendHead, ~Tick, down'[z] = down[z], rxq'[z] = rxq[z], dup'[z] = dup[z], busy'[z] = busy[z]
      PROVE  TimelyAt(z)'
  BY <1>3, <1>4
<1>5. ASSUME ~SendHead, ~Tick, NEW y \in Zones, y # z,
             Zone(y) \/ LeaveRescue(y) \/ Reset(y) \/ Deliver(y) \/ LoseDown(y)
      PROVE  TimelyAt(z)'
  <2>1. \A v : /\ [rxq EXCEPT ![y] = v][z] = rxq[z]
               /\ [busy EXCEPT ![y] = v][z] = busy[z]
               /\ [dup EXCEPT ![y] = v][z] = dup[z]
               /\ [down EXCEPT ![y] = v][z] = down[z]
    BY <1>0, <1>5 DEF ZoneOK
  <2>2. /\ rxq' = rxq \/ \E v : rxq' = [rxq EXCEPT ![y] = v]
        /\ busy' = busy \/ \E v : busy' = [busy EXCEPT ![y] = v]
        /\ dup' = dup \/ \E v : dup' = [dup EXCEPT ![y] = v]
        /\ down' = down \/ \E v : down' = [down EXCEPT ![y] = v]
    BY <1>5 DEF Zone, Retransmitted, BeginCmd, FinishCmd, Commit, Flushed, ConfigGet, BeginFwUpdate,
       FwUpdate, EnterRescue, BootDone, LeaveRescue, Reset, Restarted, Deliver, LoseDown, TakeFrame,
       wires, zoneRam
  <2>3. QED BY <1>4, <1>5, <2>1, <2>2
<1>6. ASSUME ~SendHead, ~Tick, LoseDown(z)
      PROVE  TimelyAt(z)'
  <2>1. down[z] # <<>> /\ down'[z] = Tail(down[z]) /\ rxq' = rxq /\ dup' = dup /\ busy' = busy
    BY <1>0, <1>6 DEF LoseDown, zoneRam
  <2>2. \A i \in DOMAIN down'[z] : \E j \in DOMAIN down[z] : down'[z][i] = down[z][j]
    BY <1>0, <2>1, TailElements
  <2>3. QED BY <1>3, <1>6, <2>1, <2>2
<1>7. ASSUME ~SendHead, ~Tick, Retransmitted(z) \/ ConfigGet(z)
      PROVE  TimelyAt(z)'
  <2>1. Taking(z) /\ dup' = dup /\ busy' = busy
    BY <1>7 DEF Taking, Retransmitted, ConfigGet
  <2>2. down' = down /\ rxq[z] # <<>> /\ rxq'[z] = Tail(rxq[z])
    BY <2>1, TakingFrame, TakenAt
  <2>3. \A i \in DOMAIN rxq'[z] : \E j \in DOMAIN rxq[z] : rxq'[z][i] = rxq[z][j]
    BY <1>0, <2>2, TailElements
  <2>4. QED BY <1>3, <1>7, <2>1, <2>2, <2>3
<1>8. ASSUME ~SendHead, ~Tick, Deliver(z)
      PROVE  TimelyAt(z)'
  <2> DEFINE g == [seq |-> Head(down[z]).seq, type |-> Head(down[z]).type]
  <2>1. /\ down[z] # <<>> /\ down'[z] = Tail(down[z]) /\ dup' = dup /\ busy' = busy
        /\ rxq'[z] = rxq[z] \/ (rxq'[z] = Append(rxq[z], g) /\ Runs(z, "app"))
    BY <1>0, <1>8 DEF Deliver
  <2>2. /\ \A i \in DOMAIN down'[z] : \E j \in DOMAIN down[z] : down'[z][i] = down[z][j]
        /\ 1 \in DOMAIN down[z] /\ Head(down[z]) = down[z][1]
    BY <1>0, <2>1, TailElements, TailAt
  <2>3. down[z][1] \in FrameDown
    BY <2>2, Carried
  <2>4. g \in Received /\ g.seq = down[z][1].seq
    BY <2>2, <2>3 DEF FrameDown, Received
  <2> HIDE DEF g
  <2>5. CASE rxq'[z] = rxq[z]
    BY <1>3, <1>8, <2>1, <2>2, <2>5
  <2>6. CASE rxq'[z] = Append(rxq[z], g) /\ Runs(z, "app")
    <3>1. \A i \in DOMAIN rxq'[z] : rxq'[z][i] = g \/ \E j \in DOMAIN rxq[z] : rxq'[z][i] = rxq[z][j]
      BY <1>0, <2>4, <2>6, AppendElements
    <3>2. ASSUME dup[z].state = "replay", g.seq = dup[z].seq
          PROVE  \/ busy[z].type = "CFG_COMMIT"
                 \/ busy[z].type = "none" /\ dup[z].age <= DUP_WINDOW
      <4>1. dup[z].seq # 0
        <5>1. down[z][1].seq \in Seqs
          BY <2>3 DEF FrameDown
        <5>2. QED BY <2>4, <3>2, <5>1, SeqsTyped DEF Seqs
      <4>2. busy[z].type \notin {"FLUSH", "FW_UPDATE"}
        BY <2>2, <2>4, <3>2, <4>1, LateCopy
      <4>3. busy[z].type # "CMD"
        BY <1>0, <3>2 DEF JobOK
      <4>4. busy[z].type # "BOOT"
        BY <2>6 DEF Runs
      <4>5. dup[z].age <= (MAX_ATTEMPTS - 1) * ACK_TIMEOUT + down[z][1].age
        BY <1>0, <2>2, <2>4, <3>2 DEF TimelyAt
      <4>6. down[z][1].age <= TRANSIT_MAX /\ down[z][1].age \in Nat
        BY <2>3, RingCmdAssumption DEF FrameDown
      <4>7. (MAX_ATTEMPTS - 1) * ACK_TIMEOUT \in Nat
        <5>1. MAX_ATTEMPTS - 1 \in Nat
          BY TrkAssumption
        <5>2. QED BY <5>1, RingCmdAssumption, Multiples
      <4>8. dup[z].age <= DUP_WINDOW
        <5>1. dup[z].age \in Nat
          BY <1>0 DEF DupState
        <5>2. QED BY <1>0, <4>5, <4>6, <4>7, <5>1, WindowAssumption, RingCmdAssumption
      <4>9. QED BY <1>0, <4>2, <4>3, <4>4, <4>8 DEF Job, JobTypes
    <3>3. ASSUME dup[z].state = "replay", NEW i \in DOMAIN rxq'[z], rxq'[z][i].seq = dup[z].seq
          PROVE  \/ busy'[z].type = "CFG_COMMIT"
                 \/ busy'[z].type = "none" /\ dup[z].age <= DUP_WINDOW
      BY <1>0, <2>1, <3>1, <3>2, <3>3 DEF TimelyAt
    <3>4. CASE dup[z].state = "replay"
      BY <1>0, <1>8, <2>1, <2>2, <3>3, <3>4, HeldTimely
    <3>5. CASE dup[z].state # "replay"
      BY <2>1, <3>5 DEF TimelyAt
    <3>6. QED BY <3>4, <3>5
  <2>7. QED BY <2>1, <2>5, <2>6
<1>9. CASE BeginCmd(z)
  <2>1. dup'[z].state = "absorb"
    BY <1>0, <1>9 DEF BeginCmd, DupStarted, ZoneOK
  <2>2. QED BY <2>1 DEF TimelyAt
<1>10. CASE FinishCmd(z)
  <2>1. PICK status \in ZoneStatus :
          dup'[z] = DupDone(dup[z], busy[z].seq, status) /\ busy'[z] = Idle /\ busy[z].type = "CMD"
    BY <1>0, <1>10 DEF FinishCmd, ZoneOK
  <2>2. dup'[z].age = 0
    BY <1>0, <2>1 DEF DupDone, JobOK
  <2>3. QED BY <1>a, <2>1, <2>2, FreshTimely DEF Idle
<1>11. CASE Commit(z)
  <2>1. PICK status \in ZoneStatus :
          /\ Free(z)
          /\ dup'[z] = DupDone(DupStarted(Head(rxq[z]).seq), Head(rxq[z]).seq, status)
          /\ \/ busy'[z] = [seq |-> Head(rxq[z]).seq, type |-> "CFG_COMMIT", t |-> 0]
             \/ busy'[z] = busy[z]
    BY <1>0, <1>11 DEF Commit, TakeFrame, ZoneOK
  <2>2. dup'[z].age = 0
    BY <2>1 DEF DupDone, DupStarted
  <2>3. busy'[z].type \in {"none", "CFG_COMMIT"}
    BY <2>1 DEF Free, Idle
  <2>4. QED BY <1>a, <2>2, <2>3, FreshTimely
<1>12. CASE ~SendHead /\ ~Tick /\ Flushed(z)
  <2>1. /\ busy'[z] = Idle /\ UNCHANGED <<down, rxq, dup>> /\ busy[z].type = "CFG_COMMIT"
    BY <1>0, <1>12 DEF Flushed, ZoneOK, wires
  <2>2. dup[z].age <= DUP_WINDOW
    <3>1. dup[z].age <= busy[z].t /\ busy[z].t <= FLUSH_MAX /\ dup[z].age \in Nat /\ busy[z].t \in Nat
      BY <1>0, <2>1 DEF JobOK, DupState, Job
    <3>2. QED BY <1>0, <3>1
  <2>3. busy'[z].type = "none"
    BY <2>1 DEF Idle
  <2>4. \A i \in DOMAIN down'[z] : \E j \in DOMAIN down[z] : down'[z][i] = down[z][j]
    BY <2>1
  <2>5. \A i \in DOMAIN rxq'[z] : rxq'[z][i].seq = dup[z].seq =>
          \/ busy'[z].type = "CFG_COMMIT"
          \/ busy'[z].type = "none" /\ dup[z].age <= DUP_WINDOW
    BY <2>2, <2>3
  <2>6. dup'[z] = dup[z]
    BY <2>1
  <2>7. QED BY <1>0, <1>12, <2>4, <2>5, <2>6, HeldTimely
<1>13. CASE ~SendHead /\ ~Tick /\ BeginFwUpdate(z)
  <2>1. /\ Taking(z) /\ dup' = dup /\ TakeFrame(z, {"FW_UPDATE"})
    BY <1>13 DEF Taking, BeginFwUpdate
  <2>2. /\ rxq[z] # <<>> /\ rxq'[z] = Tail(rxq[z]) /\ rxq[z][1].type = "FW_UPDATE" /\ down' = down
    BY <2>1, TakingFrame, TakenAt
  <2>3. \A i \in DOMAIN rxq'[z] : \E j \in DOMAIN rxq[z] : rxq'[z][i] = rxq[z][j]
    BY <1>0, <2>2, TailElements
  <2>4. \A i \in DOMAIN rxq'[z] : rxq'[z][i].seq # dup[z].seq
    <3>1. CASE dup[z].seq # 0
      BY <2>2, <2>3, <3>1, LateCopy
    <3>2. CASE dup[z].seq = 0
      BY <2>3, <3>2, Carried, SeqsTyped DEF Received, Seqs
    <3>3. QED BY <3>1, <3>2
  <2>5. \A i \in DOMAIN down'[z] : \E j \in DOMAIN down[z] : down'[z][i] = down[z][j]
    BY <2>2
  <2>6. QED BY <1>0, <1>13, <2>1, <2>4, <2>5, HeldTimely
<1>14. CASE ~SendHead /\ ~Tick /\ FwUpdate(z)
  <2>1. UNCHANGED <<down, rxq, dup>> /\ busy[z].type = "FLUSH"
    BY <1>14 DEF FwUpdate
  <2>2. CASE dup[z].state = "replay"
    <3>1. \A i \in DOMAIN rxq[z] : rxq[z][i].seq # dup[z].seq
      BY <1>0, <2>1, <2>2 DEF TimelyAt
    <3>2. \A i \in DOMAIN rxq'[z] : rxq'[z][i].seq # dup[z].seq
      BY <2>1, <3>1
    <3>3. \A i \in DOMAIN down'[z] : \E j \in DOMAIN down[z] : down'[z][i] = down[z][j]
      BY <2>1
    <3>4. QED BY <1>0, <1>14, <2>1, <3>2, <3>3, HeldTimely
  <2>3. CASE dup[z].state # "replay"
    BY <2>1, <2>3 DEF TimelyAt
  <2>4. QED BY <2>2, <2>3
<1>15. ASSUME NEW img, Restarted(z, img)
       PROVE  TimelyAt(z)'
  <2>1. dup'[z].state = "none"
    BY <1>0, <1>15 DEF Restarted, EmptyDup, ZoneOK
  <2>2. QED BY <2>1 DEF TimelyAt
<1>16. CASE ~SendHead /\ ~Tick /\ BootDone(z)
  <2>1. UNCHANGED <<down, rxq, dup>> /\ busy[z].type = "BOOT"
    BY <1>16 DEF BootDone, wires
  <2>2. rxq[z] = <<>>
    BY <1>0, <2>1 DEF JobOK, Runs
  <2>3. QED BY <1>0, <1>16, <2>1, <2>2, HeldTimely
<1>17. CASE /\ ~SendHead /\ ~Tick
            /\ \/ \E y \in Zones, type \in Types : TakeSeq(y, type)
               \/ \E r \in Seqs : Submit(r) \/ Cancel(r)
               \/ Master
               \/ \E y \in Zones : LoseUp(y)
               \/ UNCHANGED vars
  <2>1. UNCHANGED <<down, rxq, dup, busy>>
    BY <1>17 DEF TakeSeq, Submit, Cancel, Master, GiveUp, MasterReceive, LoseUp, vars, zoneRam, wires
  <2>2. QED BY <1>4, <1>17, <2>1
<1>18. ASSUME ~SendHead, ~Tick, NEW y \in Zones,
              Zone(y) \/ LeaveRescue(y) \/ Reset(y) \/ Deliver(y) \/ LoseDown(y)
       PROVE  TimelyAt(z)'
  <2>1. CASE y # z
    BY <1>5, <1>18, <2>1
  <2>2. CASE y = z
    BY <1>6, <1>7, <1>8, <1>9, <1>10, <1>11, <1>12, <1>13, <1>14, <1>15, <1>16, <1>18, <2>2
    DEF Zone, EnterRescue, LeaveRescue, Reset
  <2>3. QED BY <2>1, <2>2
<1>19. QED BY <1>1, <1>2, <1>17, <1>18 DEF Next

LEMMA NextOnce == Books /\ Rest /\ Untouched /\ Once /\ [Next]_vars => Once'
BY NextLabelled, NextJobs, NextInTime, NextFirsts, NextAtMostOnce DEF Once

(* A command or a config commit runs at most once in one boot of its zone,  *)
(* for every window that outlasts the copies of a request: ring_dup.c.      *)
THEOREM OncePerBoot == Spec => []AtMostOncePerBoot
<1>1. Spec => []Untouched
  BY QueueInvariant, InitUntouched, NextUntouched, PTL DEF Spec
<1>2. Spec => []Once
  BY <1>1, QueueInvariant, InitOnce, NextOnce, PTL DEF Spec
<1>3. Once => AtMostOncePerBoot
  BY DEF Once
<1>4. QED BY <1>2, <1>3, PTL

-----------------------------------------------------------------------------
(* The remote call it implements *)

LEMMA InitRpc == Init => Rpc!Init
<1> SUFFICES ASSUME Init
             PROVE  Rpc!Init
  OBVIOUS
<1>1. /\ \A s \in Seqs : outcome[s] = "none" /\ runs[s].boot = 0
      /\ results = [s \in Seqs |-> {}]
  BY DEF Init
<1>2. CallState = [s \in Seqs |-> "idle"] /\ Repeatable \in [Seqs -> BOOLEAN]
  BY <1>1 DEF CallState, Repeatable
<1>3. Ran = [s \in Seqs |-> FALSE]
  <2>1. \A s \in Seqs : (runs[s].boot > 0) = FALSE
    BY <1>1
  <2>2. QED BY <2>1 DEF Ran
<1>4. Answered = [s \in Seqs |-> "none"]
  BY <1>1 DEF Answered, ZoneStatus
<1>5. QED BY <1>1, <1>2, <1>3, <1>4 DEF Rpc!Init

(* A step that changes nothing a submitter could tell.                      *)
LEMMA RpcStutters ==
  ASSUME UNCHANGED <<outcome, runs, results>>,
         \A s \in Seqs : outcome[s] \in {"none", "taken"} \/ req'[s] = req[s]
  PROVE  UNCHANGED Rpc!rpcVars
<1>1. UNCHANGED <<CallState, Ran, Answered>>
  BY DEF CallState, Ran, Answered, Seqs, ZoneStatus
<1>2. Repeatable' = Repeatable
  BY DEF Repeatable, Seqs, DedupTypes
<1>3. QED BY <1>1, <1>2 DEF Rpc!rpcVars

(* A request that is open is closed, answered or not.                       *)
LEMMA RpcCloses ==
  ASSUME Books, NEW s \in Seqs, outcome[s] = "pending", NEW what \in Outcomes,
         what \notin {"none", "taken", "pending"},
         outcome' = [outcome EXCEPT ![s] = what], UNCHANGED <<req, runs, results>>,
         what \in ZoneStatus => what \in results[s]
  PROVE  Rpc!Answer(s) \/ Rpc!GiveUp(s)
<1>0. outcome \in [Seqs -> Outcomes] /\ Seqs' = Seqs /\ ZoneStatus' = ZoneStatus /\ DedupTypes' = DedupTypes
  BY DEF Books, MasterOK, Seqs, ZoneStatus, DedupTypes
<1>1. outcome'[s] = what /\ \A x \in Seqs : x # s => outcome'[x] = outcome[x]
  BY <1>0
<1>2. CallState[s] = "open" /\ CallState' = [CallState EXCEPT ![s] = "closed"]
  BY <1>0, <1>1 DEF CallState
<1>3. Repeatable' = Repeatable /\ Ran' = Ran
  BY <1>0, <1>1 DEF Repeatable, Ran
<1>4. CASE what \in ZoneStatus
  <2>1. Answered' = [Answered EXCEPT ![s] = what]
    BY <1>0, <1>1, <1>4 DEF Answered
  <2>2. QED BY <1>2, <1>3, <1>4, <2>1 DEF Rpc!Answer
<1>5. CASE what \notin ZoneStatus
  <2>1. Answered' = Answered
    BY <1>0, <1>1, <1>5 DEF Answered, ZoneStatus
  <2>2. QED BY <1>2, <1>3, <2>1 DEF Rpc!GiveUp
<1>6. QED BY <1>4, <1>5

LEMMA RpcCalls ==
  ASSUME Books, NEW s \in Seqs, Submit(s)
  PROVE  Rpc!Call(s) \/ Rpc!Refuse(s)
<1>0. outcome \in [Seqs -> Outcomes] /\ Seqs' = Seqs /\ ZoneStatus' = ZoneStatus /\ DedupTypes' = DedupTypes
  BY DEF Books, MasterOK, Seqs, ZoneStatus, DedupTypes
<1>1. outcome[s] = "taken" /\ UNCHANGED <<req, runs, results>>
  BY DEF Submit, history
<1>2. Ran' = Ran
  BY <1>0, <1>1 DEF Ran
<1>3. ASSUME NEW what \in {"pending", "busy"}, outcome' = [outcome EXCEPT ![s] = what]
      PROVE  /\ \E b \in BOOLEAN : Repeatable' = [Repeatable EXCEPT ![s] = b]
             /\ Answered' = Answered
             /\ CallState[s] = "idle"
             /\ what = "pending" => CallState' = [CallState EXCEPT ![s] = "open"]
             /\ what = "busy" => CallState' = [CallState EXCEPT ![s] = "closed"]
  <2>1. outcome'[s] = what /\ \A x \in Seqs : x # s => outcome'[x] = outcome[x]
    BY <1>0, <1>3
  <2>2. Repeatable' = [Repeatable EXCEPT ![s] = (req[s].type \notin DedupTypes)]
    BY <1>0, <1>1, <2>1 DEF Repeatable
  <2>3. Answered' = Answered
    BY <1>0, <1>1, <2>1 DEF Answered, ZoneStatus
  <2>4. CallState[s] = "idle"
    BY <1>1 DEF CallState
  <2>5. CallState' = [CallState EXCEPT ![s] = IF what = "pending" THEN "open" ELSE "closed"]
    BY <1>0, <1>1, <2>1 DEF CallState
  <2>6. QED BY <2>2, <2>3, <2>4, <2>5
<1>4. CASE outcome' = [outcome EXCEPT ![s] = "pending"]
  BY <1>1, <1>2, <1>3, <1>4 DEF Rpc!Call
<1>5. CASE outcome' = [outcome EXCEPT ![s] = "busy"]
  BY <1>1, <1>2, <1>3, <1>5 DEF Rpc!Refuse
<1>6. QED BY <1>4, <1>5 DEF Submit

(* An execution, of something sent and repeatable or not yet executed.      *)
LEMMA RpcExecutes ==
  ASSUME Rest, Untouched, NEW s \in Seqs, Touched(s), Record(s), UNCHANGED <<outcome, req>>,
         req[s].type \notin DedupTypes \/ runs[s].boot = 0,
         results' = results \/ \E x \in ZoneStatus : results' = [results EXCEPT ![s] = @ \cup {x}]
  PROVE  Rpc!Execute(s)
<1>0. Seqs' = Seqs /\ ZoneStatus' = ZoneStatus /\ DedupTypes' = DedupTypes
      /\ runs \in [Seqs -> [boot : Nat, total : Nat]]
  BY DEF Seqs, ZoneStatus, DedupTypes, Rest, HistoryOK
<1>1. outcome[s] \notin {"none", "taken"}
  BY DEF Untouched, Unsent
<1>2. CallState[s] # "idle" /\ UNCHANGED <<CallState, Repeatable, Answered>>
  BY <1>0, <1>1 DEF CallState, Repeatable, Answered
<1>3. Repeatable[s] \/ ~Ran[s]
  <2>1. CASE req[s].type \notin DedupTypes
    BY <2>1 DEF Repeatable
  <2>2. CASE runs[s].boot = 0
    <3>1. ~ (runs[s].boot > 0)
      BY <2>2
    <3>2. QED BY <3>1 DEF Ran
  <2>3. QED BY <2>1, <2>2
<1>4. Ran' = [Ran EXCEPT ![s] = TRUE]
  <2>1. runs'[s].boot > 0
    <3>1. runs[s] \in [boot : Nat, total : Nat]
      BY <1>0
    <3>2. runs'[s] = [runs[s] EXCEPT !.boot = @ + 1, !.total = @ + 1]
      BY <1>0, <3>1 DEF Record
    <3>3. QED BY <3>1, <3>2
  <2>2. \A x \in Seqs : x # s => runs'[x] = runs[x]
    BY <1>0 DEF Record
  <2>3. QED BY <1>0, <2>1, <2>2 DEF Ran
<1>5. QED BY <1>2, <1>3, <1>4 DEF Rpc!Execute

LEMMA RpcRestarts ==
  ASSUME Rest, NEW z \in Zones, NEW img, Restarted(z, img)
  PROVE  Rpc!Restart({s \in Seqs : req[s].dst = z})
<1>0. Seqs' = Seqs /\ ZoneStatus' = ZoneStatus /\ DedupTypes' = DedupTypes
      /\ runs \in [Seqs -> [boot : Nat, total : Nat]]
  BY DEF Seqs, ZoneStatus, DedupTypes, Rest, HistoryOK
<1>1. /\ UNCHANGED <<outcome, req, results>>
      /\ runs' = [s \in Seqs |-> IF req[s].dst = z THEN [runs[s] EXCEPT !.boot = 0] ELSE runs[s]]
  BY DEF Restarted, master
<1>2. UNCHANGED <<CallState, Repeatable, Answered>>
  BY <1>0, <1>1 DEF CallState, Repeatable, Answered
<1>3. Ran' = [s \in Seqs |-> Ran[s] /\ s \notin {x \in Seqs : req[x].dst = z}]
  <2>1. ASSUME NEW s \in Seqs
        PROVE  (runs'[s].boot > 0) = (runs[s].boot > 0 /\ req[s].dst # z)
    <3>1. runs[s] \in [boot : Nat, total : Nat]
      BY <1>0
    <3>2. req[s].dst = z => runs'[s].boot = 0
      BY <1>1, <3>1
    <3>3. req[s].dst # z => runs'[s] = runs[s]
      BY <1>1
    <3>4. QED BY <3>1, <3>2, <3>3
  <2>2. QED BY <1>0, <2>1 DEF Ran
<1>4. QED BY <1>1, <1>2, <1>3 DEF Rpc!Restart

LEMMA RpcReceives ==
  ASSUME Books, Rest, Sourced, NEW z \in Zones, MasterReceive(z)
  PROVE  (\E s \in Seqs : Rpc!Answer(s) \/ Rpc!GiveUp(s)) \/ UNCHANGED Rpc!rpcVars
<1> DEFINE f == Head(up[z])
<1>1. /\ up[z] # <<>> /\ UNCHANGED <<req, runs, results>>
      /\ \/ f.kind = "ack" /\ AckMatches(q, f.seq) /\ ReportHead(f.status)
         \/ UnclaimedMatches(q, f.seq, z) /\ ReportHead("unknown")
         \/ outcome' = outcome
  BY DEF MasterReceive, history
<1>2. f.status \in ZoneStatus /\ (f.kind = "ack" => f.status \in results[f.seq])
  <2>1. up[z] \in Seq(FrameUp)
    BY DEF Rest, WiresOK
  <2>2. 1 \in DOMAIN up[z] /\ Head(up[z]) = up[z][1] /\ Head(up[z]) \in FrameUp
    BY <1>1, <2>1, TailAt, HeadTailProperties
  <2>3. QED BY <2>2 DEF Sourced, FrameUp
<1> HIDE DEF f
<1>3. ASSUME InFlight(q)
      PROVE  q[1].seq \in Seqs /\ outcome[q[1].seq] = "pending"
  BY <1>3, QueueFacts DEF Books, Accounted, InFlight
<1>4. CASE f.kind = "ack" /\ AckMatches(q, f.seq) /\ ReportHead(f.status)
  <2>1. /\ q[1].seq \in Seqs /\ outcome[q[1].seq] = "pending" /\ q[1].seq = f.seq
        /\ outcome' = [outcome EXCEPT ![q[1].seq] = f.status]
    BY <1>3, <1>4 DEF AckMatches, ReportHead
  <2>2. f.status \in Outcomes /\ f.status \notin {"none", "taken", "pending"}
    BY <1>2 DEF Outcomes, ZoneStatus
  <2>3. QED BY <1>1, <1>2, <1>4, <2>1, <2>2, RpcCloses
<1>5. CASE UnclaimedMatches(q, f.seq, z) /\ ReportHead("unknown")
  <2>1. /\ q[1].seq \in Seqs /\ outcome[q[1].seq] = "pending"
        /\ outcome' = [outcome EXCEPT ![q[1].seq] = "unknown"]
    BY <1>3, <1>5 DEF UnclaimedMatches, ReportHead
  <2>2. "unknown" \in Outcomes /\ "unknown" \notin ZoneStatus
    BY DEF Outcomes, ZoneStatus
  <2>3. QED BY <1>1, <2>1, <2>2, RpcCloses
<1>6. CASE outcome' = outcome
  BY <1>1, <1>6, RpcStutters
<1>7. QED BY <1>1, <1>4, <1>5, <1>6

(* Every step of the protocol is a step of the call, or none.               *)
LEMMA NextRpc ==
  ASSUME Books, Rest, Untouched, Once, Sourced, [Next]_vars
  PROVE  [Rpc!Next]_(Rpc!rpcVars)
<1> DEFINE Goal == [Rpc!Next]_(Rpc!rpcVars)
<1> SUFFICES Goal
  OBVIOUS
<1>0. Labelled /\ Jobs /\ InTime /\ Firsts
  BY DEF Once
<1>1. ASSUME NEW s \in Seqs,
             Rpc!Call(s) \/ Rpc!Refuse(s) \/ Rpc!Execute(s) \/ Rpc!Produce(s) \/ Rpc!Answer(s) \/ Rpc!GiveUp(s)
      PROVE  Goal
  BY <1>1 DEF Rpc!Next
<1>2. ASSUME UNCHANGED <<outcome, req, runs, results>>
      PROVE  Goal
  BY <1>2, RpcStutters
<1>3. ASSUME NEW z \in Zones, NEW type \in Types, TakeSeq(z, type)
      PROVE  Goal
  <2>1. /\ nextSeq + 1 \in Seqs /\ outcome[nextSeq + 1] = "none"
        /\ outcome' = [outcome EXCEPT ![nextSeq + 1] = "taken"]
        /\ req' = [req EXCEPT ![nextSeq + 1] = [dst |-> z, type |-> type]]
        /\ UNCHANGED <<runs, results>>
    BY <1>3, SeqsTyped, RingCmdAssumption DEF TakeSeq, Seqs, Books, MasterOK, Fresh, history
  <2>2. /\ outcome \in [Seqs -> Outcomes] /\ req \in [Seqs -> Request \cup {NoReq}]
        /\ Seqs' = Seqs /\ ZoneStatus' = ZoneStatus /\ DedupTypes' = DedupTypes
    BY DEF Books, MasterOK, Seqs, ZoneStatus, DedupTypes
  <2>3. \A s \in Seqs : \/ outcome'[s] = outcome[s] /\ req'[s] = req[s]
                        \/ outcome[s] = "none" /\ outcome'[s] = "taken"
    BY <2>1, <2>2
  <2>4. UNCHANGED <<CallState, Repeatable, Answered, Ran>>
    BY <2>1, <2>2, <2>3 DEF CallState, Repeatable, Answered, Ran, ZoneStatus
  <2>5. QED BY <2>1, <2>4 DEF Rpc!rpcVars
<1>4. ASSUME NEW s \in Seqs, Submit(s)
      PROVE  Goal
  BY <1>1, <1>4, RpcCalls
<1>5. ASSUME NEW s \in Seqs, Cancel(s)
      PROVE  Goal
  <2>1. /\ s \in SeqsOf(q) /\ outcome' = [outcome EXCEPT ![s] = "cancelled"]
        /\ UNCHANGED <<req, runs, results>>
    BY <1>5 DEF Cancel, Cancellable, SeqsOf, history
  <2>2. outcome[s] = "pending"
    BY <2>1 DEF Books, Accounted
  <2>3. "cancelled" \in Outcomes /\ "cancelled" \notin ZoneStatus
    BY DEF Outcomes, ZoneStatus
  <2>4. QED BY <1>1, <2>1, <2>2, <2>3, RpcCloses
<1>6. CASE GiveUp
  <2>1. /\ q # <<>> /\ outcome' = [outcome EXCEPT ![q[1].seq] = "timeout"]
        /\ UNCHANGED <<req, runs, results>>
    BY <1>6 DEF GiveUp, Due, InFlight, ReportHead, history
  <2>2. q[1].seq \in Seqs /\ outcome[q[1].seq] = "pending"
    BY <2>1, QueueFacts DEF Books, Accounted
  <2>3. "timeout" \in Outcomes /\ "timeout" \notin ZoneStatus
    BY DEF Outcomes, ZoneStatus
  <2>4. QED BY <1>1, <2>1, <2>2, <2>3, RpcCloses
<1>7. ASSUME NEW z \in Zones, MasterReceive(z)
      PROVE  Goal
  BY <1>1, <1>7, RpcReceives
<1>8. ASSUME NEW z \in Zones, NEW types, TakeFrame(z, types)
      PROVE  LET s == Head(rxq[z]).seq
             IN  /\ s \in Seqs /\ Touched(s) /\ Head(rxq[z]) = rxq[z][1]
                 /\ req[s].type \in types
                 /\ types \subseteq DedupTypes /\ DupVerdict(z, s) = "exec" => runs[s].boot = 0
  <2>1. 1 \in DOMAIN rxq[z] /\ Head(rxq[z]) = rxq[z][1] /\ rxq[z][1].seq \in Seqs /\ rxq[z][1].type \in types
    BY <1>8, TakenAt
  <2>2. req[rxq[z][1].seq] = [dst |-> z, type |-> rxq[z][1].type]
    BY <1>0, <2>1 DEF Labelled
  <2>3. Touched(rxq[z][1].seq)
    BY <2>1, Carried
  <2>4. ASSUME types \subseteq DedupTypes, DupVerdict(z, Head(rxq[z]).seq) = "exec"
        PROVE  runs[Head(rxq[z]).seq].boot = 0
    <3>1. TakeFrame(z, DedupTypes)
      BY <1>8, <2>4 DEF TakeFrame
    <3>2. ~ (runs[Head(rxq[z]).seq].boot > 0)
      BY <1>0, <2>4, <3>1, Recognised
    <3>3. runs[Head(rxq[z]).seq].boot \in Nat
      BY <2>1 DEF Rest, HistoryOK
    <3>4. QED BY <3>2, <3>3
  <2>5. QED BY <2>1, <2>2, <2>3, <2>4
<1>9. ASSUME NEW z \in Zones, BeginCmd(z)
      PROVE  Goal
  <2> DEFINE s == Head(rxq[z]).seq
  <2>1. /\ TakeFrame(z, {"CMD"}) /\ DupVerdict(z, s) = "exec" /\ Record(s)
        /\ UNCHANGED <<outcome, req, results>>
    BY <1>9 DEF BeginCmd, master
  <2>2. s \in Seqs /\ Touched(s) /\ runs[s].boot = 0
    BY <1>8, <2>1 DEF DedupTypes
  <2> HIDE DEF s
  <2>3. QED BY <1>1, <2>1, <2>2, RpcExecutes
<1>10. ASSUME NEW z \in Zones, Commit(z)
       PROVE  Goal
  <2> DEFINE s == Head(rxq[z]).seq
  <2>1. /\ TakeFrame(z, {"CFG_COMMIT"}) /\ DupVerdict(z, s) = "exec" /\ Record(s)
        /\ UNCHANGED <<outcome, req>>
        /\ \E x \in ZoneStatus : results' = [results EXCEPT ![s] = @ \cup {x}]
    BY <1>10 DEF Commit, master
  <2>2. s \in Seqs /\ Touched(s) /\ runs[s].boot = 0
    BY <1>8, <2>1 DEF DedupTypes
  <2> HIDE DEF s
  <2>3. QED BY <1>1, <2>1, <2>2, RpcExecutes
<1>11. ASSUME NEW z \in Zones, ConfigGet(z)
       PROVE  Goal
  <2> DEFINE s == Head(rxq[z]).seq
  <2>1. /\ TakeFrame(z, {"CFG_GET"}) /\ Record(s)
        /\ UNCHANGED <<outcome, req>>
        /\ results' = [results EXCEPT ![s] = @ \cup {"ok"}]
    BY <1>11 DEF ConfigGet, master
  <2>2. s \in Seqs /\ Touched(s) /\ req[s].type \notin DedupTypes
    BY <1>8, <2>1 DEF DedupTypes
  <2> HIDE DEF s
  <2>3. "ok" \in ZoneStatus
    BY DEF ZoneStatus
  <2>4. QED BY <1>1, <2>1, <2>2, <2>3, RpcExecutes
<1>12. ASSUME NEW z \in Zones, FwUpdate(z)
       PROVE  Goal
  <2> DEFINE s == busy[z].seq
  <2>1. /\ busy[z].type = "FLUSH" /\ Record(s)
        /\ UNCHANGED <<outcome, req>>
        /\ \E x \in ZoneStatus : results' = [results EXCEPT ![s] = @ \cup {x}]
    BY <1>12 DEF FwUpdate, master
  <2>2. s # 0 /\ req[s].type \notin DedupTypes
    BY <1>0, <2>1 DEF Jobs, JobOK, JobTypes, DedupTypes
  <2>3. s \in Seqs /\ Touched(s)
    BY <2>2, Carried
  <2> HIDE DEF s
  <2>4. QED BY <1>1, <2>1, <2>2, <2>3, RpcExecutes
<1>13. ASSUME NEW z \in Zones, FinishCmd(z)
       PROVE  Goal
  <2> DEFINE s == busy[z].seq
  <2>1. /\ busy[z].type = "CMD" /\ UNCHANGED <<outcome, req, runs>>
        /\ \E x \in ZoneStatus : results' = [results EXCEPT ![s] = @ \cup {x}]
    BY <1>13 DEF FinishCmd, master
  <2>2. s # 0 /\ runs[s].boot > 0
    BY <1>0, <2>1 DEF Jobs, JobOK, JobTypes
  <2>3. s \in Seqs
    BY <2>2, Carried
  <2> HIDE DEF s
  <2>4. Ran[s] /\ UNCHANGED <<CallState, Repeatable, Answered, Ran>>
    BY <2>1, <2>2, <2>3 DEF Ran, CallState, Repeatable, Answered, Seqs, ZoneStatus, DedupTypes
  <2>5. Rpc!Produce(s)
    BY <2>1, <2>4 DEF Rpc!Produce
  <2>6. QED BY <1>1, <2>3, <2>5
<1>14. ASSUME NEW z \in Zones, NEW img, Restarted(z, img)
       PROVE  Goal
  <2>1. Rpc!Restart({s \in Seqs : req[s].dst = z})
    BY <1>14, RpcRestarts
  <2>2. QED BY <2>1 DEF Rpc!Next
<1>15. CASE \/ SendHead
            \/ \E z \in Zones : \/ Deliver(z) \/ LoseDown(z) \/ LoseUp(z) \/ Retransmitted(z)
                                \/ Flushed(z) \/ BeginFwUpdate(z) \/ BootDone(z)
            \/ Tick
            \/ UNCHANGED vars
  BY <1>2, <1>15 DEF SendHead, Deliver, LoseDown, LoseUp, Retransmitted, Flushed, BeginFwUpdate,
     BootDone, Tick, vars, master, history
<1>16. CASE \E z \in Zones : EnterRescue(z) \/ LeaveRescue(z) \/ Reset(z)
  BY <1>14, <1>16 DEF EnterRescue, LeaveRescue, Reset
<1>17. QED
  BY <1>3, <1>4, <1>5, <1>6, <1>7, <1>9, <1>10, <1>11, <1>12, <1>13, <1>15, <1>16
  DEF Next, Master, Zone

(* A tracked request is a remote call as OnceRpc promises it: the tracker,  *)
(* the store-and-forward ring and the zone's cache together, whatever is    *)
(* lost, late or repeated and whenever a zone restarts.                     *)
THEOREM RpcImplemented == Spec => ImplementsRpc
<1>1. Spec => []Untouched
  BY QueueInvariant, InitUntouched, NextUntouched, PTL DEF Spec
<1>2. Spec => []Once
  BY <1>1, QueueInvariant, InitOnce, NextOnce, PTL DEF Spec
<1>3. Spec => []Sourced
  <2>1. Init => Sourced
    BY DEF Init, Sourced, EmptyDup
  <2>2. QED BY <2>1, QueueInvariant, NextSourced, PTL DEF Spec
<1>4. Books /\ Rest /\ Untouched /\ Once /\ Sourced /\ [Next]_vars => [Rpc!Next]_(Rpc!rpcVars)
  BY NextRpc
<1>5. QED
  BY <1>1, <1>2, <1>3, <1>4, QueueInvariant, InitRpc, PTL DEF Spec, ImplementsRpc, Rpc!Spec
=============================================================================
