------------------------------ MODULE RingLink ------------------------------
(***************************************************************************)
(* The ring's wires (ring_link, ring_frame, ring_cobs, ring_route): nodes   *)
(* that pass frames on as bytes, from the master through the zones and back *)
(* to it.  A wire loses and damages bytes, reports a break, overruns, and   *)
(* may be plugged so that the master is outside the loop of the zones.      *)
(*                                                                         *)
(* A byte is a small number; a header's fields are one byte each, the       *)
(* payload is one byte (of ASSIGN_ID, the board's MAC), and the checksum is *)
(* one byte that no other content has: what damage slips past a CRC-16 is   *)
(* not modelled.  Trace output and counters are left out.                   *)
(***************************************************************************)
EXTENDS Integers, Sequences, SequencesExt, FiniteSets

CONSTANTS
  N,                   \* zones on the ring
  RING_TTL_INIT, RING_CONSUME_DEPTH,
  COBS_BLOCK,          \* 254: the bytes of a COBS block
  MAX_SEND, MAX_FAULT

VARIABLES
  wire,    \* per node, what comes in: bytes, each with the frame it was written for
  dec,     \* per node, ring_dec_t: the content so far, or past the limit (discard)
  resets,  \* per node, break events that its task has not seen yet
  queue,   \* per node, s_consume_q
  id,      \* per node, its id on the ring
  sub,     \* the last zone is plugged into the first
  seen     \* frames sent; per node what reached it, what was damaged on its wire, what it lost

vars == <<wire, dec, resets, queue, id, sub, seen>>

Nodes    == 0 .. N                  \* 0 is the master; a node's MAC is its place
MASTER   == 0
BCAST    == 15
UNASSIGNED == 14
MAGIC    == 13
BAD      == 12                      \* what a damaged byte is
HEARTBEAT == 1  TIME_SYNC == 2  ASSIGN_ID == 3  CMD == 4
Types    == 1 .. 4
BASE     == 16

NextOf(n) == IF n < N THEN n + 1 ELSE IF sub THEN 1 ELSE 0

-----------------------------------------------------------------------------
(* A frame as bytes.                                                        *)

Crc16(raw) == BASE + FoldLeft(LAMBDA crc, b : crc * BASE + b, 0, raw)

(* COBS: blocks of bytes that are not 0, each after its length and one; a    *)
(* block that is not full stands for a 0 after it, but for the last.         *)
CobsEncode(raw) ==
  LET Cut(a, b) == IF b # 0 /\ Len(a.block) + 1 < COBS_BLOCK THEN [a EXCEPT !.block = Append(@, b)]
                   ELSE LET block == IF b = 0 THEN a.block ELSE Append(a.block, b)
                            code  == IF b = 0 THEN Len(block) + 1 ELSE COBS_BLOCK + 1
                        IN  [out |-> a.out \o <<code>> \o block, block |-> <<>>]
      end == FoldLeft(Cut, [out |-> <<>>, block |-> <<>>], raw)
  IN  end.out \o <<Len(end.block) + 1>> \o end.block

CobsDecodeZeros(in) ==
  LET Take(a, i) ==
        IF a.left > 0 THEN [a EXCEPT !.out = Append(@, in[i]), !.left = @ - 1]
        ELSE [out |-> IF i > 1 THEN Append(a.out, 0) ELSE a.out, left |-> in[i] - 1]
      end == FoldLeft(Take, [out |-> <<>>, left |-> 0], [i \in DOMAIN in |-> i])
  IN  IF end.left = 0 THEN end.out ELSE <<>>

(* left counts what a block's length still promises; -1 the content is not   *)
(* one that the encoder makes.                                               *)
CobsDecode(in) ==
  LET Take(a, i) ==
        IF a.left > 0 THEN [a EXCEPT !.out = Append(@, in[i]), !.left = @ - 1]
        ELSE [out  |-> IF i > 1 /\ a.code < COBS_BLOCK + 1 THEN Append(a.out, 0) ELSE a.out,
              left |-> in[i] - 1, code |-> in[i]]
      end == FoldLeft(Take, [out |-> <<>>, left |-> 0, code |-> 0], [i \in DOMAIN in |-> i])
  IN  IF end.left = 0 THEN end.out ELSE <<>>

HDR_LEN == 7
Raw(h)  == LET hdr == <<MAGIC, h.src, h.dst, h.type, h.ttl, h.seq, h.mac>> IN Append(hdr, Crc16(hdr))
Encode(h) == <<0>> \o CobsEncode(Raw(h)) \o <<0>>
WIRE_CONTENT_MAX == LET raw == HDR_LEN + 1 IN raw + raw \div COBS_BLOCK + 2

(* The header in a content, or none.                                        *)
None == [src |-> 0, dst |-> 0, type |-> 0, ttl |-> 0, seq |-> 0, mac |-> 0]
DecodedUnchecked(content) ==
  LET raw == CobsDecode(content)
  IN  IF Len(raw) # HDR_LEN + 1 \/ raw[1] # MAGIC THEN None
      ELSE [src |-> raw[2], dst |-> raw[3], type |-> raw[4], ttl |-> raw[5], seq |-> raw[6], mac |-> raw[7]]
Decoded(content) ==
  LET raw == CobsDecode(content)
  IN  IF Len(raw) # HDR_LEN + 1 \/ raw[1] # MAGIC \/ raw[8] # Crc16(SubSeq(raw, 1, 7)) THEN None
      ELSE [src |-> raw[2], dst |-> raw[3], type |-> raw[4], ttl |-> raw[5], seq |-> raw[6], mac |-> raw[7]]

(* A frame written to a wire: its bytes belong to frame h.seq.               *)
Written(w, h) == LET bytes == Encode(h) IN w \o [i \in DOMAIN bytes |-> [b |-> bytes[i], f |-> h.seq]]

-----------------------------------------------------------------------------
(* ring_route, and what the link does with a frame for each route.           *)

RouteBcastFirst(n, h) ==
  IF h.dst = BCAST THEN "CONSUME_FWD" ELSE IF n = MASTER THEN "CONSUME" ELSE "FORWARD"
Route(n, h) ==
  LET assigned == id[n] # UNASSIGNED
  IN  IF n = MASTER THEN IF h.src = MASTER THEN "DROP_SELF" ELSE "CONSUME"
      ELSE CASE assigned /\ h.src = id[n] -> "DROP_SELF"
             [] assigned /\ h.dst = id[n] -> "CONSUME"
             [] h.dst = BCAST             -> "CONSUME_FWD"
             [] h.dst = UNASSIGNED        -> IF h.type = ASSIGN_ID /\ h.mac = n THEN "CONSUME" ELSE "FORWARD"
             [] OTHER                     -> IF h.ttl <= 1 THEN "DROP" ELSE "FORWARD"

(* ttl is a byte: below 0 it is the highest.                                  *)
ForwardUnguarded(w, h) == Written(w, [h EXCEPT !.ttl = (@ - 1) % (RING_TTL_INIT + 1)])
Forward(w, h)  == IF h.ttl = 0 THEN w ELSE Written(w, [h EXCEPT !.ttl = @ - 1])

(* Mutant: the queue to the ring task takes everything.                        *)
EnqueueUnbounded(q, h) == Append(q, h)
Enqueue(q, h)  == IF Len(q) < RING_CONSUME_DEPTH THEN Append(q, h) ELSE q

Dispatched(n, w, h) ==
  LET rt == Route(n, h)
      returned == n = MASTER /\ rt = "DROP_SELF" /\ h.type = CMD       \* a tracked frame nobody took
      out == NextOf(n)
  IN  /\ wire' = [w EXCEPT ![out] = IF rt \in {"FORWARD", "CONSUME_FWD"} THEN Forward(@, h) ELSE @]
      /\ queue' = [queue EXCEPT ![n] = IF rt \in {"CONSUME", "CONSUME_FWD"} \/ returned THEN Enqueue(@, h) ELSE @]

(* ring_dec_feed over k bytes, of which only the last may be a delimiter.     *)
Fed(n, k) ==
  LET bytes   == SubSeq(wire[n], 1, k)
      rest    == [wire EXCEPT ![n] = SubSeq(@, k + 1, Len(@))]
      ends    == bytes[k].b = 0
      content == dec[n] \o IF ends THEN SubSeq(bytes, 1, k - 1) ELSE bytes
      frames  == {content[i].f : i \in DOMAIN content}
      over    == Len(content) > WIRE_CONTENT_MAX
      h       == IF over THEN None ELSE Decoded([i \in DOMAIN content |-> content[i].b])
  IN  IF ends /\ content # <<>> /\ h # None
      THEN /\ Dispatched(n, rest, h)
           /\ dec' = [dec EXCEPT ![n] = <<>>]
           /\ seen' = [seen EXCEPT !.came[n] = Append(@, h)]
      ELSE /\ wire' = rest
           /\ dec' = [dec EXCEPT ![n] = IF ends THEN <<>> ELSE SubSeq(content, 1, IF over THEN WIRE_CONTENT_MAX + 1 ELSE Len(content))]
           /\ seen' = [seen EXCEPT !.lost[n] = IF ends \/ over THEN @ \cup frames ELSE @]
           /\ UNCHANGED queue

(* The task reads on to the next delimiter, or to the end of what is there.   *)
Upto(w) == IF \E i \in DOMAIN w : w[i].b = 0
           THEN CHOOSE i \in DOMAIN w : w[i].b = 0 /\ \A j \in 1 .. i - 1 : w[j].b # 0
           ELSE Len(w)
Rx(n) ==
  /\ wire[n] # <<>>
  /\ Fed(n, Upto(wire[n]))
  /\ UNCHANGED <<resets, id, sub>>

(* It may stop earlier when a break event waits for it.                       *)
RxPart(n) ==
  /\ resets[n] > 0 /\ wire[n] # <<>>
  /\ \E k \in 1 .. Upto(wire[n]) - 1 : Fed(n, k)
  /\ UNCHANGED <<resets, id, sub>>

Half(n) == {dec[n][i].f : i \in DOMAIN dec[n]}
Reset(n) ==
  /\ resets[n] > 0
  /\ resets' = [resets EXCEPT ![n] = @ - 1]
  /\ dec' = [dec EXCEPT ![n] = <<>>]
  /\ seen' = [seen EXCEPT !.hit[n] = @ \cup Half(n)]
  /\ UNCHANGED <<wire, queue, id, sub>>

(* A node's own task: it sends, and takes what the link queued for it.        *)
Header(n) ==
  IF n = MASTER
  THEN {[None EXCEPT !.src = MASTER, !.dst = BCAST, !.type = TIME_SYNC]}
       \cup {[None EXCEPT !.src = MASTER, !.dst = z, !.type = CMD] : z \in 1 .. N}
       \cup {[None EXCEPT !.src = MASTER, !.dst = UNASSIGNED, !.type = ASSIGN_ID, !.mac = z] : z \in 1 .. N}
  ELSE {[None EXCEPT !.src = id[n], !.dst = MASTER, !.type = HEARTBEAT]}
Send(n) ==
  /\ Len(seen.sent) < MAX_SEND
  /\ \E x \in Header(n) :
       LET h == [x EXCEPT !.ttl = RING_TTL_INIT, !.seq = Len(seen.sent)]
       IN  /\ wire' = [wire EXCEPT ![NextOf(n)] = Written(@, h)]
           /\ seen' = [seen EXCEPT !.sent = Append(@, h)]
  /\ UNCHANGED <<dec, resets, queue, id, sub>>

Receive(n) ==
  /\ queue[n] # <<>>
  /\ queue' = [queue EXCEPT ![n] = Tail(@)]
  /\ id' = IF n # MASTER /\ Head(queue[n]).type = ASSIGN_ID THEN [id EXCEPT ![n] = n] ELSE id
  /\ UNCHANGED <<wire, dec, resets, sub, seen>>

-----------------------------------------------------------------------------
(* The wires' faults.                                                        *)

Fault == seen.faults < MAX_FAULT
Hit(n, frames) == seen' = [seen EXCEPT !.hit[n] = @ \cup frames, !.faults = @ + 1]

Damage(n) ==
  /\ Fault
  /\ \E i \in DOMAIN wire[n], b \in {0, BAD} :
       /\ wire[n][i].b # b
       /\ wire' = [wire EXCEPT ![n][i].b = b]
       /\ Hit(n, {wire[n][i].f})
  /\ UNCHANGED <<dec, resets, queue, id, sub>>

LoseByte(n) ==
  /\ Fault
  /\ \E i \in DOMAIN wire[n] :
       /\ wire' = [wire EXCEPT ![n] = RemoveAt(@, i)]
       /\ Hit(n, {wire[n][i].f})
  /\ UNCHANGED <<dec, resets, queue, id, sub>>

(* A break, frame or parity error is an event of its own: the task may have   *)
(* read past it when it comes to it.                                          *)
Break(n) ==
  /\ Fault
  /\ resets' = [resets EXCEPT ![n] = @ + 1]
  /\ Hit(n, {})
  /\ UNCHANGED <<wire, dec, queue, id, sub>>

(* The input is flushed, and the events with it; only an overrun of the FIFO  *)
(* resets the decoder.                                                        *)
Overrun(n) ==
  /\ Fault /\ wire[n] # <<>>
  /\ \E fifo \in BOOLEAN : dec' = IF fifo THEN [dec EXCEPT ![n] = <<>>] ELSE dec
  /\ wire' = [wire EXCEPT ![n] = <<>>]
  /\ resets' = [resets EXCEPT ![n] = 0]
  /\ Hit(n, Half(n) \cup {wire[n][i].f : i \in DOMAIN wire[n]})
  /\ UNCHANGED <<queue, id, sub>>

(* The cable from the last zone is plugged into the first one's receiver.     *)
Replug ==
  /\ Fault /\ ~sub /\ N > 1
  /\ sub' = TRUE
  /\ seen' = [seen EXCEPT !.faults = @ + 1]
  /\ UNCHANGED <<wire, dec, resets, queue, id>>

Init ==
  /\ wire = [n \in Nodes |-> <<>>]
  /\ dec = [n \in Nodes |-> <<>>]
  /\ resets = [n \in Nodes |-> 0]
  /\ queue = [n \in Nodes |-> <<>>]
  /\ id \in {f \in [Nodes -> Nodes \cup {UNASSIGNED}] : f[MASTER] = MASTER /\ \A z \in 1 .. N : f[z] \in {z, UNASSIGNED}}
  /\ sub = FALSE
  /\ seen = [sent |-> <<>>, faults |-> 0, came |-> [n \in Nodes |-> <<>>],
             hit |-> [n \in Nodes |-> {}], lost |-> [n \in Nodes |-> {}]]

Next ==
  \E n \in Nodes : \/ Rx(n) \/ RxPart(n) \/ Reset(n) \/ Send(n) \/ Receive(n)
                   \/ Damage(n) \/ LoseByte(n) \/ Break(n) \/ Overrun(n)
                   \/ n = N /\ Replug

Spec == Init /\ [][Next]_vars

-----------------------------------------------------------------------------
TypeOK ==
  /\ id \in [Nodes -> Nodes \cup {UNASSIGNED}]
  /\ \A n \in Nodes : /\ Len(dec[n]) <= WIRE_CONTENT_MAX + 1
                      /\ Len(queue[n]) <= RING_CONSUME_DEPTH
                      /\ seen.lost[n] \cup seen.hit[n] \subseteq 0 .. Len(seen.sent) - 1

(* Whatever happens to the bytes, a frame that passes the decoder is one that *)
(* was sent, with nothing but its ttl changed.                                *)
OnlySentFrames ==
  \A n \in Nodes : \A i \in DOMAIN seen.came[n] :
    LET h == seen.came[n][i]
    IN  \E s \in DOMAIN seen.sent : seen.sent[s] = [h EXCEPT !.ttl = RING_TTL_INIT]

(* A fault on a wire costs no other frame than those whose bytes it took, or  *)
(* whose bytes were being gathered when the decoder was reset.                *)
DamageIsLocal == \A n \in Nodes : seen.lost[n] \subseteq seen.hit[n]

(* As long as the ring is closed through the master, no frame reaches a node   *)
(* twice; and plugged wrongly, with the master outside the loop, none goes      *)
(* round for longer than its ttl (the comment before ring_link_forward).        *)
Arrivals(k) == {a \in Nodes \X (1 .. 1 + N * MAX_SEND * (RING_TTL_INIT + 2)) :
                  a[2] \in DOMAIN seen.came[a[1]] /\ seen.came[a[1]][a[2]].seq = k}
RoundOnce ==
  \A k \in 0 .. Len(seen.sent) - 1 :
    /\ Cardinality(Arrivals(k)) <= RING_TTL_INIT + 1
    /\ ~sub => \A a, b \in Arrivals(k) : a[1] = b[1] => a = b
=============================================================================
