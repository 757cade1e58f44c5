------------------------------ MODULE RingTrk ------------------------------
(***************************************************************************)
(* The master's pending tracker (ring_proto/ring_trk.c): a bounded queue   *)
(* of frames that want an ACK, of which only the head may be on the wire.  *)
(* This module holds the queue as a value and the operations on it; the    *)
(* modules that own a tracker keep the queue in a variable.                *)
(*                                                                         *)
(* An entry is in flight once its attempts counter is nonzero.  The wire   *)
(* image, the last-send time and the ACK detail are the owner's business.  *)
(***************************************************************************)
EXTENDS Integers, Sequences, SequencesExt

CONSTANTS
  RING_TRK_DEPTH,   \* entries the queue holds (8 in ring_proto.h)
  MAX_ATTEMPTS      \* transmissions of one entry before it fails (3)

ASSUME TrkAssumption ==
  /\ RING_TRK_DEPTH \in Nat \ {0}
  /\ MAX_ATTEMPTS \in Nat \ {0}

PriorityTypes == {"CMD", "FW_UPDATE"}
ConfigTypes   == {"CFG_GET", "CFG_COMMIT"}
TrackedTypes  == PriorityTypes \cup ConfigTypes

Full(q)     == Len(q) >= RING_TRK_DEPTH
InFlight(q) == q # <<>> /\ q[1].att > 0

SeqsOf(q) == {q[i].seq : i \in DOMAIN q}

-----------------------------------------------------------------------------
(* Where a new entry goes: config frames append; CMD and FW_UPDATE go after *)
(* the in-flight head and after the priority entries that follow it.        *)

FirstSlot(q) == IF InFlight(q) THEN 2 ELSE 1

(* Mutant: a command goes to the front, whatever is in flight there. *)
InsertSlotInFront(q, type) == IF type \in PriorityTypes THEN 1 ELSE Len(q) + 1

InsertSlot(q, type) ==
  IF type \in PriorityTypes
  THEN CHOOSE k \in FirstSlot(q) .. Len(q) + 1 :
         /\ \A i \in FirstSlot(q) .. k - 1 : q[i].type \in PriorityTypes
         /\ k <= Len(q) => q[k].type \notin PriorityTypes
  ELSE Len(q) + 1

Submitted(q, e) == InsertAt(q, InsertSlot(q, e.type), e)

-----------------------------------------------------------------------------
(* One more transmission of the head, and its removal on ACK or failure.   *)

(* Mutant: a retransmission is not counted. *)
SentUncounted(q) == [q EXCEPT ![1].att = 1]

Sent(q) == [q EXCEPT ![1].att = @ + 1]

(* Mutant: any ACK settles the entry in flight. *)
AckMatchesAny(q, s) == InFlight(q)

AckMatches(q, s) == InFlight(q) /\ q[1].seq = s

UnclaimedMatches(q, s, dst) == InFlight(q) /\ q[1].seq = s /\ q[1].dst = dst

(* Mutant: an entry on the wire can be withdrawn. *)
CancellableInFlight(q, s) == \E i \in DOMAIN q : q[i].seq = s

(* ring_trk_cancel withdraws a queued entry, never one on the wire. *)
Cancellable(q, s) == \E i \in DOMAIN q : q[i].seq = s /\ q[i].att = 0

(* Mutant: the shift drops the last entry, not the withdrawn one. *)
CancelledLast(q, s) == Front(q)

Cancelled(q, s) == RemoveAt(q, CHOOSE i \in DOMAIN q : q[i].seq = s)
=============================================================================
