------------------------------ MODULE FleetSeq ------------------------------
(***************************************************************************)
(* The fleet sequencer's core (node_mgr/fleet_seq.c): a run over a list of *)
(* zones, one at a time, as a value and the operations on it.              *)
(*                                                                         *)
(* Its clock is two facts its owner keeps: "late", the 180 s since the     *)
(* update was submitted are over, and a heartbeat's "fresh", it arrived    *)
(* after the ACK.                                                          *)
(***************************************************************************)
EXTENDS Integers, Sequences

(* An inactive run's other fields are never read: fleet_start clears them. *)
Idle == [active |-> FALSE, zones |-> <<>>, idx |-> 1, st |-> "PRECHECK",
         cancel |-> FALSE, seq |-> 0, pre |-> 0, late |-> FALSE]

FleetStart(zs) == [Idle EXCEPT !.active = TRUE, !.zones = zs]

CurZone(f) == f.zones[f.idx]

(* Nothing sent yet: stop at once.  Else the zone in flight completes. *)
FleetCancel(f) == IF f.st = "PRECHECK" THEN Idle ELSE [f EXCEPT !.cancel = TRUE]

(* Mutant: one zone too many. *)
AdvanceTooFar(f, failed) ==
  IF failed \/ f.cancel \/ f.idx > Len(f.zones)
  THEN Idle
  ELSE [f EXCEPT !.idx = @ + 1, !.st = "PRECHECK"]

(* A failure or a cancel ends the run, and so does its last zone. *)
Advance(f, failed) ==
  IF failed \/ f.cancel \/ f.idx >= Len(f.zones)
  THEN Idle
  ELSE [f EXCEPT !.idx = @ + 1, !.st = "PRECHECK"]

(* What a tick concludes from a snapshot s of the current zone:             *)
(* ok (an image is there), online, and its heartbeat's fw, low, fresh.      *)

(* Mutant: success without the freshness gate. *)
UpdatedStale(f, s) == s.fw # f.pre \/ s.low

Updated(f, s) == s.fresh /\ (s.fw # f.pre \/ s.low)

Verdict(f, s) ==
  IF ~f.active THEN "none"
  ELSE IF f.st = "PRECHECK" THEN (IF s.ok /\ s.online THEN "start" ELSE "failed")
  ELSE IF f.st = "WAIT_HB" /\ Updated(f, s) THEN "done"
  ELSE IF f.st = "WAIT_HB" /\ f.late THEN "failed"
  ELSE "none"

AckIsMine(f, seq) == f.active /\ f.st = "WAIT_ACK" /\ seq = f.seq

OnAck(f, ok) == IF ok THEN [f EXCEPT !.st = "WAIT_HB"] ELSE Advance(f, TRUE)

(* Mutant: an update that could not be submitted is waited for all the same. *)
NoteSubmittedAnyway(f, submitted, seq, pre) ==
  [f EXCEPT !.st = "WAIT_ACK", !.seq = seq, !.late = FALSE, !.pre = pre]

(* FA_START, and what do_start reports back: the sequence number, the       *)
(* deadline renewed, and the firmware the zone runs now.                    *)
NoteSubmitted(f, submitted, seq, pre) ==
  IF submitted
  THEN [f EXCEPT !.st = "WAIT_ACK", !.seq = seq, !.late = FALSE, !.pre = pre]
  ELSE Advance(f, TRUE)
=============================================================================
