------------------------------ MODULE RingCmd ------------------------------
(***************************************************************************)
(* One tracked request from the master to a zone and back: the tracker     *)
(* (ring_trk.c, driven by node_mgr.c), the store-and-forward ring          *)
(* (ring_link.c, ring_route.c), and the zone's control task with its       *)
(* at-most-once cache (zone_ring.c, ring_dup.c).                           *)
(*                                                                         *)
(* Time is counted in units of TICK_MS; every timer is kept as its age in  *)
(* ticks.  A Tick is possible only when nothing the code does at once is   *)
(* overdue, so ages mean what they mean on the boards.                     *)
(***************************************************************************)
EXTENDS RingTrk, FiniteSets

CONSTANTS
  Zones,            \* the enrolled zones
  Types,            \* the tracked frame types this instance submits
  ACK_TIMEOUT,      \* ring_ack_timeout_ms(ring_size), in ticks
  DUP_WINDOW,       \* the replay window of ring_dup_check (3000 ms)
  EXEC_MAX,         \* cmd_task_execute's abandon timeout (3500 ms)
  FLUSH_MAX,        \* hg_store_flush's bound (2000 ms)
  TRANSIT_MAX,      \* ticks a frame may spend on the wire
  CONSUME_DEPTH,    \* depth of ring_link's consume queue
  BOOT_TIME,        \* a restarting zone hears nothing for this many ticks
  MAX_SEQ,          \* bound: requests submitted
  MAX_RESET         \* bound: spontaneous resets, over all zones

ASSUME RingCmdAssumption ==
  /\ Types \subseteq TrackedTypes
  /\ ACK_TIMEOUT \in Nat \ {0}
  /\ DUP_WINDOW \in Nat
  /\ EXEC_MAX \in Nat \ {0}
  /\ FLUSH_MAX \in Nat
  /\ TRANSIT_MAX \in Nat
  /\ CONSUME_DEPTH \in Nat \ {0}
  /\ BOOT_TIME \in Nat
  /\ MAX_SEQ \in Nat
  /\ MAX_RESET \in Nat

(* The replay window outlasts every copy of a request: the last of three    *)
(* leaves at most twice 900 ms after the first, a lap of the ring takes     *)
(* about 230 ms and a flush at most 2000, against the 3000 of ring_dup.c.   *)
ASSUME WindowAssumption ==
  /\ (MAX_ATTEMPTS - 1) * ACK_TIMEOUT + TRANSIT_MAX <= DUP_WINDOW
  /\ FLUSH_MAX <= DUP_WINDOW

VARIABLES
  q,        \* the tracker's queue (s_trk.q)
  age,      \* ticks since the head was last sent (now - last_send_ms)
  nextSeq,  \* the last sequence number handed out (s_seq)
  down,     \* per zone: frames on the wire towards it
  up,       \* per zone: its ACKs, and its unclaimed frames, on the way back
  rxq,      \* per zone: ring_link's consume queue
  busy,     \* per zone: what keeps its control task from the next frame
  dup,      \* per zone: ring_dup_t
  image,    \* per zone: the image it runs, or is booting into
  resets,   \* spontaneous resets so far
  req,      \* history, per sequence number: what was submitted
  outcome,  \* history, per sequence number: what the submitter was told
  runs,     \* history, per sequence number: executions, since the boot and in all
  results   \* history, per sequence number: results the zone produced

master  == <<q, age, nextSeq, req, outcome>>
wires   == <<down, up>>
zoneRam == <<rxq, busy, dup, image, resets>>
history == <<runs, results>>
vars    == <<master, wires, zoneRam, history>>

-----------------------------------------------------------------------------

Seqs == 1 .. MAX_SEQ

ZoneStatus  == {"ok", "err"}
Idle        == [seq |-> 0, type |-> "none", t |-> 0]
DedupTypes  == {"CMD", "CFG_COMMIT"}
EmptyDup    == [seq |-> 0, state |-> "none", status |-> "ok", age |-> 0]
NoReq       == [dst |-> "none", type |-> "none"]

Runs(z, img) == image[z] = img /\ busy[z].type # "BOOT"

AtMost(n, bound) == IF n > bound THEN bound ELSE n

Init ==
  /\ q = <<>>
  /\ age = 0
  /\ nextSeq = 0
  /\ down = [z \in Zones |-> <<>>]
  /\ up = [z \in Zones |-> <<>>]
  /\ rxq = [z \in Zones |-> <<>>]
  /\ busy = [z \in Zones |-> Idle]
  /\ dup = [z \in Zones |-> EmptyDup]
  /\ image = [z \in Zones |-> "app"]
  /\ resets = 0
  /\ req = [s \in Seqs |-> NoReq]
  /\ outcome = [s \in Seqs |-> "none"]
  /\ runs = [s \in Seqs |-> [boot |-> 0, total |-> 0]]
  /\ results = [s \in Seqs |-> {}]

-----------------------------------------------------------------------------
(* The master *)

(* nmgr_submit takes the sequence number under one lock, queues the frame   *)
(* under another; tasks that submit at once may pass each other in between. *)
TakeSeq(z, type) ==
  /\ nextSeq < MAX_SEQ
  /\ nextSeq' = nextSeq + 1
  /\ req' = [req EXCEPT ![nextSeq + 1] = [dst |-> z, type |-> type]]
  /\ outcome' = [outcome EXCEPT ![nextSeq + 1] = "taken"]
  /\ UNCHANGED <<q, age, wires, zoneRam, history>>

Submit(s) ==
  /\ outcome[s] = "taken"
  /\ \/ /\ ~Full(q)
        /\ q' = Submitted(q, [seq |-> s, dst |-> req[s].dst, type |-> req[s].type, att |-> 0])
        /\ outcome' = [outcome EXCEPT ![s] = "pending"]
     \/ /\ Full(q)
        /\ outcome' = [outcome EXCEPT ![s] = "busy"]
        /\ UNCHANGED q
  /\ UNCHANGED <<age, nextSeq, req, wires, zoneRam, history>>

Transmit(e) ==
  down' = [down EXCEPT ![e.dst] = Append(@, [seq |-> e.seq, type |-> e.type, age |-> 0])]

Due == InFlight(q) /\ age >= ACK_TIMEOUT

(* Mutant: one transmission more than the code allows. *)
SendHeadOnceMore ==
  /\ q # <<>>
  /\ \/ q[1].att = 0
     \/ Due /\ q[1].att <= MAX_ATTEMPTS
  /\ q' = Sent(q)
  /\ age' = 0
  /\ Transmit(q[1])
  /\ UNCHANGED <<nextSeq, req, outcome, up, zoneRam, history>>

(* ring_trk_tick: first transmission, retransmission, or giving up. *)
SendHead ==
  /\ q # <<>>
  /\ \/ q[1].att = 0
     \/ Due /\ q[1].att < MAX_ATTEMPTS
  /\ q' = Sent(q)
  /\ age' = 0
  /\ Transmit(q[1])
  /\ UNCHANGED <<nextSeq, req, outcome, up, zoneRam, history>>

(* Mutant: a settled entry stays at the head of the queue. *)
ReportHeadKept(what) ==
  /\ outcome' = [outcome EXCEPT ![q[1].seq] = what]
  /\ q' = q

ReportHead(what) ==
  /\ outcome' = [outcome EXCEPT ![q[1].seq] = what]
  /\ q' = Tail(q)

GiveUp ==
  /\ Due
  /\ q[1].att >= MAX_ATTEMPTS
  /\ ReportHead("timeout")
  /\ UNCHANGED <<age, nextSeq, req, wires, zoneRam, history>>

(* handle_ack and the returned-frame branch of dispatch_frame. *)
MasterReceive(z) ==
  /\ up[z] # <<>>
  /\ up' = [up EXCEPT ![z] = Tail(@)]
  /\ LET f == Head(up[z]) IN
       \/ /\ f.kind = "ack"
          /\ AckMatches(q, f.seq)
          /\ ReportHead(f.status)
       \/ /\ f.kind = "unclaimed"
          /\ UnclaimedMatches(q, f.seq, z)
          /\ ReportHead("unknown")
       \/ /\ f.kind = "ack" => ~AckMatches(q, f.seq)
          /\ f.kind = "unclaimed" => ~UnclaimedMatches(q, f.seq, z)
          /\ UNCHANGED <<q, outcome>>
  /\ UNCHANGED <<age, nextSeq, req, down, zoneRam, history>>

(* nmgr_cancel, which only the config transfer calls. *)
Cancel(s) ==
  /\ Cancellable(q, s)
  /\ req[s].type \in ConfigTypes
  /\ q' = Cancelled(q, s)
  /\ outcome' = [outcome EXCEPT ![s] = "cancelled"]
  /\ UNCHANGED <<age, nextSeq, req, wires, zoneRam, history>>

-----------------------------------------------------------------------------
(* The ring *)

(* ring_link_dispatch at the addressed node: the application consumes the  *)
(* frame (or drops it on a full queue); the rescue image repeats every     *)
(* byte, so the frame travels on to the master unclaimed.                  *)
Deliver(z) ==
  /\ down[z] # <<>>
  /\ down' = [down EXCEPT ![z] = Tail(@)]
  /\ LET f == Head(down[z]) IN
       \/ /\ Runs(z, "app")
          /\ rxq' = IF Len(rxq[z]) < CONSUME_DEPTH
                    THEN [rxq EXCEPT ![z] = Append(@, [seq |-> f.seq, type |-> f.type])]
                    ELSE rxq
          /\ UNCHANGED up
       \/ /\ Runs(z, "rescue")
          /\ up' = [up EXCEPT ![z] =
                      Append(@, [kind |-> "unclaimed", seq |-> f.seq,
                                 status |-> "err", age |-> f.age])]
          /\ UNCHANGED rxq
  /\ UNCHANGED <<master, busy, dup, image, resets, history>>

LoseDown(z) ==
  /\ down[z] # <<>>
  /\ down' = [down EXCEPT ![z] = Tail(@)]
  /\ UNCHANGED <<master, up, zoneRam, history>>

LoseUp(z) ==
  /\ up[z] # <<>>
  /\ up' = [up EXCEPT ![z] = Tail(@)]
  /\ UNCHANGED <<master, down, zoneRam, history>>

-----------------------------------------------------------------------------
(* The zone: zone_ring_task takes one frame at a time *)

SendAck(z, s, status) ==
  up' = [up EXCEPT ![z] = Append(@, [kind |-> "ack", seq |-> s, status |-> status, age |-> 0])]

(* ring_dup_check *)
DupVerdict(z, s) ==
  IF dup[z].seq # s THEN "exec"
  ELSE IF dup[z].state = "absorb" THEN "absorb"
  ELSE IF dup[z].state = "replay" /\ dup[z].age <= DUP_WINDOW THEN "replay"
  ELSE "exec"

(* ring_dup_start and ring_dup_done *)
DupStarted(s) == [seq |-> s, state |-> "absorb", status |-> "ok", age |-> 0]

(* Mutant: the window runs from the start of the execution. *)
DupDoneFromStart(d, s, status) ==
  IF d.seq # s THEN d ELSE [d EXCEPT !.state = "replay", !.status = status]

DupDone(d, s, status) ==
  IF d.seq # s THEN d ELSE [seq |-> s, state |-> "replay", status |-> status, age |-> 0]

Record(s) == runs' = [runs EXCEPT ![s].boot = @ + 1, ![s].total = @ + 1]

Free(z) == image[z] = "app" /\ busy[z] = Idle

TakeFrame(z, types) ==
  /\ Free(z)
  /\ rxq[z] # <<>>
  /\ Head(rxq[z]).type \in types
  /\ rxq' = [rxq EXCEPT ![z] = Tail(@)]

(* zring_dup_begin answering for the handler: absorbed, or the cached ACK. *)
Retransmitted(z) ==
  /\ TakeFrame(z, DedupTypes)
  /\ LET s == Head(rxq[z]).seq IN
       /\ DupVerdict(z, s) # "exec"
       /\ IF DupVerdict(z, s) = "replay" THEN SendAck(z, s, dup[z].status) ELSE UNCHANGED up
  /\ UNCHANGED <<master, down, busy, dup, image, resets, history>>

(* handle_cmd up to cmd_task_execute, which then runs for up to EXEC_MAX. *)
BeginCmd(z) ==
  /\ TakeFrame(z, {"CMD"})
  /\ LET s == Head(rxq[z]).seq IN
       /\ DupVerdict(z, s) = "exec"
       /\ dup' = [dup EXCEPT ![z] = DupStarted(s)]
       /\ busy' = [busy EXCEPT ![z] = [seq |-> s, type |-> "CMD", t |-> 0]]
       /\ Record(s)
  /\ UNCHANGED <<master, wires, image, resets, results>>

(* handle_cmd from there on; an abandoned command answers ERR INTERNAL. *)
FinishCmd(z) ==
  /\ busy[z].type = "CMD"
  /\ \E status \in ZoneStatus :
       /\ busy[z].t >= EXEC_MAX => status = "err"
       /\ LET s == busy[z].seq IN
            /\ dup' = [dup EXCEPT ![z] = DupDone(@, s, status)]
            /\ results' = [results EXCEPT ![s] = @ \cup {status}]
            /\ SendAck(z, s, status)
  /\ busy' = [busy EXCEPT ![z] = Idle]
  /\ UNCHANGED <<master, down, rxq, image, resets, runs>>

(* zone_ring_cfg_commit, as far as the at-most-once cache is concerned: an   *)
(* applied configuration is answered first and then flushed.                *)
Commit(z) ==
  /\ TakeFrame(z, {"CFG_COMMIT"})
  /\ \E status \in ZoneStatus :
       LET s == Head(rxq[z]).seq IN
         /\ DupVerdict(z, s) = "exec"
         /\ dup' = [dup EXCEPT ![z] = DupDone(DupStarted(s), s, status)]
         /\ Record(s)
         /\ results' = [results EXCEPT ![s] = @ \cup {status}]
         /\ SendAck(z, s, status)
         /\ busy' = IF status = "ok"
                    THEN [busy EXCEPT ![z] = [seq |-> s, type |-> "CFG_COMMIT", t |-> 0]]
                    ELSE busy
  /\ UNCHANGED <<master, down, image, resets>>

Flushed(z) ==
  /\ busy[z].type = "CFG_COMMIT"
  /\ busy' = [busy EXCEPT ![z] = Idle]
  /\ UNCHANGED <<master, wires, rxq, dup, image, resets, history>>

(* zone_ring_cfg_get answers every copy; the stream that follows is CfgSync's. *)
ConfigGet(z) ==
  /\ TakeFrame(z, {"CFG_GET"})
  /\ LET s == Head(rxq[z]).seq IN
       /\ Record(s)
       /\ results' = [results EXCEPT ![s] = @ \cup {"ok"}]
       /\ SendAck(z, s, "ok")
  /\ UNCHANGED <<master, down, busy, dup, image, resets>>

(* handle_fw_update: the store is flushed first; then the handover record,  *)
(* the ACK, drain and delay, and the rescue image.                          *)
BeginFwUpdate(z) ==
  /\ TakeFrame(z, {"FW_UPDATE"})
  /\ busy' = [busy EXCEPT ![z] = [seq |-> Head(rxq[z]).seq, type |-> "FLUSH", t |-> 0]]
  /\ UNCHANGED <<master, wires, dup, image, resets, history>>

FwUpdate(z) ==
  /\ busy[z].type = "FLUSH"
  /\ \E status \in ZoneStatus :
       LET s == busy[z].seq IN
         /\ Record(s)
         /\ results' = [results EXCEPT ![s] = @ \cup {status}]
         /\ SendAck(z, s, status)
         /\ busy' = [busy EXCEPT ![z] =
                       IF status = "ok" THEN [seq |-> s, type |-> "FW_UPDATE", t |-> 0] ELSE Idle]
  /\ UNCHANGED <<master, down, rxq, dup, image, resets>>

(* A boot empties everything the zone keeps in RAM. *)
Restarted(z, img) ==
  /\ image' = [image EXCEPT ![z] = img]
  /\ rxq' = [rxq EXCEPT ![z] = <<>>]
  /\ busy' = [busy EXCEPT ![z] = [seq |-> 0, type |-> "BOOT", t |-> 0]]
  /\ dup' = [dup EXCEPT ![z] = EmptyDup]
  /\ runs' = [s \in Seqs |-> IF req[s].dst = z THEN [runs[s] EXCEPT !.boot = 0] ELSE runs[s]]
  /\ UNCHANGED <<master, wires, results>>

EnterRescue(z) ==
  /\ busy[z].type = "FW_UPDATE"
  /\ Restarted(z, "rescue")
  /\ UNCHANGED resets

LeaveRescue(z) ==
  /\ Runs(z, "rescue")
  /\ Restarted(z, "app")
  /\ UNCHANGED resets

(* A reset at any moment: brown-out, panic or watchdog. *)
Reset(z) ==
  /\ resets < MAX_RESET
  /\ Runs(z, "app")
  /\ Restarted(z, "app")
  /\ resets' = resets + 1

BootDone(z) ==
  /\ busy[z].type = "BOOT"
  /\ busy[z].t >= BOOT_TIME
  /\ busy' = [busy EXCEPT ![z] = Idle]
  /\ UNCHANGED <<master, wires, rxq, dup, image, resets, history>>

-----------------------------------------------------------------------------
(* Time *)

Urgent ==
  \/ q # <<>> /\ q[1].att = 0
  \/ Due
  \/ \E z \in Zones :
       \/ \E i \in DOMAIN down[z] : down[z][i].age >= TRANSIT_MAX
       \/ \E i \in DOMAIN up[z] : up[z][i].age >= TRANSIT_MAX
       \/ Free(z) /\ rxq[z] # <<>>
       \/ busy[z].type \in {"CMD", "FW_UPDATE"} /\ busy[z].t >= EXEC_MAX
       \/ busy[z].type \in {"CFG_COMMIT", "FLUSH"} /\ busy[z].t >= FLUSH_MAX
       \/ busy[z].type = "BOOT" /\ busy[z].t >= BOOT_TIME

Older(frames) == [i \in DOMAIN frames |-> [frames[i] EXCEPT !.age = @ + 1]]

Tick ==
  /\ ~Urgent
  /\ age' = AtMost(age + 1, ACK_TIMEOUT)
  /\ down' = [z \in Zones |-> Older(down[z])]
  /\ up' = [z \in Zones |-> Older(up[z])]
  /\ busy' = [z \in Zones |-> IF busy[z] = Idle THEN Idle ELSE [busy[z] EXCEPT !.t = @ + 1]]
  /\ dup' = [z \in Zones |-> [dup[z] EXCEPT !.age = AtMost(@ + 1, DUP_WINDOW + 1)]]
  /\ UNCHANGED <<q, nextSeq, req, outcome, rxq, image, resets, history>>

-----------------------------------------------------------------------------

Master == SendHead \/ GiveUp \/ \E z \in Zones : MasterReceive(z)

Zone(z) ==
  \/ Retransmitted(z) \/ BeginCmd(z) \/ FinishCmd(z) \/ Commit(z)
  \/ Flushed(z) \/ ConfigGet(z) \/ BeginFwUpdate(z) \/ FwUpdate(z) \/ EnterRescue(z) \/ BootDone(z)

Next ==
  \/ \E z \in Zones, type \in Types : TakeSeq(z, type)
  \/ \E s \in Seqs : Submit(s) \/ Cancel(s)
  \/ Master
  \/ \E z \in Zones :
       Deliver(z) \/ LoseDown(z) \/ LoseUp(z) \/ Zone(z) \/ LeaveRescue(z) \/ Reset(z)
  \/ Tick

Spec == Init /\ [][Next]_vars

(* The node_mgr loop, the UART tasks and each zone's control task run at    *)
(* fixed priorities above everything that could starve them, so each keeps  *)
(* making progress; nothing obliges a submitter, a reset or a cancel.       *)
FairSpec ==
  /\ Spec
  /\ WF_vars(Master)
  /\ \A z \in Zones : WF_vars(Deliver(z) \/ LoseDown(z)) /\ WF_vars(Zone(z))
  /\ WF_vars(Tick)

-----------------------------------------------------------------------------
(* Properties *)

Entry     == [seq : Seqs, dst : Zones, type : Types, att : 0 .. MAX_ATTEMPTS]
FrameDown == [seq : Seqs, type : Types, age : 0 .. TRANSIT_MAX]
FrameUp   == [kind : {"ack", "unclaimed"}, seq : Seqs, status : ZoneStatus,
              age : 0 .. TRANSIT_MAX]
Received  == [seq : Seqs, type : Types]
JobTypes  == {"CMD", "CFG_COMMIT", "FLUSH", "FW_UPDATE"}
Job       == [seq : 0 .. MAX_SEQ, type : JobTypes \cup {"none", "BOOT"}, t : Nat]
DupState  == [seq : 0 .. MAX_SEQ, state : {"none", "absorb", "replay"},
              status : ZoneStatus, age : 0 .. DUP_WINDOW + 1]
Request   == [dst : Zones, type : Types]
Outcomes  == {"none", "taken", "pending", "busy", "cancelled", "timeout", "unknown"}
             \cup ZoneStatus

MasterOK ==
  /\ q \in Seq(Entry)
  /\ Len(q) <= RING_TRK_DEPTH
  /\ age \in 0 .. ACK_TIMEOUT
  /\ nextSeq \in 0 .. MAX_SEQ
  /\ req \in [Seqs -> Request \cup {NoReq}]
  /\ outcome \in [Seqs -> Outcomes]

WiresOK ==
  /\ down \in [Zones -> Seq(FrameDown)]
  /\ up \in [Zones -> Seq(FrameUp)]

ZoneOK ==
  /\ rxq \in [Zones -> Seq(Received)]
  /\ busy \in [Zones -> Job]
  /\ \A z \in Zones : busy[z].type \in JobTypes => busy[z].seq \in Seqs
  /\ dup \in [Zones -> DupState]
  /\ image \in [Zones -> {"app", "rescue"}]
  /\ resets \in 0 .. MAX_RESET

HistoryOK ==
  /\ runs \in [Seqs -> [boot : Nat, total : Nat]]
  /\ results \in [Seqs -> SUBSET ZoneStatus]

(* The tracker's queue holds well-formed entries within its depth, no entry *)
(* is sent more than MAX_ATTEMPTS times, and every timer stays within the   *)
(* range its comparisons assume (ring_trk_submit, ring_trk_tick).           *)
TypeOK == MasterOK /\ WiresOK /\ ZoneOK /\ HistoryOK

(* Only the head is ever on the wire, and a command never waits behind a    *)
(* config frame that has not been sent (ring_trk_submit's insertion rule).  *)
QueueOrder ==
  \A i, j \in DOMAIN q : i < j =>
    /\ q[j].att = 0
    /\ (q[i].type \in ConfigTypes /\ q[j].type \in PriorityTypes) => q[i].att > 0

(* Every accepted request is either queued exactly once or has been         *)
(* reported: none is lost by an insertion, a removal or a cancel, and none  *)
(* is reported while it can still be sent.                                  *)
Accounted ==
  /\ \A s \in Seqs : outcome[s] = "pending" <=> s \in SeqsOf(q)
  /\ \A i, j \in DOMAIN q : q[i].seq = q[j].seq => i = j

(* A command or a config commit is executed at most once in one boot of the *)
(* zone, however often it is retransmitted and however long it takes        *)
(* (ring_dup.c; the window runs from completion for exactly this reason).   *)
AtMostOncePerBoot ==
  \A s \in Seqs : req[s].type \in DedupTypes => runs[s].boot <= 1

(* The claim of the design document, section 2.6: an actuator command       *)
(* executes at most once.  The cache is RAM, so a reset voids it.           *)
AtMostOnce ==
  \A s \in Seqs : req[s].type \in DedupTypes => runs[s].total <= 1

(* A reply the submitter is given is one the zone produced for this very    *)
(* request: a late ACK of an earlier request is never taken for it.         *)
ReplyIsGenuine ==
  \A s \in Seqs : outcome[s] \in ZoneStatus => outcome[s] \in results[s]

(* A withdrawn config frame never reaches a zone (nmgr_cancel's contract,   *)
(* on which the revert race of the config transfer rests).                  *)
WithdrawnNeverSent ==
  \A s \in Seqs : outcome[s] = "cancelled" =>
    /\ runs[s].total = 0
    /\ \A z \in Zones : s \notin SeqsOf(down[z]) \cup SeqsOf(rxq[z])

(* What a submitter can tell of its request, and of what became of it.      *)
CallState == [s \in Seqs |-> IF outcome[s] \in {"none", "taken"} THEN "idle"
                            ELSE IF outcome[s] = "pending" THEN "open" ELSE "closed"]

Repeatable == [s \in Seqs |-> outcome[s] \in {"none", "taken"} \/ req[s].type \notin DedupTypes]

Ran == [s \in Seqs |-> runs[s].boot > 0]

Answered == [s \in Seqs |-> IF outcome[s] \in ZoneStatus THEN outcome[s] ELSE "none"]

(* The protocol implements the remote call it promises (OnceRpc).           *)
Rpc == INSTANCE OnceRpc WITH
  Requests   <- Seqs,
  Replies    <- ZoneStatus,
  state      <- CallState,
  idempotent <- Repeatable,
  ran        <- Ran,
  produced   <- results,
  answer     <- Answered

ImplementsRpc == Rpc!Spec

(* Every accepted request is eventually reported, whatever is lost.         *)
EventuallyReported ==
  \A s \in Seqs : outcome[s] = "pending" ~> outcome[s] # "pending"
=============================================================================
