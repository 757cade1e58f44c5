------------------------------ MODULE CfgSync ------------------------------
(***************************************************************************)
(* Keeping one configuration on two sides of the ring: the master's        *)
(* reconciler, its transfer slot and its failure memory (node_mgr_cfg.c,   *)
(* node_mgr_cfgx.c, node_mgr_cfg_latch.c), the web write inbox             *)
(* (node_mgr_cfg_api.c), forwarded SET commands (node_mgr_fwd.c), and the  *)
(* zone's side of a transfer (zone_ring_cfg.c, hg_model.c).                *)
(*                                                                         *)
(* Frames to and from a zone travel in order and may be lost.  There is no *)
(* clock: a timer whose owner is still being served may fire early as      *)
(* often as MAX_FAULT allows, one that nothing will answer fires freely.   *)
(* At-most-once execution is what RingCmd establishes, so a zone here      *)
(* answers a repeated number from its cache without a window.              *)
(***************************************************************************)
EXTENDS RingTrk, FiniteSets

CONSTANTS
  ZONES,         \* zones are numbered 1 .. ZONES
  CHUNKS,        \* chunks one blob is cut into (5 for a zone config)
  CX_ATTEMPTS,   \* tries of one transfer (4: one and three retries)
  MAX_SEQ,       \* sequence numbers, reused once nothing remembers them
  MAX_EDIT,      \* bound: edits, over all sources
  MAX_FAULT      \* bound: frames lost, timers that fire early, scans that find a
                 \* zone absent, pushes it refuses as invalid, flushes that time out,
                 \* resets of a zone, manual push requests

ASSUME CfgSyncAssumption ==
  /\ {ZONES, CHUNKS, CX_ATTEMPTS, MAX_SEQ} \subseteq Nat \ {0}
  /\ {MAX_EDIT, MAX_FAULT} \subseteq Nat

VARIABLES
  \* the master
  q,        \* the tracker's queue
  cache,    \* per zone: the CFG plane the master holds for it (s_cfg)
  hwCache,  \* per zone: the HW plane (s_hw), shown and never pushed
  hb,       \* per zone: the identities its last heartbeat carried
  fresh,    \* per zone: a heartbeat has come since the last decision (s_fresh)
  turn,     \* the zone the next scan starts at (s_rr_next)
  latch,    \* per zone and plane: the identity that failed terminally (s_latch)
  cooling,  \* per zone: inside the cooldown after a failed transfer
  inbox,    \* per zone: the web write waiting for the tick, 0 if none (s_set_req)
  pushReq,  \* the zone of a manual push request, 0 if none (s_push_req_zone)
  cx,       \* the transfer slot (s_cx, with s_push_wire)
  casm,     \* the master's chunk assembler (s_casm)
  fwd,      \* the forward slot of node_mgr_fwd.c
  \* the wires and the zones
  down, up, \* per zone: frames towards it, frames from it
  cfg,      \* per zone: its live configuration (hg_model's s_cfg)
  hw,       \* per zone: its wiring plane (s_hw)
  nvs,      \* per zone: the configuration in flash
  flushing, \* the zones whose control task waits for the flush of a commit
  zasm,     \* per zone: its chunk assembler
  dup,      \* per zone: the last request executed and its answer
  \* bounds and history
  used,     \* how much of each bound has been used
  edit,     \* history, per edit: where it came from and what its author was told
  had,      \* history, per zone: every configuration that was ever live there
  gone      \* history, per zone: the values it has moved on from

transfer == <<cx, casm>>
memory   == <<latch, cooling>>
inboxes  == <<inbox, pushReq>>
gate     == <<fresh, turn>>
planes   == <<cache, hwCache>>
past     == <<had, gone>>
flash    == <<nvs, flushing>>
zone     == <<cfg, hw, flash, zasm, dup, past>>
vars     == <<q, planes, hb, gate, memory, inboxes, transfer, fwd, down, up, zone, used, edit>>

-----------------------------------------------------------------------------
(* Blobs.  A payload's CRC stands for the payload: blobs with equal CRCs    *)
(* are equal.  A value is the number of the edit that wrote it, 0 the       *)
(* factory defaults; the HW plane carries no generation.                    *)

Zones  == 1 .. ZONES
Edits  == 1 .. MAX_EDIT
Chunks == 1 .. CHUNKS
CFG    == "cfg"
HW     == "hw"
Kinds  == {CFG, HW}

NoBlob      == [gen |-> 0, val |-> -1, src |-> "none"]
Factory     == [gen |-> 0, val |-> 0, src |-> "local"]
FactoryHw   == [gen |-> 0, val |-> 0, src |-> "hw"]
NoIdentity  == [hb |-> NoBlob, cached |-> NoBlob]
NoTransfer  == [state |-> "IDLE", zone |-> 0, kind |-> CFG, attempt |-> 0, seq |-> 0,
                wire |-> NoBlob, id |-> NoIdentity]
NoForward   == [phase |-> "idle", seq |-> 0, zone |-> 0, edit |-> 0]
NoDup       == [seq |-> 0, status |-> "ok"]

(* ring_casm_t: a kind of "none" is an assembler at rest. *)
Empty == [kind |-> "none", gen |-> 0, got |-> [i \in Chunks |-> NoBlob]]

(* ring_casm_feed: another kind or generation restarts the assembly. *)
Fed(a, kind, blob, i) ==
  IF a.kind = kind /\ a.gen = blob.gen
  THEN [a EXCEPT !.got[i] = blob]
  ELSE [kind |-> kind, gen |-> blob.gen, got |-> [Empty.got EXCEPT ![i] = blob]]

(* Mutant: the last chunk is not waited for. *)
CompleteEarly(a) == a.kind # "none" /\ \A i \in Chunks : i < CHUNKS => a.got[i] # NoBlob

Complete(a) == a.kind # "none" /\ \A i \in Chunks : a.got[i] # NoBlob

(* The envelope's CRC holds only over chunks of one and the same blob. *)
Intact(a) == \A i \in Chunks : a.got[i] = a.got[1]

-----------------------------------------------------------------------------

(* At rest, with a part of the bounds spent.                                *)
Rested(spent) ==
  /\ q = <<>>
  /\ cache = [z \in Zones |-> NoBlob]
  /\ hwCache = [z \in Zones |-> NoBlob]
  /\ hb = [z \in Zones |-> [cfg |-> NoBlob, hw |-> NoBlob]]
  /\ fresh = [z \in Zones |-> FALSE]
  /\ turn = 1
  /\ latch = [z \in Zones |-> [k \in Kinds |-> NoIdentity]]
  /\ cooling = [z \in Zones |-> FALSE]
  /\ inbox = [z \in Zones |-> 0]
  /\ pushReq = 0
  /\ cx = NoTransfer
  /\ casm = Empty
  /\ fwd = NoForward
  /\ down = [z \in Zones |-> <<>>]
  /\ up = [z \in Zones |-> <<>>]
  /\ cfg = [z \in Zones |-> Factory]
  /\ hw = [z \in Zones |-> FactoryHw]
  /\ nvs = cfg
  /\ flushing = {}
  /\ zasm = [z \in Zones |-> Empty]
  /\ dup = [z \in Zones |-> NoDup]
  /\ used = spent
  /\ edit = [k \in Edits |-> [by |-> "none", zone |-> 0, told |-> "none"]]
  /\ had = [z \in Zones |-> {Factory}]
  /\ gone = [z \in Zones |-> {}]

Init == Rested([edit |-> 0, fault |-> 0])

-----------------------------------------------------------------------------
(* Submitting a tracked frame *)

SeqsInUse ==
  SeqsOf(q) \cup {cx.seq, fwd.seq} \cup {dup[z].seq : z \in Zones}
    \cup (UNION {{down[z][i].seq : i \in DOMAIN down[z]} : z \in Zones})
    \cup (UNION {{up[z][i].seq : i \in DOMAIN up[z]} : z \in Zones})

FreeSeqs == (1 .. MAX_SEQ) \ SeqsInUse

NextSeq == CHOOSE s \in FreeSeqs : \A t \in FreeSeqs : s <= t

(* The queue has room, and MAX_SEQ leaves a number to take.                 *)
Takes(queue) == ~Full(queue) /\ FreeSeqs # {}

Tracked(z, type, arg) == [seq |-> NextSeq, dst |-> z, type |-> type, att |-> 0, arg |-> arg]

(* CFG_CHUNKs are sent at once and unacknowledged. *)
ChunkFrames(kind, blob) ==
  [i \in Chunks |-> [type |-> "CFG_CHUNK", seq |-> 0, arg |-> [kind |-> kind, idx |-> i, blob |-> blob]]]

-----------------------------------------------------------------------------
(* The transfer slot (node_mgr_cfgx.c) *)

Identity(z, kind) ==
  IF kind = CFG THEN [hb |-> hb[z].cfg, cached |-> cache[z]]
                ELSE [hb |-> hb[z].hw, cached |-> hwCache[z]]

(* A full tracker costs no attempt: the transfer tries again in a second. *)
StartPull(z, kind, attempt, id) ==
  LET slot == [NoTransfer EXCEPT !.zone = z, !.kind = kind, !.attempt = attempt, !.id = id] IN
    \/ /\ Full(q)
       /\ cx' = [slot EXCEPT !.state = "RETRY_PULL"]
       /\ UNCHANGED <<q, casm>>
    \/ /\ Takes(q)
       /\ cx' = [slot EXCEPT !.state = "PULL_ACK", !.seq = NextSeq]
       /\ q' = Submitted(q, Tracked(z, "CFG_GET", kind))
       /\ casm' = Empty

(* Stamp the cached blob, send its chunks, queue the COMMIT behind them. *)
StartPush(z, blob, gen, attempt, id) ==
  LET wire == [blob EXCEPT !.gen = gen, !.src = "master"]
      slot == [NoTransfer EXCEPT !.zone = z, !.attempt = attempt, !.id = id, !.wire = wire]
  IN /\ down' = [down EXCEPT ![z] = @ \o ChunkFrames(CFG, wire)]
     /\ \/ /\ Full(q)
           /\ cx' = [slot EXCEPT !.state = "RETRY_PUSH"]
           /\ UNCHANGED q
        \/ /\ Takes(q)
           /\ cx' = [slot EXCEPT !.state = "PUSH_COMMIT", !.seq = NextSeq]
           /\ q' = Submitted(q, Tracked(z, "CFG_COMMIT", gen))
     /\ UNCHANGED casm

(* Mutant: one try more than the code allows. *)
FailOrRetryOnceMore(terminal) ==
  \/ /\ ~terminal
     /\ cx.attempt <= CX_ATTEMPTS
     /\ cx' = [cx EXCEPT !.attempt = @ + 1, !.seq = 0,
                         !.state = IF @ = "PUSH_COMMIT" THEN "RETRY_PUSH" ELSE "RETRY_PULL"]
     /\ UNCHANGED <<casm, memory>>
  \/ /\ terminal \/ cx.attempt > CX_ATTEMPTS
     /\ cx' = NoTransfer
     /\ casm' = Empty
     /\ UNCHANGED memory

(* fail_or_retry, with finish_failed and nmgr_cfg_note_failed. *)
FailOrRetry(terminal) ==
  \/ /\ ~terminal
     /\ cx.attempt < CX_ATTEMPTS
     /\ cx' = [cx EXCEPT !.attempt = @ + 1, !.seq = 0,
                         !.state = IF @ = "PUSH_COMMIT" THEN "RETRY_PUSH" ELSE "RETRY_PULL"]
     /\ UNCHANGED <<casm, memory>>
  \/ /\ terminal \/ cx.attempt >= CX_ATTEMPTS
     /\ cx' = NoTransfer
     /\ casm' = Empty
     /\ IF terminal
        THEN latch' = [latch EXCEPT ![cx.zone][cx.kind] = cx.id] /\ UNCHANGED cooling
        ELSE cooling' = [cooling EXCEPT ![cx.zone] = TRUE] /\ UNCHANGED latch

(* nmgr_cfg_note_synced, and the slot released *)
Synced ==
  /\ latch' = [latch EXCEPT ![cx.zone][cx.kind] = NoIdentity]
  /\ cx' = NoTransfer
  /\ UNCHANGED cooling

AcceptPush ==
  /\ cache' = [cache EXCEPT ![cx.zone] = cx.wire]
  /\ Synced
  /\ UNCHANGED <<hwCache, casm>>

(* A completed assembly of the pull in progress, intact or not. *)
AcceptPull(a) ==
  \/ /\ Intact(a) /\ a.kind = cx.kind
     /\ IF cx.kind = CFG
        THEN cache' = [cache EXCEPT ![cx.zone] = a.got[1]] /\ UNCHANGED hwCache
        ELSE hwCache' = [hwCache EXCEPT ![cx.zone] = a.got[1]] /\ UNCHANGED cache
     /\ Synced
     /\ casm' = Empty
  \/ /\ ~(Intact(a) /\ a.kind = cx.kind)
     /\ FailOrRetry(FALSE)
     /\ UNCHANGED planes

(* nmgr_cfg_on_ev: "timeout" is any failure the tracker itself reports. *)
OnTransferEvent(status) ==
  \/ /\ cx.state = "PULL_ACK"
     /\ IF status = "ok"
        THEN cx' = [cx EXCEPT !.state = "PULL_STREAM", !.seq = 0] /\ UNCHANGED <<casm, memory>>
        ELSE FailOrRetry(FALSE)
     /\ UNCHANGED planes
  \/ /\ cx.state = "PUSH_COMMIT"
     /\ \/ status = "ok" /\ AcceptPush
        \/ /\ status # "ok"
           /\ FailOrRetry(status \in {"version", "invalid"})
           /\ UNCHANGED planes

-----------------------------------------------------------------------------
(* Forwarded SETs (node_mgr_fwd.c) and what they do to the cache *)

NewEdit(z, by, told) ==
  /\ used.edit < MAX_EDIT
  /\ used' = [used EXCEPT !.edit = @ + 1]
  /\ edit' = [edit EXCEPT ![used.edit + 1] = [by |-> by, zone |-> z, told |-> told]]

Fault ==
  /\ used.fault < MAX_FAULT
  /\ used' = [used EXCEPT !.fault = @ + 1]

Tell(k, what) == edit' = [edit EXCEPT ![k].told = what]

(* do_forward up to nmgr_submit; the slot is not armed yet. *)
Forward(z) ==
  /\ fwd = NoForward
  /\ \/ /\ Full(q)
        /\ NewEdit(z, "fwd", "busy")
        /\ UNCHANGED <<q, fwd>>
     \/ /\ Takes(q)
        /\ NewEdit(z, "fwd", "none")
        /\ q' = Submitted(q, Tracked(z, "CMD", used.edit + 1))
        /\ fwd' = [phase |-> "submitted", seq |-> NextSeq, zone |-> z, edit |-> used.edit + 1]
  /\ UNCHANGED <<planes, hb, gate, memory, inboxes, transfer, down, up, zone>>

ArmForward ==
  /\ fwd.phase = "submitted"
  /\ fwd' = [fwd EXCEPT !.phase = "waiting"]
  /\ UNCHANGED <<q, planes, hb, gate, memory, inboxes, transfer, down, up, zone, used, edit>>

(* The caller gives up; the frame stays where it is. *)
ForwardTimeout ==
  /\ fwd.phase = "waiting"
  /\ fwd' = NoForward
  /\ Tell(fwd.edit, "timeout")
  /\ UNCHANGED <<q, planes, hb, gate, memory, inboxes, transfer, down, up, zone, used>>

(* Mutant: an abort frees the slot and leaves the frame in the queue. *)
WithdrawnNot(queue, z) == queue

(* nmgr_cx_abort: withdraw the frame if it is still queued, free the slot. *)
Withdrawn(queue, z) ==
  IF cx.zone = z /\ cx.state \in {"PULL_ACK", "PUSH_COMMIT"} /\ Cancellable(queue, cx.seq)
  THEN Cancelled(queue, cx.seq)
  ELSE queue

(* nmgr_cfg_invalidate, on top of a queue that has just lost its head. *)
Invalidate(z, queue) ==
  /\ cache' = [cache EXCEPT ![z] = NoBlob]
  /\ hwCache' = [hwCache EXCEPT ![z] = NoBlob]
  /\ latch' = [latch EXCEPT ![z] = [k \in Kinds |-> NoIdentity]]
  /\ cooling' = [cooling EXCEPT ![z] = FALSE]
  /\ q' = Withdrawn(queue, z)
  /\ IF cx.zone = z THEN cx' = NoTransfer /\ casm' = Empty ELSE UNCHANGED transfer

(* nmgr_fwd_on_ev: an OK to a SET makes the zone's own copy the true one. *)
OnForwardEvent(status) ==
  /\ fwd' = NoForward
  /\ Tell(fwd.edit, status)
  /\ IF status = "ok"
     THEN Invalidate(fwd.zone, Tail(q))
     ELSE q' = Tail(q) /\ UNCHANGED <<planes, memory, transfer>>

(* route_trk_ev: the head of the queue has been answered, or has failed. *)
Settle(status) ==
  \/ /\ cx.seq = q[1].seq
     /\ OnTransferEvent(status)
     /\ q' = Tail(q)
     /\ UNCHANGED <<fwd, edit>>
  \/ /\ fwd.phase = "waiting" /\ fwd.seq = q[1].seq
     /\ OnForwardEvent(status)
  \/ /\ cx.seq # q[1].seq
     /\ ~(fwd.phase = "waiting" /\ fwd.seq = q[1].seq)
     /\ q' = Tail(q)
     /\ UNCHANGED <<planes, memory, transfer, fwd, edit>>

-----------------------------------------------------------------------------
(* The node_mgr loop *)

Early(early) == IF early THEN Fault ELSE UNCHANGED used

(* The head, or its answer, is still under way: the zone is slow. *)
UnderWay ==
  \E f \in ToSet(down[q[1].dst]) \cup ToSet(up[q[1].dst]) : f.seq = q[1].seq

(* ring_trk_tick: the first transmission of the head, and the repeats. *)
SendHead ==
  /\ q # <<>>
  /\ q[1].att < MAX_ATTEMPTS
  /\ Early(UnderWay)
  /\ q' = Sent(q)
  /\ down' = [down EXCEPT ![q[1].dst] =
                Append(@, [type |-> q[1].type, seq |-> q[1].seq, arg |-> q[1].arg])]
  /\ UNCHANGED <<planes, hb, gate, memory, inboxes, transfer, fwd, up, zone, edit>>

GiveUp ==
  /\ InFlight(q)
  /\ q[1].att >= MAX_ATTEMPTS
  /\ Early(UnderWay)
  /\ Settle("timeout")
  /\ UNCHANGED <<hb, gate, inboxes, down, up, zone>>

MasterTakes(z, type) ==
  /\ up[z] # <<>>
  /\ Head(up[z]).type = type
  /\ up' = [up EXCEPT ![z] = Tail(@)]

OnAck(z) ==
  /\ MasterTakes(z, "ACK")
  /\ LET f == Head(up[z]) IN
       \/ AckMatches(q, f.seq) /\ Settle(f.status)
       \/ ~AckMatches(q, f.seq) /\ UNCHANGED <<q, planes, memory, transfer, fwd, edit>>
  /\ UNCHANGED <<hb, gate, inboxes, down, zone, used>>

(* nmgr_cfg_on_chunk.  The assembler was emptied when the GET was queued and *)
(* a stream is one burst, so its idle test finds nothing stale to drop here. *)
OnChunk(z) ==
  /\ MasterTakes(z, "CFG_CHUNK")
  /\ \/ /\ cx.state = "PULL_STREAM" /\ cx.zone = z
        /\ LET f   == Head(up[z]).arg
               fed == Fed(casm, f.kind, f.blob, f.idx)
           IN \/ Complete(fed) /\ AcceptPull(fed)
              \/ ~Complete(fed) /\ casm' = fed /\ UNCHANGED <<cx, memory, planes>>
     \/ /\ ~(cx.state = "PULL_STREAM" /\ cx.zone = z)
        /\ UNCHANGED <<transfer, memory, planes>>
  /\ UNCHANGED <<q, hb, gate, inboxes, fwd, down, zone, used, edit>>

OnHeartbeat(z) ==
  /\ MasterTakes(z, "HEARTBEAT")
  /\ hb' = [hb EXCEPT ![z] = Head(up[z]).arg]
  /\ fresh' = [fresh EXCEPT ![z] = TRUE]
  /\ UNCHANGED <<q, planes, turn, memory, inboxes, transfer, fwd, down, zone, used, edit>>

-----------------------------------------------------------------------------
(* nmgr_cfg_tick_1s.  Every tick takes the manual push request with it,     *)
(* whether or not it gets to serve it.                                      *)

Larger(a, b) == IF a > b THEN a ELSE b

(* Mutant: a push reuses the larger generation. *)
PushGenSame(z) == Larger(hb[z].cfg.gen, cache[z].gen)

PushGen(z) == Larger(hb[z].cfg.gen, cache[z].gen) + 1

Latched(z, kind) == latch[z][kind] # NoIdentity /\ latch[z][kind] = Identity(z, kind)

(* Mutant: the master adopts a configuration newer than its own. *)
DecisionAdopts(z) ==
  IF (cache[z] = NoBlob \/ hb[z].cfg.gen > cache[z].gen) /\ ~Latched(z, CFG) THEN "pull cfg"
  ELSE IF hwCache[z] # hb[z].hw /\ ~Latched(z, HW) THEN "pull hw"
  ELSE IF cache[z] # NoBlob /\ cache[z] # hb[z].cfg /\ ~Latched(z, CFG) THEN "push"
  ELSE "none"

(* try_start *)
Decision(z) ==
  IF cache[z] = NoBlob /\ ~Latched(z, CFG) THEN "pull cfg"
  ELSE IF hwCache[z] # hb[z].hw /\ ~Latched(z, HW) THEN "pull hw"
  ELSE IF cache[z] # NoBlob /\ cache[z] # hb[z].cfg /\ ~Latched(z, CFG) THEN "push"
  ELSE "none"

Start(z) ==
  \/ /\ Decision(z) = "pull cfg"
     /\ StartPull(z, CFG, 1, Identity(z, CFG))
     /\ UNCHANGED <<down, edit>>
  \/ /\ Decision(z) = "pull hw"
     /\ StartPull(z, HW, 1, Identity(z, HW))
     /\ UNCHANGED <<down, edit>>
  \/ /\ Decision(z) = "push"
     /\ StartPush(z, cache[z], PushGen(z), 1, Identity(z, CFG))
     /\ IF hb[z].cfg.gen >= cache[z].gen /\ hb[z].cfg.val \in Edits
        THEN Tell(hb[z].cfg.val, "reverted")   \* CFG_REVERTED or CFG_FORK
        ELSE UNCHANGED edit

(* The round-robin scan: zones are looked at from "turn" on until one       *)
(* starts a transfer; each one looked at has used up its heartbeat.         *)
Scan(absent) ==
  LET At(i)    == ((turn - 1 + i) % ZONES) + 1
      Asked(z) == fresh[z] /\ z \notin absent /\ ~cooling[z]
      starts   == {i \in 0 .. ZONES - 1 : Asked(At(i)) /\ Decision(At(i)) # "none"}
      last     == IF starts = {} THEN ZONES - 1
                  ELSE CHOOSE i \in starts : \A j \in starts : i <= j
      asked    == {i \in 0 .. last : Asked(At(i))}
  IN /\ fresh' = [z \in Zones |-> fresh[z] /\ z \notin {At(i) : i \in 0 .. last}]
     /\ turn' = IF asked = {} THEN turn
                ELSE (At(CHOOSE i \in asked : \A j \in asked : j <= i) % ZONES) + 1
     /\ IF starts = {} THEN UNCHANGED <<q, transfer, down, edit>> ELSE Start(At(last))

(* start_set_req: the cache becomes the operator's payload, then is pushed. *)
TakeWrite(z) ==
  LET blob == [gen |-> PushGen(z), val |-> inbox[z], src |-> "master"] IN
    /\ cache' = [cache EXCEPT ![z] = blob]
    /\ inbox' = [inbox EXCEPT ![z] = 0]
    /\ cooling' = [cooling EXCEPT ![z] = FALSE]
    /\ StartPush(z, blob, blob.gen, 1, [hb |-> hb[z].cfg, cached |-> blob])
    /\ UNCHANGED <<gate, latch, edit>>

Decide(absent) ==
  /\ cx.state = "IDLE"
  /\ \/ \E z \in Zones :
          /\ inbox[z] # 0
          /\ \A y \in 1 .. z - 1 : inbox[y] = 0
          /\ TakeWrite(z)
     \/ /\ inbox = [z \in Zones |-> 0]
        /\ \/ /\ pushReq # 0 /\ cache[pushReq] # NoBlob
              /\ StartPush(pushReq, cache[pushReq], PushGen(pushReq), 1, Identity(pushReq, CFG))
              /\ UNCHANGED <<gate, edit>>
           \/ /\ pushReq # 0 => cache[pushReq] = NoBlob
              /\ Scan(absent)
        /\ UNCHANGED <<cache, inbox, memory>>

Retry ==
  /\ \/ cx.state = "RETRY_PULL" /\ StartPull(cx.zone, cx.kind, cx.attempt, cx.id) /\ UNCHANGED down
     \/ /\ cx.state = "RETRY_PUSH"
        /\ StartPush(cx.zone, cache[cx.zone], cx.wire.gen, cx.attempt, cx.id)
  /\ UNCHANGED <<cache, gate, inbox, memory, edit>>

(* The idle timer of a pull's stream runs from its first chunk on. *)
StreamIdle ==
  /\ cx.state = "PULL_STREAM" /\ casm # Empty
  /\ FailOrRetry(FALSE)
  /\ UNCHANGED <<q, cache, gate, inbox, down, edit>>

Waiting ==
  /\ cx.state # "IDLE" /\ pushReq # 0
  /\ UNCHANGED <<q, cache, gate, memory, inbox, transfer, down, edit>>

OnTheWay(frames, type) == \E f \in ToSet(frames) : f.type = type

(* A transfer that starts over a heartbeat already sent finds itself        *)
(* contradicted by it later and is pushed again: it counts as early.        *)
Tick ==
  /\ \E absent \in SUBSET Zones :
       /\ Decide(absent) \/ (absent = {} /\ (Retry \/ StreamIdle \/ Waiting))
       /\ Early(\/ absent # {}
                \/ cx.state = "PULL_STREAM" /\ OnTheWay(up[cx.zone], "CFG_CHUNK")
                \/ cx.state = "RETRY_PUSH" /\ OnTheWay(down[cx.zone], "CFG_CHUNK")
                \/ cx'.seq # cx.seq /\ cx'.zone # 0 /\ OnTheWay(up[cx'.zone], "HEARTBEAT"))
  /\ pushReq' = 0
  /\ UNCHANGED <<hwCache, hb, fwd, up, zone>>

(* The cooldown runs out.  *)
CoolDown(z) ==
  /\ cooling[z]
  /\ cooling' = [cooling EXCEPT ![z] = FALSE]
  /\ UNCHANGED <<q, planes, hb, gate, latch, inboxes, transfer, fwd, down, up, zone, used, edit>>

-----------------------------------------------------------------------------
(* The web and the operator's console *)

(* node_mgr_cfg_set, for a zone that is ONLINE. *)
WebWrite(z) ==
  /\ ~(cx.state # "IDLE" /\ cx.zone = z)
  /\ inbox[z] = 0
  /\ NewEdit(z, "web", "accepted")
  /\ inbox' = [inbox EXCEPT ![z] = used.edit + 1]
  /\ UNCHANGED <<q, planes, hb, gate, memory, pushReq, transfer, fwd, down, up, zone>>

(* node_mgr_push_cfg *)
ManualPush(z) ==
  /\ cache[z] # NoBlob
  /\ Fault
  /\ pushReq' = z
  /\ UNCHANGED <<q, planes, hb, gate, memory, inbox, transfer, fwd, down, up, zone, edit>>

-----------------------------------------------------------------------------
(* The zone *)

ZoneTakes(z, type) ==
  /\ z \notin flushing
  /\ down[z] # <<>>
  /\ Head(down[z]).type = type
  /\ down' = [down EXCEPT ![z] = Tail(@)]

Ack(s, status) == [type |-> "ACK", seq |-> s, status |-> status]

Goes(z, blob) ==
  /\ cfg' = [cfg EXCEPT ![z] = blob]
  /\ had' = [had EXCEPT ![z] = @ \cup {blob}]
  /\ gone' = [gone EXCEPT ![z] = (@ \cup {cfg[z].val}) \ {blob.val}]

Edited(z, k) == [gen |-> cfg[z].gen + 1, val |-> k, src |-> "local"]

Answer(z, s, status) ==
  /\ up' = [up EXCEPT ![z] = Append(@, Ack(s, status))]
  /\ dup' = [dup EXCEPT ![z] = [seq |-> s, status |-> status]]

(* A repeated CMD or COMMIT is answered from the cache. *)
Replay(z) ==
  /\ \E type \in {"CMD", "CFG_COMMIT"} : ZoneTakes(z, type)
  /\ Head(down[z]).seq = dup[z].seq
  /\ up' = [up EXCEPT ![z] = Append(@, Ack(dup[z].seq, dup[z].status))]
  /\ UNCHANGED <<q, planes, hb, gate, memory, inboxes, transfer, fwd, zone, used, edit>>

(* A forwarded SET: an edit of the zone's own, or refused by validation. *)
RunSet(z) ==
  /\ ZoneTakes(z, "CMD")
  /\ LET f == Head(down[z]) IN
       /\ f.seq # dup[z].seq
       /\ \/ Answer(z, f.seq, "ok") /\ Goes(z, Edited(z, f.arg))
          \/ Answer(z, f.seq, "err") /\ UNCHANGED <<cfg, past>>
  /\ UNCHANGED <<q, planes, hb, gate, memory, inboxes, transfer, fwd, hw, flash, zasm, used, edit>>

ZoneChunk(z) ==
  /\ ZoneTakes(z, "CFG_CHUNK")
  /\ LET f == Head(down[z]).arg IN
       zasm' = [zasm EXCEPT ![z] = Fed(@, f.kind, f.blob, f.idx)]
  /\ UNCHANGED <<q, planes, hb, gate, memory, inboxes, transfer, fwd, up, cfg, hw, flash, dup, past,
                 used, edit>>

(* Two seconds without a chunk: what the assembler holds is dropped when it  *)
(* is next used, which nothing can tell from dropping it at once.            *)
AssemblerAges(z) ==
  /\ zasm[z] # Empty
  /\ Fault
  /\ zasm' = [zasm EXCEPT ![z] = Empty]
  /\ UNCHANGED <<q, planes, hb, gate, memory, inboxes, transfer, fwd, down, up, cfg, hw, flash, dup,
                 past, edit>>

(* Mutant: an equal generation counts as the same configuration. *)
VerdictByGen(a, gen, live) ==
  IF ~Complete(a) \/ a.gen # gen THEN "missing"
  ELSE IF ~Intact(a) THEN "crc"
  ELSE IF gen > live.gen THEN "apply"
  ELSE IF gen = live.gen THEN "ok"
  ELSE "version"

(* The token zone_ring_cfg_commit answers before validation is asked. *)
Verdict(a, gen, live) ==
  IF ~Complete(a) \/ a.gen # gen THEN "missing"
  ELSE IF ~Intact(a) THEN "crc"
  ELSE IF gen > live.gen THEN "apply"
  ELSE IF a.got[1] = live THEN "ok"
  ELSE "version"

(* zone_ring_cfg_commit; whatever the answer, the assembler starts over.  An *)
(* applied configuration is answered first, then the task waits for flash.  *)
Commit(z) ==
  /\ ZoneTakes(z, "CFG_COMMIT")
  /\ LET f == Head(down[z]) IN
       /\ f.seq # dup[z].seq
       /\ LET verdict == Verdict(zasm[z], f.arg, cfg[z]) IN
            \/ /\ verdict # "apply"
               /\ Answer(z, f.seq, verdict)
               /\ UNCHANGED <<cfg, past, flushing, used>>
            \/ /\ verdict = "apply"
               /\ Answer(z, f.seq, "ok")
               /\ Goes(z, zasm[z].got[1])
               /\ flushing' = flushing \cup {z}
               /\ UNCHANGED used
            \/ /\ verdict = "apply"
               /\ Answer(z, f.seq, "invalid")
               /\ Fault
               /\ UNCHANGED <<cfg, past, flushing>>
  /\ zasm' = [zasm EXCEPT ![z] = Empty]
  /\ UNCHANGED <<q, planes, hb, gate, memory, inboxes, transfer, fwd, hw, nvs, edit>>

(* hg_store_flush returns: with the plane in flash, or after its timeout.   *)
Flushed(z) ==
  /\ z \in flushing
  /\ flushing' = flushing \ {z}
  /\ \/ nvs' = [nvs EXCEPT ![z] = cfg[z]] /\ UNCHANGED used
     \/ Fault /\ UNCHANGED nvs
  /\ UNCHANGED <<q, planes, hb, gate, memory, inboxes, transfer, fwd, down, up, cfg, hw, zasm, dup,
                 past, edit>>

(* zone_ring_cfg_get: the ACK, then the live plane in chunks. *)
ConfigGet(z) ==
  /\ ZoneTakes(z, "CFG_GET")
  /\ LET f    == Head(down[z])
         blob == IF f.arg = CFG THEN cfg[z] ELSE hw[z]
     IN up' = [up EXCEPT ![z] = (@ \o <<Ack(f.seq, "ok")>>) \o ChunkFrames(f.arg, blob)]
  /\ UNCHANGED <<q, planes, hb, gate, memory, inboxes, transfer, fwd, zone, used, edit>>

(* send_hb; one heartbeat on the wire stands for all that say the same, and  *)
(* one sent during a transfer with its zone counts as early (see Tick).      *)
Heartbeat(z) ==
  /\ z \notin flushing
  /\ ~OnTheWay(up[z], "HEARTBEAT")
  /\ Early(cx.seq # 0 /\ cx.zone = z)
  /\ up' = [up EXCEPT ![z] =
              Append(@, [type |-> "HEARTBEAT", seq |-> 0, arg |-> [cfg |-> cfg[z], hw |-> hw[z]]])]
  /\ UNCHANGED <<q, planes, hb, gate, memory, inboxes, transfer, fwd, down, zone, edit>>

(* An edit on the zone's own console, of either plane. *)
LocalEdit(z) ==
  /\ NewEdit(z, "local", "ok")
  /\ \/ Goes(z, Edited(z, used.edit + 1)) /\ UNCHANGED hw
     \/ hw' = [hw EXCEPT ![z].val = used.edit + 1] /\ UNCHANGED <<cfg, past>>
  /\ UNCHANGED <<q, planes, hb, gate, memory, inboxes, transfer, fwd, down, up, flash, zasm, dup>>

(* hg_store gets a changed plane into flash some time after the change. *)
Persist(z) ==
  /\ nvs[z] # cfg[z]
  /\ nvs' = [nvs EXCEPT ![z] = cfg[z]]
  /\ UNCHANGED <<q, planes, hb, gate, memory, inboxes, transfer, fwd, down, up, cfg, hw, flushing,
                 zasm, dup, past, used, edit>>

(* A reset: the zone comes back with what flash holds and nothing else;     *)
(* the frames queued for it may be gone as well.                            *)
Reset(z) ==
  /\ Fault
  /\ cfg' = [cfg EXCEPT ![z] = nvs[z]]
  /\ gone' = [gone EXCEPT ![z] = @ \ {nvs[z].val}]
  /\ zasm' = [zasm EXCEPT ![z] = Empty]
  /\ dup' = [dup EXCEPT ![z] = NoDup]
  /\ flushing' = flushing \ {z}
  /\ \E left \in {down[z], <<>>} : down' = [down EXCEPT ![z] = left]
  /\ UNCHANGED <<q, planes, hb, gate, memory, inboxes, transfer, fwd, up, hw, nvs, had, edit>>

Lose(z) ==
  /\ Fault
  /\ \/ down[z] # <<>> /\ down' = [down EXCEPT ![z] = Tail(@)] /\ UNCHANGED up
     \/ up[z] # <<>> /\ up' = [up EXCEPT ![z] = Tail(@)] /\ UNCHANGED down
  /\ UNCHANGED <<q, planes, hb, gate, memory, inboxes, transfer, fwd, zone, edit>>

-----------------------------------------------------------------------------

Master == SendHead \/ GiveUp \/ Tick \/ \E z \in Zones : OnAck(z) \/ OnChunk(z) \/ OnHeartbeat(z)

ZoneTask(z) ==
  \/ Replay(z) \/ RunSet(z) \/ ZoneChunk(z) \/ Commit(z) \/ Flushed(z)
  \/ ConfigGet(z) \/ Heartbeat(z)

Operator == ArmForward \/ ForwardTimeout
              \/ \E z \in Zones : Forward(z) \/ WebWrite(z) \/ ManualPush(z)

Next ==
  \/ Master \/ Operator
  \/ \E z \in Zones :
       ZoneTask(z) \/ LocalEdit(z) \/ Persist(z) \/ Reset(z) \/ Lose(z) \/ CoolDown(z)
         \/ AssemblerAges(z)

Spec == Init /\ [][Next]_vars

(* The loops of both sides run at fixed priorities, heartbeats keep coming, *)
(* a cooldown ends.  A heartbeat crosses the ring in milliseconds and comes *)
(* every few seconds, so the tick is not kept from its work by one always   *)
(* being under way: its fairness is strong.  Edits, losses, resets and      *)
(* early timers are nobody's duty, and every one of them is bounded.        *)
FairSpec ==
  /\ Spec
  /\ WF_vars(SendHead \/ GiveUp) /\ SF_vars(Tick) /\ WF_vars(ArmForward) /\ WF_vars(ForwardTimeout)
  /\ \A z \in Zones :
       /\ WF_vars(OnAck(z) \/ OnChunk(z) \/ OnHeartbeat(z))
       /\ WF_vars(Replay(z) \/ RunSet(z) \/ ZoneChunk(z) \/ Commit(z) \/ Flushed(z) \/ ConfigGet(z))
       /\ WF_vars(Heartbeat(z))
       /\ WF_vars(CoolDown(z))

-----------------------------------------------------------------------------
(* Properties *)

Blob    == [gen : Nat, val : {-1} \cup 0 .. MAX_EDIT, src : {"none", "local", "master", "hw"}]
CxState == {"IDLE", "PULL_ACK", "PULL_STREAM", "PUSH_COMMIT", "RETRY_PULL", "RETRY_PUSH"}

(* The slot, the latches and the assemblers hold what their code assumes:   *)
(* never more than CX_ATTEMPTS tries, an owner whenever the slot is taken,  *)
(* a sequence number exactly while the tracker holds the slot's frame.      *)
TypeOK ==
  /\ Len(q) <= RING_TRK_DEPTH
  /\ cx.state \in CxState
  /\ cx.state # "IDLE" => cx.zone \in Zones /\ cx.attempt \in 1 .. CX_ATTEMPTS
  /\ cx.state = "IDLE" => cx = NoTransfer
  /\ cx.state \in {"PULL_ACK", "PUSH_COMMIT"} <=> cx.seq # 0
  /\ cx.seq # 0 => cx.seq \in SeqsOf(q)
  /\ cache \in [Zones -> Blob] /\ hwCache \in [Zones -> Blob]
  /\ cfg \in [Zones -> Blob] /\ nvs \in [Zones -> Blob]
  /\ flushing \subseteq Zones
  /\ turn \in Zones /\ inbox \in [Zones -> 0 .. MAX_EDIT]

(* A forwarded SET the operator was told OK for is never undone by the      *)
(* reconciler: no commit puts back a configuration the zone has already     *)
(* moved on from (the revert race of nmgr_fwd_on_ev and nmgr_cx_abort).     *)
NoRevert ==
  [][\A z \in Zones : \A k \in Edits :
       Commit(z) /\ edit[k].by = "fwd" /\ edit[k].told = "ok" /\ cfg[z].val = k
         => cfg'[z].val \notin gone[z]]_vars

(* What the master caches for a zone is byte for byte a configuration that  *)
(* was live there, or a web write it has yet to deliver.                    *)
CacheIsGenuine ==
  \A z \in Zones : cache[z] # NoBlob =>
    \/ cache[z] \in had[z]
    \/ cache[z].val \in Edits /\ edit[cache[z].val].by = "web"

Holds(z, k) == inbox[z] = k \/ cache[z].val = k

(* A web write the operator was told is accepted stays with the master      *)
(* until the zone has run it; only a later write, or an OK to a forwarded   *)
(* SET, may take its place (start_set_req, nmgr_cfg_invalidate).            *)
WriteKept ==
  [][\A z \in Zones : \A k \in Edits :
       edit[k].by = "web" /\ Holds(z, k) /\ ~Holds(z, k)'
         => \/ \E b \in had[z] : b.val = k
            \/ cache'[z].val > k
            \/ \E j \in Edits : edit[j].told # "ok" /\ edit'[j].told = "ok"]_vars

(* The claim of node_mgr_cfg_api.c: an accepted edit is never dropped.      *)
WriteNeverLost ==
  \A k \in Edits : edit[k].by = "web" =>
    LET z == edit[k].zone IN
      \/ Holds(z, k)
      \/ \E b \in had[z] : b.val = k
      \/ \E j \in Edits : j > k /\ edit[j].by = "web"

(* The claim of the design document, section 4.4: an edit typed at a zone   *)
(* is never discarded without its operator being told.                      *)
NeverSilent ==
  [][\A z \in Zones : \A k \in Edits :
       Commit(z) /\ edit[k].by = "local" /\ cfg[z].val = k /\ cfg'[z].val # k
         => edit[k].told = "reverted"]_vars

(* The claim of the design document, section 2.9: a pull's stream that goes *)
(* quiet is aborted.                                                        *)
PullEnds == cx.state = "PULL_STREAM" ~> cx.state # "PULL_STREAM"

InSync(z) == cache[z] = cfg[z] /\ hwCache[z] = hw[z]

Agreed == \A z \in Zones : InSync(z) \/ (used.fault > 0 /\ latch[z][CFG] = Identity(z, CFG))
Starved == cx.state = "PULL_STREAM" /\ casm = Empty

(* Once nothing is edited or lost any more, every zone ends up with the     *)
(* configuration the master holds.  Two things can prevent it: the zone     *)
(* refuses exactly this pair of configurations, which takes a fault, or a   *)
(* pull waits for a stream none of whose chunks came (see PullEnds).        *)
Settles == <>[]Agreed \/ <>[]Starved
=============================================================================
