------------------------------ MODULE FleetOta ------------------------------
(***************************************************************************)
(* Updating the zones: the sequencer's glue on the master                  *)
(* (node_mgr_fleet.c), its interlock with firmware installs, and a zone's  *)
(* way through an update: the FW_UPDATE handler (zone_ring.c), the          *)
(* bootloader, rescue's pull (rescue/main) and the trial of the new image   *)
(* (ota_trial.c).                                                          *)
(*                                                                         *)
(* The tracker is what RingCmd makes of it: a request reaches its zone     *)
(* once or more, or never, and ends in its ACK or in one failure.  There    *)
(* is no clock: the 180 s deadline, the trial's windows and the 60 s of     *)
(* uptime pass at any time.                                                *)
(***************************************************************************)
EXTENDS ZoneFw, FleetSeq

CONSTANTS
  Factory,      \* the image the zones run at first
  Deaf,         \* images that run and send, but do not hear the master
  PULLS,        \* attempts of one pull (3 in rescue's app_main)
  MAX_RUN,      \* bound: fleet runs
  MAX_INSTALL,  \* bound: installs
  MAX_FAULT     \* bound: resets, and flash records that fail to be written

ASSUME FleetOtaAssumption ==
  /\ Factory \in Images \ Deaf
  /\ Deaf \subseteq Images
  /\ PULLS \in Nat \ {0}
  /\ {MAX_RUN, MAX_INSTALL, MAX_FAULT} \subseteq Nat

VARIABLES
  fleet,    \* s_fleet
  snap,     \* the node_mgr task inside a tick: what it read before the lock
  node,     \* per zone: the heartbeat in the node table
  submits,  \* FW_UPDATEs submitted so far; their sequence numbers
  down,     \* per zone: FW_UPDATEs on the way to it or in its queue
  up,       \* per zone: the frame on its way to the master
  zn,       \* per zone: the board
  used      \* how much of each bound has been used

vars == <<fwVars, fleet, snap, node, submits, down, up, zn, used>>

DOWN_MAX == 2   \* bound: copies of requests one zone has queued

NoSnap == [on |-> FALSE, ok |-> FALSE, online |-> FALSE, fw |-> Blank, low |-> FALSE,
           fresh |-> FALSE]
NoMsg  == [kind |-> "none"]

(* A zone: the app slots and their OTA states, the selected one, the two    *)
(* NVS records, what its processor is doing, and (history) the request that *)
(* sent it to rescue.                                                       *)
Board == [mode |-> "app", slot |-> <<Factory, Blank>>, ota |-> <<"valid", "bad">>, boot |-> 1,
          trial |-> "off", crumb |-> FALSE, hando |-> FALSE, tries |-> 0, left |-> 0, low |-> FALSE]

Other(s)   == 3 - s
Running(r) == r.slot[r.boot]

Init ==
  /\ FwInit
  /\ fleet = Idle
  /\ snap = NoSnap
  /\ node = [z \in Zones |-> [fw |-> Factory, low |-> FALSE, fresh |-> FALSE]]
  /\ submits = 0
  /\ down = [z \in Zones |-> <<>>]
  /\ up = [z \in Zones |-> NoMsg]
  /\ zn = [z \in Zones |-> Board]
  /\ used = [run |-> 0, install |-> 0, fault |-> 0]

Becomes(z, r)  == zn' = [zn EXCEPT ![z] = r]
Use(what, max) == used[what] < max /\ used' = [used EXCEPT ![what] = @ + 1]

master == <<fleet, snap, node, submits>>
wires  == <<down, up>>

-----------------------------------------------------------------------------
(* Starting and stopping a run: the console, the web and the panel.         *)

(* Mutant: the starters do not look at the install claim. *)
MayStartAnyway == ~fleet.active

(* node_mgr_fw_zone, node_mgr_fw_all: under the fleet's lock. *)
MayStart == ~busy /\ ~fleet.active

ZoneLists == {<<z>> : z \in Zones} \cup {[i \in Zones |-> i]}

Start(zs) ==
  /\ MayStart
  /\ Use("run", MAX_RUN)
  /\ fleet' = FleetStart(zs)
  /\ UNCHANGED <<fwVars, snap, node, submits, wires, zn>>

Abort ==
  /\ fleet.active
  /\ fleet' = FleetCancel(fleet)
  /\ UNCHANGED <<fwVars, snap, node, submits, wires, zn, used>>

-----------------------------------------------------------------------------
(* The tick, on the node_mgr task: it reads the zone, the image and the     *)
(* node table, and judges afterwards, with the fleet as it is by then.      *)

(* While an ACK is awaited the tick concludes nothing, whatever it read.    *)
(* A zone may be out of the table, or in it and not online.                 *)
TickReads ==
  /\ ~snap.on
  /\ fleet.active /\ fleet.st # "WAIT_ACK"
  /\ \E assigned, online \in BOOLEAN :
       /\ online => assigned
       /\ LET n == node[CurZone(fleet)] IN
          snap' = [on |-> TRUE, ok |-> ImageOk, online |-> online, fw |-> n.fw, low |-> n.low,
                   fresh |-> assigned /\ n.fresh]
  /\ UNCHANGED <<fwVars, fleet, node, submits, wires, zn, used>>

(* do_start: submitted, or the tracker had no room. *)
TickStarts ==
  /\ snap.on /\ Verdict(fleet, snap) = "start"
  /\ snap' = NoSnap
  /\ LET z == CurZone(fleet) IN
     \/ /\ submits' = submits + 1
        /\ fleet' = NoteSubmitted(fleet, TRUE, submits', node[z].fw)
        /\ Len(down[z]) < DOWN_MAX
        /\ down' = [down EXCEPT ![z] = Append(@, submits')]
     \/ /\ fleet' = NoteSubmitted(fleet, FALSE, 0, node[z].fw)
        /\ UNCHANGED <<submits, down>>
  /\ UNCHANGED <<fwVars, node, up, zn, used>>

TickEnds ==
  /\ snap.on /\ Verdict(fleet, snap) # "start"
  /\ snap' = NoSnap
  /\ fleet' = CASE Verdict(fleet, snap) = "done"   -> Advance(fleet, FALSE)
                [] Verdict(fleet, snap) = "failed" -> Advance(fleet, TRUE)
                [] OTHER                           -> fleet
  /\ UNCHANGED <<fwVars, node, submits, wires, zn, used>>

DeadlinePasses ==
  /\ fleet.active /\ fleet.st = "WAIT_HB" /\ ~fleet.late
  /\ fleet' = [fleet EXCEPT !.late = TRUE]
  /\ UNCHANGED <<fwVars, snap, node, submits, wires, zn, used>>

(* The tracker, which holds at most the last request submitted: another     *)
(* copy, or the end of its patience (or the frame came back unclaimed).     *)
Pending == submits > 0 /\ AckIsMine(fleet, submits)

Retransmit ==
  /\ Pending
  /\ LET z == CurZone(fleet) IN
     /\ Len(down[z]) < DOWN_MAX
     /\ zn[z].mode \in {"app", "leaving"}
     /\ down' = [down EXCEPT ![z] = Append(@, fleet.seq)]
  /\ UNCHANGED <<fwVars, master, up, zn, used>>

TrackerFails ==
  /\ Pending
  /\ fleet' = OnAck(fleet, FALSE)
  /\ UNCHANGED <<fwVars, snap, node, submits, wires, zn, used>>

(* A frame from a zone, on the node_mgr task: a heartbeat, or an ACK.  The  *)
(* ACK's time is what later heartbeats are compared with.                   *)
Receive(z) ==
  /\ ~snap.on
  /\ up[z] # NoMsg
  /\ up' = [up EXCEPT ![z] = NoMsg]
  /\ \/ /\ up[z].kind = "hb"
        /\ node' = [node EXCEPT ![z] = [fw |-> up[z].fw, low |-> up[z].low, fresh |-> TRUE]]
        /\ fleet' = fleet
     \/ /\ up[z].kind = "ack" /\ AckIsMine(fleet, up[z].seq)
        /\ fleet' = OnAck(fleet, up[z].ok)
        /\ node' = [node EXCEPT ![z].fresh = FALSE]
     \/ /\ up[z].kind = "ack" /\ ~AckIsMine(fleet, up[z].seq)
        /\ UNCHANGED <<fleet, node>>
  /\ UNCHANGED <<fwVars, snap, submits, down, zn, used>>

Lose(z) ==
  /\ \/ up[z] # NoMsg /\ up' = [up EXCEPT ![z] = NoMsg] /\ down' = down
     \/ down[z] # <<>> /\ down' = [down EXCEPT ![z] = Tail(@)] /\ up' = up
  /\ UNCHANGED <<fwVars, master, zn, used>>

-----------------------------------------------------------------------------
(* The zone's boot.                                                         *)

(* The bootloader: an image still on trial is retired, a new one begins its *)
(* trial.                                                                   *)
Selected(r) ==
  CASE r.ota[r.boot] = "pending" -> [r EXCEPT !.ota[r.boot] = "bad", !.boot = Other(@)]
    [] r.ota[r.boot] = "new"     -> [r EXCEPT !.ota[r.boot] = "pending"]
    [] OTHER                     -> r

Booted(r) == [Selected(r) EXCEPT !.mode = "boot", !.low = TRUE, !.trial = "off", !.tries = 0,
                              !.left = 0]

(* The RTC flag was set: rescue, which consumes the handover record.        *)
Rescued(r) ==
  [Selected(r) EXCEPT !.mode = IF r.hando THEN "rescue" ELSE "manual", !.hando = FALSE,
                      !.tries = IF r.hando THEN PULLS ELSE 0, !.trial = "off", !.low = FALSE]

(* A reset of the zone at any point, the queue in its RAM lost with it. *)
Reset(z) ==
  /\ Use("fault", MAX_FAULT)
  /\ Becomes(z, Booted(zn[z]))
  /\ down' = [down EXCEPT ![z] = <<>>]
  /\ UNCHANGED <<fwVars, master, up>>

(* ota_trial_start, before the ring is up: the breadcrumb is read and       *)
(* erased, and says which criteria apply.  A boot outlasts any frame's way   *)
(* round the ring.                                                          *)
TrialStart(z) ==
  /\ zn[z].mode = "boot"
  /\ up[z] = NoMsg
  /\ LET r == zn[z] IN
     Becomes(z, IF r.ota[r.boot] = "pending"
                THEN [r EXCEPT !.mode = "app", !.crumb = FALSE,
                               !.trial = IF r.crumb THEN "fleet" ELSE "bench"]
                ELSE [r EXCEPT !.mode = "app"])
  /\ UNCHANGED <<fwVars, master, wires, used>>

TrialPasses(z) ==
  /\ zn[z].mode = "app"
  /\ \/ zn[z].trial = "fleet" /\ Running(zn[z]) \notin Deaf
     \/ zn[z].trial = "bench"
  /\ Becomes(z, [zn[z] EXCEPT !.ota[zn[z].boot] = "valid", !.trial = "off"])
  /\ UNCHANGED <<fwVars, master, wires, used>>

(* Roll back and reboot, as the bootloader does with an image on trial. *)
TrialFails(z) ==
  /\ zn[z].mode = "app" /\ zn[z].trial = "fleet"
  /\ Becomes(z, Booted(zn[z]))
  /\ down' = [down EXCEPT ![z] = <<>>]
  /\ UNCHANGED <<fwVars, master, up, used>>

MinutePasses(z) ==
  /\ zn[z].mode = "app" /\ zn[z].low
  /\ Becomes(z, [zn[z] EXCEPT !.low = FALSE])
  /\ UNCHANGED <<fwVars, master, wires, used>>

Heartbeat(z) ==
  /\ zn[z].mode = "app"
  /\ up[z] = NoMsg
  /\ up' = [up EXCEPT ![z] = [kind |-> "hb", fw |-> Running(zn[z]), low |-> zn[z].low]]
  /\ UNCHANGED <<fwVars, master, down, zn, used>>

-----------------------------------------------------------------------------
(* The zone's update.                                                       *)

(* handle_fw_update: handover record, ACK, then the reboot delay, in which  *)
(* this task sends no heartbeat.                                            *)
HandleUpdate(z) ==
  /\ zn[z].mode = "app"
  /\ down[z] # <<>>
  /\ up[z] = NoMsg
  /\ down' = [down EXCEPT ![z] = Tail(@)]
  /\ \/ /\ Becomes(z, [zn[z] EXCEPT !.hando = TRUE, !.mode = "leaving",
                                      !.left = Head(down[z])])
        /\ up' = [up EXCEPT ![z] = [kind |-> "ack", seq |-> Head(down[z]), ok |-> TRUE]]
        /\ used' = used
     \/ /\ Use("fault", MAX_FAULT)
        /\ up' = [up EXCEPT ![z] = [kind |-> "ack", seq |-> Head(down[z]), ok |-> FALSE]]
        /\ zn' = zn
  /\ UNCHANGED <<fwVars, master>>

RebootToRescue(z) ==
  /\ zn[z].mode = "leaving"
  /\ Becomes(z, Rescued(zn[z]))
  /\ down' = [down EXCEPT ![z] = <<>>]
  /\ UNCHANGED <<fwVars, master, up, used>>

(* Mutant: always the first slot. *)
FirstSlotOf(r) == 1

(* rescue_target_slot: not the one the board would boot. *)
TargetSlot(r) == Other(r.boot)

(* One attempt less; after the last one rescue waits for an operator.       *)
Failed(r) == [r EXCEPT !.tries = @ - 1, !.mode = IF r.tries = 1 THEN "manual" ELSE "rescue"]

PullStarts(z) ==
  /\ zn[z].mode = "rescue"
  /\ StreamStart(z)
  /\ Becomes(z, [zn[z] EXCEPT !.mode = "pull", !.slot[TargetSlot(zn[z])] = Blank])
  /\ UNCHANGED <<master, wires, used>>

(* No Wi-Fi, no answer, 404, or the transfer broke off. *)
PullFails(z) ==
  /\ zn[z].mode \in {"rescue", "pull"}
  /\ Becomes(z, Failed(zn[z]))
  /\ UNCHANGED <<fwVars, master, wires, used>>

(* All of it arrived: esp_ota_end accepts it only whole, and the board will *)
(* boot it.  It takes longer than the tracker's patience with the request.  *)
PullCompletes(z) ==
  /\ zn[z].mode = "pull" /\ stream.to = z
  /\ ~AckIsMine(fleet, zn[z].left)
  /\ StreamEnd
  /\ LET r   == zn[z]
         dst == TargetSlot(r)
     IN Becomes(z, IF body \in Images /\ body = stream.img
                   THEN [r EXCEPT !.slot[dst] = body, !.ota[dst] = "new", !.boot = dst,
                                  !.mode = "pulled"]
                   ELSE Failed(r))
  /\ UNCHANGED <<master, wires, used>>

(* hg_trial_write, then the restart. *)
WriteBreadcrumb(z) ==
  /\ zn[z].mode = "pulled"
  /\ Becomes(z, Booted([zn[z] EXCEPT !.crumb = TRUE]))
  /\ UNCHANGED <<fwVars, master, wires, used>>

-----------------------------------------------------------------------------
(* Installs, and resets of the master.                                      *)

InstallStart(i) ==
  /\ Use("install", MAX_INSTALL)
  /\ \E kind \in {"zone", "master"}, img \in Images : Claim(i, kind, img)
  /\ UNCHANGED <<master, wires, zn>>

InstallGoesOn(i) ==
  /\ PassGuards(i, ~fleet.active) \/ FailGuards(i) \/ InstallStep(i)
  /\ UNCHANGED <<master, wires, zn, used>>

StreamBreaks ==
  /\ StreamEnd
  /\ UNCHANGED <<master, wires, zn, used>>

(* The node table is RAM: the zones are known again by their heartbeats.    *)
MasterReset ==
  /\ Use("fault", MAX_FAULT)
  /\ FwReset
  /\ fleet' = Idle
  /\ snap' = NoSnap
  /\ node' = [z \in Zones |-> [fw |-> Blank, low |-> TRUE, fresh |-> FALSE]]
  /\ up' = [z \in Zones |-> NoMsg]
  /\ UNCHANGED <<submits, down, zn>>

Next ==
  \/ \E zs \in ZoneLists : Start(zs)
  \/ Abort \/ TickReads \/ TickStarts \/ TickEnds \/ DeadlinePasses
  \/ Retransmit \/ TrackerFails \/ StreamBreaks \/ MasterReset
  \/ \E i \in Installers : InstallStart(i) \/ InstallGoesOn(i)
  \/ \E z \in Zones :
       \/ Receive(z) \/ Lose(z) \/ Reset(z) \/ TrialStart(z) \/ TrialPasses(z) \/ TrialFails(z)
       \/ MinutePasses(z) \/ Heartbeat(z) \/ HandleUpdate(z) \/ RebootToRescue(z)
       \/ PullStarts(z) \/ PullFails(z) \/ PullCompletes(z) \/ WriteBreadcrumb(z)

Spec == Init /\ [][Next]_vars

(* The node_mgr task ticks every second, time passes, and the tracker ends  *)
(* every request it accepted (RingCmd's EventuallyReported).                *)
FairSpec ==
  /\ Spec
  /\ WF_vars(TickReads) /\ WF_vars(TickStarts) /\ WF_vars(TickEnds)
  /\ WF_vars(DeadlinePasses) /\ WF_vars(TrackerFails)
  /\ \A i \in Installers : WF_vars(InstallGoesOn(i))

-----------------------------------------------------------------------------

Stages    == {"PRECHECK", "WAIT_ACK", "WAIT_HB"}
Run       == [active : BOOLEAN, zones : Seq(Zones), idx : Nat \ {0}, st : Stages,
              cancel : BOOLEAN, seq : Nat, pre : Content \cup {0}, late : BOOLEAN]
Snapshot  == [on : BOOLEAN, ok : BOOLEAN, online : BOOLEAN, fw : Content, low : BOOLEAN,
              fresh : BOOLEAN]
Message   == [kind : {"hb"}, fw : Content, low : BOOLEAN]
             \cup [kind : {"ack"}, seq : Nat, ok : BOOLEAN]
Modes     == {"boot", "app", "leaving", "rescue", "pull", "pulled", "manual"}
OtaStates == [{1, 2} -> {"valid", "pending", "new", "bad"}]
Boards    == [mode : Modes, slot : [{1, 2} -> Content], ota : OtaStates, boot : {1, 2},
              trial : {"off", "fleet", "bench"}, crumb : BOOLEAN, hando : BOOLEAN,
              tries : 0 .. PULLS, left : Nat, low : BOOLEAN]

(* The values the variables take; a run points at one of its zones, and a   *)
(* zone that pulls has an attempt to spend.                                 *)
TypeOK ==
  /\ FwTypeOK
  /\ fleet \in Run /\ (fleet.active => fleet.idx <= Len(fleet.zones))
  /\ snap \in Snapshot
  /\ node \in [Zones -> [fw : Content, low : BOOLEAN, fresh : BOOLEAN]]
  /\ submits \in Nat
  /\ down \in [Zones -> Seq(Nat)]
  /\ up \in [Zones -> Message \cup {NoMsg}]
  /\ zn \in [Zones -> Boards]
  /\ \A z \in Zones : zn[z].mode \in {"rescue", "pull"} => zn[z].tries > 0
  /\ used \in [run : Nat, install : Nat, fault : Nat]

(* A run and an install never go on together (node_mgr_fleet.c 31-38 and    *)
(* psvc_fw.c 37-44): each claims its flag before it reads the other's, so   *)
(* an install past its guards never meets an active run.                    *)
OneLoser ==
  fleet.active => \A i \in Installers : inst[i].pc \in {"idle", "guards"}

(* A run takes its zones out of service one at a time (fleet_seq.c 36-40,   *)
(* 61-72): a zone it has done with runs an app again when the next one is   *)
(* told to leave, and nothing the run sent makes it leave later.            *)
OneAtATime ==
  fleet.active => \A k \in 1 .. fleet.idx - 1 : zn[fleet.zones[k]].mode \in {"boot", "app"}

(* Whenever the power fails, the zone boots a whole image, and one that is   *)
(* new or on trial has a whole, proven one to fall back to (rescue_pull.c    *)
(* 11-18, 57): a pull never writes over the image the board would boot.     *)
AlwaysBootable ==
  \A z \in Zones : LET r == zn[z] IN
    /\ Running(r) \in Images
    /\ r.ota[r.boot] # "bad"
    /\ r.ota[r.boot] \in {"new", "pending"} =>
         r.slot[Other(r.boot)] \in Images /\ r.ota[Other(r.boot)] = "valid"

(* The design (system design 2.9): an image a fleet update installed is     *)
(* kept only if it heard the master within the window.                      *)
DeafNeverKept ==
  \A z \in Zones : zn[z].ota[zn[z].boot] = "valid" => Running(zn[z]) \notin Deaf

(* Every run ends (fleet_seq.c 81-85, node_mgr_fleet.c 103-107): whatever   *)
(* is lost, reset or refused, the sequencer comes back to idle.             *)
RolloutEnds == fleet.active ~> ~fleet.active

(* Every install gives back what it claimed (psvc_fw.c 94-100): the gate of *)
(* the fleet and the image server do not stay shut.                         *)
GateReopens == busy \/ writer ~> ~busy /\ ~writer
=============================================================================
