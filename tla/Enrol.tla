------------------------------- MODULE Enrol -------------------------------
(***************************************************************************)
(* Who answers on which zone id: the master's zone table and its copy in   *)
(* flash (ztab.c, node_store_nvs.c), enrolment by heartbeat, SET NODE MAC  *)
(* and CLEAR NODE (node_mgr_enrol.c, node_mgr.c), the queued clearing of a *)
(* cached configuration and the transfers it races with (node_mgr_cfg.c),  *)
(* and the zone's side of ASSIGN_ID (zone_ring_sync.c, hg_store.c).        *)
(*                                                                         *)
(* A board stands for its MAC.  Frames to and from one board keep their    *)
(* order and may be lost.  A cached configuration is named by the board it *)
(* was read for: what differs from one board to another is what gets       *)
(* pushed.  CfgSync has the transfers in detail.                           *)
(***************************************************************************)
EXTENDS Naturals, Sequences, FiniteSets, FiniteSetsExt

CONSTANTS
  IDS,        \* zone ids 1 .. IDS, and as many slots in the table (HG_MAX_ZONES)
  BOARDS,     \* boards that may be on the ring
  NONE,       \* no board
  MAX_WIRE,   \* bound: ASSIGN_IDs on their way to a board when it sends a heartbeat
  MAX_OPS,    \* bound: operator commands, boards plugged, unplugged or erased
  MAX_FAULT   \* bound: frames lost, writes to flash that fail, restarts of the master

ASSUME EnrolAssumption ==
  /\ {IDS, MAX_WIRE} \subseteq Nat \ {0}
  /\ {MAX_OPS, MAX_FAULT} \subseteq Nat
  /\ NONE \notin BOARDS

VARIABLES
  \* the master
  ztab,        \* the zone table (s_ztab): a MAC and an id per slot
  nvs,         \* its copy in flash
  rows,        \* per id: the board of the node table's row (s_tab), NONE if unused
  unassigned,  \* boards turned away while the table is full (s_unassigned_mac)
  cache,       \* per id: the board the cached configuration (s_cfg) was read for,
               \* NONE if nothing is cached
  fresh,       \* ids heard from since their last decision (s_fresh)
  clearMask,   \* ids whose cache is to be cleared by the next tick (s_clear_mask)
  cx,          \* the transfer slot
  op,          \* ids the command in progress has yet to queue a clear for
  \* the boards and the wires
  present,     \* boards on the ring
  zid,         \* per board: the id it holds, 0 for none (0xFE on the wire)
  hb,          \* per board: its heartbeat on the wire
  asg,         \* per board: the ASSIGN_IDs on their way to it
  \* bounds and history
  used,        \* how much of each bound has been used
  refused      \* history: ids whose CLEAR NODE was answered with an error

table   == <<ztab, nvs>>
config  == <<cache, fresh, clearMask, cx>>
boards  == <<present, zid>>
vars    == <<table, rows, unassigned, config, op, boards, hb, asg, used, refused>>

-----------------------------------------------------------------------------
(* The zone table (ztab.c) *)

Ids       == 1 .. IDS
Slots     == 1 .. IDS
FreeSlot  == [mac |-> NONE, id |-> 0]
EmptyTab  == [s \in Slots |-> FreeSlot]
NoFrame   == IDS + 1
NoTransfer == [kind |-> "idle", zone |-> 0]

Macs(t)    == {t[s].mac : s \in Slots} \ {NONE}
UsedIds(t) == {t[s].id : s \in Slots} \ {0}

(* ztab_find_mac, ztab_find_id: for a MAC or an id the table holds. *)
SlotOfMac(t, b) == Min({s \in Slots : t[s].mac = b})
SlotOfId(t, z)  == Min({s \in Slots : t[s].id = z})
IdOf(t, b)      == t[SlotOfMac(t, b)].id

(* Mutant: the id is stored as its index. *)
PlacedShifted(t, b, z) ==
  [t EXCEPT ![Min({s \in Slots : t[s].id = 0})] = [mac |-> b, id |-> z + 1]]

(* ztab_place: the first empty slot. *)
Placed(t, b, z) == [t EXCEPT ![Min({s \in Slots : t[s].id = 0})] = [mac |-> b, id |-> z]]

(* ztab_assign *)
LowestFree(t) == Min(Ids \ UsedIds(t))

(* Mutant: a claimed id is honoured without asking whose it is. *)
EnrolledBlindly(t, b, claim) ==
  IF b \in Macs(t)
  THEN [verdict |-> IF IdOf(t, b) = claim THEN "KNOWN" ELSE "STALE", id |-> IdOf(t, b), tab |-> t]
  ELSE IF UsedIds(t) = Ids THEN [verdict |-> "FULL", id |-> 0, tab |-> t]
  ELSE LET z == IF claim \in Ids THEN claim ELSE LowestFree(t) IN
         [verdict |-> "ASSIGNED", id |-> z, tab |-> Placed(t, b, z)]

(* ztab_enrol *)
Enrolled(t, b, claim) ==
  IF b \in Macs(t)
  THEN [verdict |-> IF IdOf(t, b) = claim THEN "KNOWN" ELSE "STALE", id |-> IdOf(t, b), tab |-> t]
  ELSE IF claim \in UsedIds(t) THEN [verdict |-> "CONFLICT", id |-> claim, tab |-> t]
  ELSE IF UsedIds(t) = Ids THEN [verdict |-> "FULL", id |-> 0, tab |-> t]
  ELSE LET z == IF claim \in Ids THEN claim ELSE LowestFree(t) IN
         [verdict |-> "ASSIGNED", id |-> z, tab |-> Placed(t, b, z)]

(* ztab_clear *)
Without(t, z) == [t EXCEPT ![SlotOfId(t, z)] = FreeSlot]

(* The table after SET NODE z MAC b: b leaves its old id, z its old board. *)
Seeded(t, b, z) ==
  LET left == IF b \in Macs(t) THEN [t EXCEPT ![SlotOfMac(t, b)] = FreeSlot] ELSE t
      slot == IF z \in UsedIds(left) THEN SlotOfId(left, z)
              ELSE Min({s \in Slots : left[s].id = 0})
  IN [left EXCEPT ![slot] = [mac |-> b, id |-> z]]

-----------------------------------------------------------------------------

Fault ==
  /\ used.fault < MAX_FAULT
  /\ used' = [used EXCEPT !.fault = @ + 1]

Operation ==
  /\ used.ops < MAX_OPS
  /\ used' = [used EXCEPT !.ops = @ + 1]

(* node_store_save; every caller but CLEAR NODE ignores a failure. *)
Save(t) ==
  \/ nvs' = t /\ UNCHANGED used
  \/ Fault /\ UNCHANGED nvs

Init ==
  /\ ztab = EmptyTab
  /\ nvs = EmptyTab
  /\ rows = [z \in Ids |-> NONE]
  /\ unassigned = {}
  /\ cache = [z \in Ids |-> NONE]
  /\ fresh = {}
  /\ clearMask = {}
  /\ cx = NoTransfer
  /\ op = <<>>
  /\ present \in SUBSET BOARDS
  /\ zid \in [BOARDS -> 0 .. IDS]
  /\ hb = [b \in BOARDS |-> NoFrame]
  /\ asg = [b \in BOARDS |-> <<>>]
  /\ used = [ops |-> 0, fault |-> 0]
  /\ refused = {}

-----------------------------------------------------------------------------
(* The master, on the node_mgr task *)

(* send_assign *)
Assign(b, z) == asg' = [asg EXCEPT ![b] = Append(@, z)]

(* nmgr_enrol_handle_hb, with update_telemetry and nmgr_cfg_note_fresh_hb. *)
HandleHb(b) ==
  /\ hb[b] # NoFrame
  /\ hb' = [hb EXCEPT ![b] = NoFrame]
  /\ LET claim == hb[b]
         e     == Enrolled(ztab, b, claim)
     IN
       \/ /\ e.verdict = "FULL"
          /\ unassigned' = IF Cardinality(unassigned) < IDS THEN unassigned \cup {b} ELSE unassigned
          /\ UNCHANGED <<table, rows, fresh, asg, used>>
       \/ /\ e.verdict = "CONFLICT"
          /\ Assign(b, 0)
          /\ UNCHANGED <<table, rows, unassigned, fresh, used>>
       \/ /\ e.verdict \in {"ASSIGNED", "KNOWN", "STALE"}
          /\ IF e.verdict = "ASSIGNED"
             THEN /\ ztab' = e.tab
                  /\ Save(e.tab)
                  /\ unassigned' = unassigned \ {b}
             ELSE UNCHANGED <<table, unassigned, used>>
          /\ rows' = [rows EXCEPT ![e.id] = b]
          /\ fresh' = fresh \cup {e.id}
          /\ IF claim # e.id THEN Assign(b, e.id) ELSE UNCHANGED asg
  /\ UNCHANGED <<cache, clearMask, cx, op, boards, refused>>

(* nmgr_cfg_clear, for every id of the mask *)
Cleared(mask) == [z \in Ids |-> IF z \in mask THEN NONE ELSE cache[z]]

(* nmgr_cfg_tick_1s: the queued clears, then one decision on an id heard     *)
(* from: adopt if nothing is cached, push if the board runs something else.  *)
Tick ==
  LET slot  == IF cx.zone \in clearMask THEN NoTransfer ELSE cx
      heard == {z \in fresh \ clearMask : rows[z] # NONE}
  IN /\ cache' = Cleared(clearMask)
     /\ clearMask' = {}
     /\ \/ /\ slot.kind # "idle" \/ heard = {}
           /\ cx' = slot
           /\ fresh' = fresh \ clearMask
        \/ /\ slot.kind = "idle"
           /\ \E z \in heard :
                /\ fresh' = fresh \ (clearMask \cup {z})
                /\ cx' = IF cache'[z] = NONE THEN [kind |-> "pull", zone |-> z]
                         ELSE IF cache'[z] # rows[z] THEN [kind |-> "push", zone |-> z]
                         ELSE NoTransfer
     /\ UNCHANGED <<table, rows, unassigned, op, boards, hb, asg, used, refused>>

(* A transfer is carried out by whichever board on the ring holds the id.   *)
Transferred(b) ==
  /\ cx.kind # "idle"
  /\ b \in present /\ zid[b] = cx.zone
  /\ cache' = [cache EXCEPT ![cx.zone] = IF cx.kind = "pull" THEN rows[cx.zone] ELSE @]
  /\ cx' = NoTransfer
  /\ UNCHANGED <<table, rows, unassigned, fresh, clearMask, op, boards, hb, asg, used, refused>>

TransferFails ==
  /\ cx.kind # "idle"
  /\ cx' = NoTransfer
  /\ UNCHANGED <<table, rows, unassigned, cache, fresh, clearMask, op, boards, hb, asg, used, refused>>

(* The master restarts: its RAM is gone, the table is what flash holds, or   *)
(* empty if flash cannot be read (nmgr_enrol_boot_init, nmgr_cfg_init).      *)
Reboot ==
  /\ Fault
  /\ \E t \in {nvs, EmptyTab} :
       /\ ztab' = t
       /\ rows' = [z \in Ids |-> IF z \in UsedIds(t) THEN t[SlotOfId(t, z)].mac ELSE NONE]
  /\ unassigned' = {}
  /\ cache' = [z \in Ids |-> NONE]
  /\ fresh' = {} /\ clearMask' = {} /\ cx' = NoTransfer /\ op' = <<>>
  /\ UNCHANGED <<nvs, boards, hb, asg, refused>>

-----------------------------------------------------------------------------
(* The operator's commands, on the command task *)

(* Mutant: the row of a retired id survives. *)
ClearKeepsRow(z) ==
  /\ op = <<>>
  /\ z \in UsedIds(ztab)
  /\ Operation
  /\ ztab' = Without(ztab, z)
  /\ nvs' = Without(ztab, z)
  /\ op' = <<z>>
  /\ UNCHANGED <<rows, unassigned, config, boards, hb, asg, refused>>

(* node_mgr_clear: a failed write to flash is answered with an error, after  *)
(* the table has lost its entry and before the row has.                      *)
Clear(z) ==
  /\ op = <<>>
  /\ z \in UsedIds(ztab)
  /\ used.ops < MAX_OPS
  /\ ztab' = Without(ztab, z)
  /\ \/ /\ nvs' = Without(ztab, z)
        /\ rows' = [rows EXCEPT ![z] = NONE]
        /\ op' = <<z>>
        /\ used' = [used EXCEPT !.ops = @ + 1]
        /\ UNCHANGED refused
     \/ /\ used.fault < MAX_FAULT
        /\ refused' = refused \cup {z}
        /\ used' = [used EXCEPT !.ops = @ + 1, !.fault = @ + 1]
        /\ UNCHANGED <<nvs, rows, op>>
  /\ UNCHANGED <<unassigned, config, boards, hb, asg>>

(* Mutant: the id the board left keeps its cached configuration. *)
SeedForgetsOld(z, b) ==
  /\ op = <<>>
  /\ ~(b \in Macs(ztab) /\ IdOf(ztab, b) = z)
  /\ used.ops < MAX_OPS
  /\ ztab' = Seeded(ztab, b, z)
  /\ nvs' = Seeded(ztab, b, z)
  /\ used' = [used EXCEPT !.ops = @ + 1]
  /\ LET old == IF b \in Macs(ztab) THEN {IdOf(ztab, b)} ELSE {} IN
       /\ rows' = [y \in Ids |-> IF y = z THEN b ELSE IF y \in old THEN NONE ELSE rows[y]]
       /\ op' = <<z>>
  /\ unassigned' = unassigned \ {b}
  /\ UNCHANGED <<config, boards, hb, asg, refused>>

(* node_mgr_seed_mac, up to where it drops the lock. *)
Seed(z, b) ==
  /\ op = <<>>
  /\ ~(b \in Macs(ztab) /\ IdOf(ztab, b) = z)
  /\ used.ops < MAX_OPS
  /\ ztab' = Seeded(ztab, b, z)
  /\ \/ /\ nvs' = ztab'
        /\ used' = [used EXCEPT !.ops = @ + 1]
     \/ /\ used.fault < MAX_FAULT
        /\ used' = [used EXCEPT !.ops = @ + 1, !.fault = @ + 1]
        /\ UNCHANGED nvs
  /\ LET old == IF b \in Macs(ztab) THEN {IdOf(ztab, b)} ELSE {} IN
       /\ rows' = [y \in Ids |-> IF y = z THEN b ELSE IF y \in old THEN NONE ELSE rows[y]]
       /\ op' = <<z>> \o (IF old = {} THEN <<>> ELSE <<IdOf(ztab, b)>>)
  /\ unassigned' = unassigned \ {b}
  /\ UNCHANGED <<config, boards, hb, asg, refused>>

(* nmgr_cfg_request_clear, under a lock of its own. *)
RequestClear ==
  /\ op # <<>>
  /\ clearMask' = clearMask \cup {Head(op)}
  /\ op' = Tail(op)
  /\ UNCHANGED <<table, rows, unassigned, cache, fresh, cx, boards, hb, asg, used, refused>>

-----------------------------------------------------------------------------
(* The boards *)

Heartbeat(b) ==
  /\ b \in present
  /\ hb[b] = NoFrame
  /\ Len(asg[b]) < MAX_WIRE
  /\ hb' = [hb EXCEPT ![b] = zid[b]]
  /\ UNCHANGED <<table, rows, unassigned, config, op, boards, asg, used, refused>>

(* Mutant: 0xFE is not taken for an id. *)
OnAssignIgnoresNone(b) ==
  /\ b \in present
  /\ asg[b] # <<>>
  /\ asg' = [asg EXCEPT ![b] = Tail(@)]
  /\ zid' = IF Head(asg[b]) = 0 THEN zid ELSE [zid EXCEPT ![b] = Head(asg[b])]
  /\ UNCHANGED <<table, rows, unassigned, config, op, present, hb, used, refused>>

(* zsync_assign_id: the id goes to the zone's flash before it is used, and a *)
(* write that fails leaves the old one in hg_store.                          *)
OnAssign(b) ==
  /\ b \in present
  /\ asg[b] # <<>>
  /\ asg' = [asg EXCEPT ![b] = Tail(@)]
  /\ \/ zid' = [zid EXCEPT ![b] = Head(asg[b])] /\ UNCHANGED used
     \/ zid[b] # Head(asg[b]) /\ Fault /\ UNCHANGED zid
  /\ UNCHANGED <<table, rows, unassigned, config, op, present, hb, refused>>

(* A board is plugged in, or taken off the ring with what was on its way. *)
Plug(b) ==
  /\ Operation
  /\ IF b \in present
     THEN /\ present' = present \ {b}
          /\ hb' = [hb EXCEPT ![b] = NoFrame] /\ asg' = [asg EXCEPT ![b] = <<>>]
     ELSE present' = present \cup {b} /\ UNCHANGED <<hb, asg>>
  /\ UNCHANGED <<table, rows, unassigned, config, op, zid, refused>>

(* FACTORY RESET of a zone: it comes back claiming nothing. *)
Erase(b) ==
  /\ Operation
  /\ zid[b] # 0
  /\ zid' = [zid EXCEPT ![b] = 0]
  /\ UNCHANGED <<table, rows, unassigned, config, op, present, hb, asg, refused>>

(* A lost heartbeat is one never sent; a lost ASSIGN_ID leaves a mark. *)
Lose(b) ==
  /\ asg[b] # <<>>
  /\ Fault
  /\ asg' = [asg EXCEPT ![b] = Tail(@)]
  /\ UNCHANGED <<table, rows, unassigned, config, op, boards, hb, refused>>

-----------------------------------------------------------------------------

Next ==
  \/ Tick \/ TransferFails \/ Reboot \/ RequestClear
  \/ \E z \in Ids : Clear(z)
  \/ \E b \in BOARDS :
       \/ HandleHb(b) \/ Transferred(b)
       \/ Heartbeat(b) \/ OnAssign(b) \/ Plug(b) \/ Erase(b) \/ Lose(b)
       \/ \E z \in Ids : Seed(z, b)

Spec == Init /\ [][Next]_vars

(* Both tasks run, and heartbeats keep coming.  What the operator does, and  *)
(* what gets lost, is nobody's duty and bounded.                             *)
Fairness ==
  /\ WF_vars(Tick) /\ WF_vars(RequestClear)
  /\ \A b \in BOARDS : WF_vars(HandleHb(b)) /\ WF_vars(Heartbeat(b)) /\ WF_vars(OnAssign(b))

FairSpec == Spec /\ Fairness

-----------------------------------------------------------------------------
(* Properties *)

TypeOK ==
  /\ {ztab, nvs} \subseteq [Slots -> [mac : BOARDS \cup {NONE}, id : 0 .. IDS]]
  /\ rows \in [Ids -> BOARDS \cup {NONE}]
  /\ unassigned \subseteq BOARDS /\ present \subseteq BOARDS
  /\ cache \in [Ids -> BOARDS \cup {NONE}]
  /\ {fresh, clearMask, refused} \subseteq SUBSET Ids
  /\ cx \in [kind : {"idle", "pull", "push"}, zone : 0 .. IDS]
  /\ op \in Seq(Ids)
  /\ zid \in [BOARDS -> 0 .. IDS]
  /\ hb \in [BOARDS -> 0 .. IDS + 1]
  /\ asg \in [BOARDS -> Seq(0 .. IDS)]

(* No two entries of a table share an id or a MAC, and a slot is free in    *)
(* both or in neither.                                                      *)
Sound(t) ==
  /\ \A s \in Slots : t[s].id = 0 <=> t[s].mac = NONE
  /\ \A r, s \in Slots : r # s /\ t[r].id # 0 => t[r].id # t[s].id /\ t[r].mac # t[s].mac

(* One board per id, one id per board, in RAM and in flash; what GET NODES  *)
(* shows for an id is the board the table gives it to; and a board that has *)
(* an id is not listed as waiting for one (ztab.c, node_mgr_enrol.c).       *)
OneBoardPerId ==
  /\ Sound(ztab) /\ Sound(nvs)
  /\ \A s \in Slots : ztab[s].id # 0 => rows[ztab[s].id] = ztab[s].mac
  /\ unassigned \cap Macs(ztab) = {}

(* A row whose id the table does not know is the ghost of a CLEAR NODE that *)
(* was answered with an error (node_mgr.c 276-283).                         *)
GhostsExplained == \A z \in Ids : rows[z] # NONE => z \in UsedIds(ztab) \cup refused

PushStarts(z) == cx'.kind = "push" /\ cx'.zone = z /\ cx # cx'

(* The comment on node_mgr_clear: the cached configuration of a retired id  *)
(* is not pushed to the board that enrols on it next.                       *)
AdoptNotPush ==
  [][\A z \in Ids : PushStarts(z) /\ cache[z] # rows[z] => z \in refused]_vars

(* What was cached for one board is pushed to another only while the        *)
(* command that gave the id away still has the clear of that id to queue,   *)
(* or after a CLEAR NODE of it was answered with an error.                  *)
StrangerOnlyInWindow ==
  [][\A z \in Ids : PushStarts(z) /\ cache[z] # rows[z] =>
       z \in refused \cup {op[i] : i \in DOMAIN op}]_vars

Settled(b) ==
  \/ b \in Macs(ztab) /\ zid[b] = IdOf(ztab, b)
  \/ UsedIds(ztab) = Ids /\ zid[b] = 0 /\ b \in unassigned

(* Once boards stop coming and going, every board on the ring has the id    *)
(* the table gives it, or waits in GET UNASSIGNED because there is none.    *)
EveryBoardSettles == <>[](\A b \in present : Settled(b))
=============================================================================
