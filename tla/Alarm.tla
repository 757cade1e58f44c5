------------------------------- MODULE Alarm -------------------------------
(***************************************************************************)
(* From a condition to what the operator sees: the tasks that emit NOTIFY  *)
(* lines, the rate limit they pass (notify.c), the ring of events and the  *)
(* set of active alarms (alarm_mgr.c), the JSON export that reads both one *)
(* entry at a time (alarm_mgr_json.c), and the panel's copies of them      *)
(* (pnl_poll.c, scr_alarms.c).                                             *)
(*                                                                         *)
(* A line is the key it concerns, <<type, node>>, and what its state word  *)
(* does to the active set: raise, clear or nothing.  Lines are numbered in *)
(* the order they reach the sink, which holds its lock throughout.         *)
(***************************************************************************)
EXTENDS Naturals, Sequences, FiniteSets, FiniteSetsExt, SequencesExt

CONSTANTS
  ZONES,          \* zone ids, numbers
  NTF_IDX_N,      \* rate-limit latches per type: ids beyond share the last
  AM_EVENTS,      \* events kept
  AM_ACTIVE_MAX,  \* alarms that may be active at once
  MAX_LINES       \* bound: lines emitted

VARIABLES
  \* what is so
  open,      \* the ring is open (ring_status_t)
  lost,      \* zones that have lost the master (s_link_lost)
  offline,   \* zones the health ladder has offline
  updating,  \* zones the fleet sequencer is updating
  silent,    \* the LVGL task has been silent for 10 s
  frozen,    \* s_frozen: the poller has said so
  \* notify.c
  quiet,     \* latches <<type, idx>> whose interval has not passed
  \* alarm_mgr.c
  total,     \* am_total
  events,    \* am_ring: per slot, the number of the line it holds
  active,    \* am_active: per slot, a key or NoKey
  \* readers
  export,    \* alarm_mgr_json
  panel,     \* the poller: total seen, the copy published, and what is on the screen
  dropped    \* history: keys that rose while the active set was full

facts == <<open, lost, offline, updating, silent, frozen>>
alarms == <<total, events, active>>
vars  == <<facts, quiet, alarms, export, panel, dropped>>

NoKey  == <<"", 0>>
Nodes  == {0} \cup ZONES
Keys   == ({"RING", "NODE", "FW"} \X ZONES) \cup {<<"RING", 0>>, <<"ALARM", 0>>}
ActiveKeys == {active[s] : s \in DOMAIN active} \ {NoKey}

(* s_interval_ms: the types that are rate-limited, of those modelled. *)
Limited == {"RING", "ALARM"}

(* emit_v *)
Latch(type, idx) == <<type, IF idx < NTF_IDX_N THEN idx ELSE NTF_IDX_N - 1>>

NoExport == [pc |-> "idle", slot |-> 0, total |-> 0, i |-> 0, listed |-> <<>>, lines |-> <<>>, through |-> {}]

Init ==
  /\ open = FALSE /\ lost = {} /\ offline = {} /\ updating = {} /\ silent = FALSE /\ frozen = FALSE
  /\ quiet = {}
  /\ total = 0
  /\ events = [s \in 0 .. AM_EVENTS - 1 |-> 0]
  /\ active = [s \in 1 .. AM_ACTIVE_MAX |-> NoKey]
  /\ export = NoExport
  /\ panel = [seen |-> 0, pub |-> {}, shown |-> {}]
  /\ dropped = {}

-----------------------------------------------------------------------------
(* The sink *)

FreeSlots == {s \in DOMAIN active : active[s] = NoKey}

(* active_upsert: the first free slot, unless the key is there already. *)
Upsert(key) ==
  IF key \in ActiveKeys \/ FreeSlots = {} THEN active
  ELSE [active EXCEPT ![Min(FreeSlots)] = key]

(* Mutant: the last entry moves into the slot that is freed. *)
WithoutCompacted(key) ==
  IF key \notin ActiveKeys THEN active
  ELSE LET last == Max(DOMAIN active \ FreeSlots)
       IN [s \in DOMAIN active |->
             IF s = last THEN NoKey ELSE IF active[s] = key THEN active[last] ELSE active[s]]

(* active_clear *)
Without(key) == [s \in DOMAIN active |-> IF active[s] = key THEN NoKey ELSE active[s]]

(* alarm_mgr_sink *)
Sink(key, effect) ==
  /\ total < MAX_LINES
  /\ total' = total + 1
  /\ events' = [events EXCEPT ![total % AM_EVENTS] = total + 1]
  /\ active' = CASE effect = "raise" -> Upsert(key)
                 [] effect = "clear" -> Without(key)
                 [] OTHER -> active
  /\ export' = [export EXCEPT !.through = IF effect = "clear" THEN @ \ {key} ELSE @]
  /\ dropped' = IF effect = "clear" \/ key \in {active'[s] : s \in DOMAIN active'} THEN dropped \ {key}
                ELSE IF effect = "raise" THEN dropped \cup {key} ELSE dropped

(* notify_emit: a line within the interval of its latch is gone.  A caller   *)
(* that resets the latch first always gets through.                         *)
Emit(type, idx, key, effect, reset) ==
  LET l == Latch(type, idx) IN
    IF l \in quiet /\ ~ reset
    THEN UNCHANGED <<quiet, alarms, export, dropped>>
    ELSE /\ Sink(key, effect)
         /\ quiet' = IF type \in Limited THEN quiet \cup {l} ELSE quiet

IntervalEnds(l) ==
  /\ l \in quiet
  /\ quiet' = quiet \ {l}
  /\ UNCHANGED <<facts, alarms, export, panel, dropped>>

-----------------------------------------------------------------------------
(* The emitters *)

(* Mutant: the latch is not reset for a RING line. *)
RingEdgeLimited ==
  /\ open' = ~ open
  /\ Emit("RING", 0, <<"RING", 0>>, IF open THEN "clear" ELSE "raise", FALSE)
  /\ UNCHANGED <<lost, offline, updating, silent, frozen, panel>>

(* nmgr_health_cb: RING OPEN and RING CLOSED. *)
RingEdge ==
  /\ open' = ~ open
  /\ Emit("RING", 0, <<"RING", 0>>, IF open THEN "clear" ELSE "raise", TRUE)
  /\ UNCHANGED <<lost, offline, updating, silent, frozen, panel>>

(* zsync_link_tick on the zone, relayed by handle_notify_frame.  The ring    *)
(* may lose the line.                                                       *)
LinkLost(z) ==
  /\ z \notin lost
  /\ lost' = lost \cup {z}
  /\ \/ Emit("RING", z, <<"RING", z>>, "raise", FALSE)
     \/ UNCHANGED <<quiet, alarms, export, dropped>>
  /\ UNCHANGED <<open, offline, updating, silent, frozen, panel>>

LinkBack(z) ==
  /\ z \in lost
  /\ lost' = lost \ {z}
  /\ UNCHANGED <<open, offline, updating, silent, frozen, quiet, alarms, export, panel, dropped>>

(* ring_health_eval's NODE lines. *)
NodeEdge(z) ==
  /\ offline' = IF z \in offline THEN offline \ {z} ELSE offline \cup {z}
  /\ Emit("NODE", z, <<"NODE", z>>, IF z \in offline THEN "clear" ELSE "raise", FALSE)
  /\ UNCHANGED <<open, lost, updating, silent, frozen, panel>>

(* CFG_FORK, CFG_SYNC_FAILED and ID_CONFLICT raise, NEW and TABLE_FULL are   *)
(* history only.                                                            *)
NodeRemark(z, effect) ==
  /\ effect \in {"raise", "none"}
  /\ Emit("NODE", z, <<"NODE", z>>, effect, FALSE)
  /\ UNCHANGED <<facts, panel>>

(* nmgr_fleet_tick_1s: ZONE n UPDATING, then DONE; the sink takes the zone    *)
(* out of the text.                                                         *)
FwEdge(z) ==
  /\ updating' = IF z \in updating THEN updating \ {z} ELSE updating \cup {z}
  /\ Emit("FW", z, <<"FW", z>>, IF z \in updating THEN "clear" ELSE "raise", FALSE)
  /\ UNCHANGED <<open, lost, offline, silent, frozen, panel>>

(* The panel's task stops or resumes; ten seconds of silence outlast the     *)
(* latch of the line that cleared the alarm.                                *)
Stall ==
  /\ silent \/ Latch("ALARM", 0) \notin quiet
  /\ silent' = ~ silent
  /\ UNCHANGED <<open, lost, offline, updating, frozen, quiet, alarms, export, panel, dropped>>

(* heartbeat_check *)
HeartbeatCheck ==
  /\ silent # frozen
  /\ frozen' = silent
  /\ Emit("ALARM", 0, <<"ALARM", 0>>, IF silent THEN "raise" ELSE "clear", ~ silent)
  /\ UNCHANGED <<open, lost, offline, updating, silent, panel>>

-----------------------------------------------------------------------------
(* alarm_mgr_json: every entry under a lock hold of its own *)

ExportStart ==
  /\ export.pc = "idle"
  /\ export' = [NoExport EXCEPT !.pc = "active", !.slot = 1, !.through = ActiveKeys]
  /\ UNCHANGED <<facts, quiet, alarms, panel, dropped>>

(* am_copy_active *)
ExportActive ==
  /\ export.pc = "active"
  /\ IF export.slot \in DOMAIN active
     THEN export' = [export EXCEPT !.slot = @ + 1,
                       !.listed = IF active[export.slot] = NoKey THEN @ ELSE Append(@, active[export.slot])]
     ELSE export' = [export EXCEPT !.pc = "events", !.total = total]
  /\ UNCHANGED <<facts, quiet, alarms, panel, dropped>>

(* Mutant: one event too many counts as still there. *)
EventLate(t, i) ==
  IF i < (IF t < AM_EVENTS THEN t ELSE AM_EVENTS) /\ total - (t - 1 - i) <= AM_EVENTS + 1
  THEN <<events[(t - 1 - i) % AM_EVENTS]>> ELSE <<>>

(* am_copy_event: the i-th newest of the first t, unless it is overwritten. *)
Event(t, i) ==
  IF i < (IF t < AM_EVENTS THEN t ELSE AM_EVENTS) /\ total - (t - 1 - i) <= AM_EVENTS
  THEN <<events[(t - 1 - i) % AM_EVENTS]>> ELSE <<>>

ExportEvent ==
  /\ export.pc = "events"
  /\ LET e == Event(export.total, export.i) IN
       export' = [export EXCEPT !.lines = @ \o e, !.i = @ + Len(e),
                                !.pc = IF e = <<>> \/ export.i + 1 = AM_EVENTS THEN "done" ELSE @]
  /\ UNCHANGED <<facts, quiet, alarms, panel, dropped>>

ExportSent ==
  /\ export.pc = "done"
  /\ export' = NoExport
  /\ UNCHANGED <<facts, quiet, alarms, panel, dropped>>

-----------------------------------------------------------------------------
(* The panel *)

(* Mutant: the poller asks how many alarms are active, not how many lines    *)
(* there have been.                                                         *)
PollByCount ==
  /\ panel' = [panel EXCEPT !.seen = total, !.pub = IF Cardinality(ActiveKeys) = Cardinality(@) THEN @ ELSE ActiveKeys]
  /\ UNCHANGED <<facts, quiet, alarms, export, dropped>>

(* Mutant: a single new line is not news. *)
PollOneBehind ==
  /\ panel' = [panel EXCEPT !.seen = total, !.pub = IF panel.seen + 1 >= total THEN @ ELSE ActiveKeys]
  /\ UNCHANGED <<facts, quiet, alarms, export, dropped>>

(* poll_task: alarms_poll, when a line has come since.  The band counts this *)
(* copy.                                                                    *)
Poll ==
  /\ panel' = [panel EXCEPT !.seen = total, !.pub = IF panel.seen = total THEN @ ELSE ActiveKeys]
  /\ UNCHANGED <<facts, quiet, alarms, export, dropped>>

(* alarms_update on the Alarms screen. *)
Show ==
  /\ panel' = [panel EXCEPT !.shown = panel.pub]
  /\ UNCHANGED <<facts, quiet, alarms, export, dropped>>

-----------------------------------------------------------------------------

Next ==
  \/ RingEdge \/ Stall \/ HeartbeatCheck
  \/ \E z \in ZONES : LinkLost(z) \/ LinkBack(z) \/ NodeEdge(z) \/ FwEdge(z)
                      \/ \E effect \in {"raise", "none"} : NodeRemark(z, effect)
  \/ \E l \in quiet : IntervalEnds(l)
  \/ ExportStart \/ ExportActive \/ ExportEvent \/ ExportSent
  \/ Poll \/ Show

Spec == Init /\ [][Next]_vars

(* The poller and the screen's timer run. *)
Fairness == WF_vars(Poll) /\ WF_vars(Show)

FairSpec == Spec /\ Fairness

-----------------------------------------------------------------------------
(* Properties *)

Exports == [pc : {"idle", "active", "events", "done"}, slot : Nat, total : Nat, i : Nat,
            listed : Seq(Keys), lines : Seq(Nat), through : SUBSET Keys]

TypeOK ==
  /\ {open, silent, frozen} \subseteq BOOLEAN
  /\ lost \cup offline \cup updating \subseteq ZONES
  /\ quiet \subseteq Limited \X (0 .. NTF_IDX_N - 1)
  /\ total \in 0 .. MAX_LINES
  /\ events \in [0 .. AM_EVENTS - 1 -> 0 .. MAX_LINES]
  /\ active \in [1 .. AM_ACTIVE_MAX -> Keys \cup {NoKey}]
  /\ export \in Exports
  /\ panel \in [seen : Nat, pub : SUBSET Keys, shown : SUBSET Keys]

Shown(key) == key \in ActiveKeys \/ key \in dropped

(* The rate limit, the latch resets of nmgr_health_cb and heartbeat_check    *)
(* and the size of the active set together: what is wrong with the ring, a   *)
(* zone, an update or the panel is an active alarm for as long as it lasts   *)
(* and no longer, unless it rose while the set was full.  A fall takes away  *)
(* nobody else's alarm.                                                     *)
AlarmsTrue ==
  /\ Shown(<<"RING", 0>>) <=> open
  /\ Shown(<<"ALARM", 0>>) <=> frozen
  /\ \A z \in ZONES : (Shown(<<"FW", z>>) <=> z \in updating) /\ (z \in offline => Shown(<<"NODE", z>>))

(* alarm_mgr_json.c 8: an export lists the newest events, newest first and   *)
(* without a gap or a repetition, and every alarm that was active all the    *)
(* time it took, once, however many lines come meanwhile.                   *)
ExportFaithful ==
  /\ \A i \in DOMAIN export.lines : export.lines[i] = export.total + 1 - i
  /\ export.pc \in {"events", "done"} =>
       \A key \in export.through : Cardinality({s \in DOMAIN export.listed : export.listed[s] = key}) = 1

PanelCurrent == panel.pub = ActiveKeys /\ panel.shown = ActiveKeys

(* Once lines stop, the count in the band and the Alarms screen are those of *)
(* alarm_mgr.                                                               *)
PanelCatchesUp == <>[]PanelCurrent

(* alarm_mgr.h 10: 'a derived "active" set (currently-abnormal nodes/rings/  *)
(* etc)'.  A zone whose link to the master is back is no longer abnormal.    *)
OnlyAbnormal == \A z \in ZONES : <<"RING", z>> \in ActiveKeys => z \in lost

-----------------------------------------------------------------------------
(* What AlarmsTrue and ExportFaithful rest on.                               *)

(* No key has two slots. *)
Once == \A s, r \in DOMAIN active : active[s] # NoKey /\ active[s] = active[r] => s = r

(* The line that reports a frozen panel will find its latch open. *)
FreezeHeard == silent /\ ~ frozen => Latch("ALARM", 0) \notin quiet

(* The last AM_EVENTS lines are where am_copy_event looks for them. *)
Kept == \A n \in 1 .. total : total - n < AM_EVENTS => events[(n - 1) % AM_EVENTS] = n

(* An export has listed what was active all the time and whose slot it has    *)
(* passed, once, and will find the rest.                                     *)
ListedOnce(key) ==
  \E j \in DOMAIN export.listed : \A k \in DOMAIN export.listed : export.listed[k] = key <=> k = j
Followed ==
  /\ export.total <= total /\ Len(export.lines) = export.i
  /\ export.pc = "active" =>
       /\ export.slot > 0 /\ export.i = 0
       /\ \A key \in export.through : \E s \in DOMAIN active :
            /\ active[s] = key
            /\ IF s < export.slot THEN ListedOnce(key) ELSE \A k \in DOMAIN export.listed : export.listed[k] # key
  /\ export.pc \in {"events", "done"} => \A key \in export.through : ListedOnce(key)

AlarmInv == TypeOK /\ AlarmsTrue /\ ExportFaithful /\ Once /\ FreezeHeard /\ Kept /\ Followed
=============================================================================
