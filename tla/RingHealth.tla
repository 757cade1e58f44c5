----------------------------- MODULE RingHealth -----------------------------
(***************************************************************************)
(* Who is down and which cable is broken: the health ladder and the blame  *)
(* of ring_health.c, evaluated once a second, over the ring that feeds it: *)
(* the master's TIME_SYNC and the zones' heartbeats, which travel          *)
(* downstream only, and the link flag a heartbeat carries                  *)
(* (zone_ring_sync.c).                                                     *)
(*                                                                         *)
(* Zone i is the i-th board after the master's TX, so its chain_pos is     *)
(* N - i; the master's RX is place N + 1.  Leg i runs from place i to      *)
(* place i + 1.  Frames take no time and time is counted in seconds; the   *)
(* order of arrivals and evaluations within a second is free.              *)
(***************************************************************************)
EXTENDS Naturals, FiniteSets, FiniteSetsExt

CONSTANTS
  N,           \* zones on the ring
  WRAP,        \* the millisecond counter wraps after this many seconds
  HOLD,        \* FLEET_HOLD_MS
  MAX_EVENTS   \* bound: breaks of the suspect, restarts and updates of zones, together

VARIABLES
  \* the ring
  suspect,  \* the leg or the board that breaks, and comes back, in this behaviour
  broken,   \* whether it is broken now
  zone,     \* per zone: away for an update (it still forwards), uptime, seconds
            \* since a master frame, seconds since its heartbeat
  sync,     \* seconds since the master's TIME_SYNC
  \* the master
  now,      \* its clock
  row,      \* per zone, of hg_node_t: health, seconds since a heartbeat, and what
            \* the last heartbeat said
  until,    \* per zone: updating_until_ms
  ret,      \* seconds since a TIME_SYNC came back
  ring,     \* ring_status_t
  due,      \* this second's evaluation has yet to run
  used,     \* how much of the bound has been used
  left      \* history: per zone, seconds of its hold that truly remain

vars == <<suspect, broken, zone, sync, now, row, until, ret, ring, due, used, left>>

Zones == 1 .. N

HB_PERIOD        == 2    \* heartbeats and TIME_SYNC
DEGRADED_AFTER   == 5
OFFLINE_AFTER    == 10
OPEN_AFTER       == 5
LINK_LOST        == 6    \* ZRING_LINK_MS
WITNESS_UPTIME   == 10
BLAME_DWELL_TICKS == 3

Capped(n, cap) == IF n < cap THEN n + 1 ELSE cap

-----------------------------------------------------------------------------
(* The ring *)

Passes(i, j) ==
  broken => \/ suspect.kind = "cut" /\ suspect.at \notin i .. j - 1
            \/ suspect.kind = "dead" /\ suspect.at \notin i + 1 .. j - 1

Powered(z) == ~ (broken /\ suspect = [kind |-> "dead", at |-> z])

-----------------------------------------------------------------------------
(* The verdict: the places U and D the broken segment lies between, U = 0   *)
(* for the master's TX, D = N + 1 for its RX.                               *)

NoVerdict == <<>>
Unripe    == <<0, 0>>      \* "no node reports a fault"

Suspects(r)  == {z \in Zones : r[z].health = "OFFLINE" /\ r[z].heard}

(* is_witness *)
Witnesses(r) == {z \in Zones : r[z].health \in {"ONLINE", "DEGRADED"} /\ r[z].uptime = WITNESS_UPTIME}

(* anything_alive_below *)
AliveBelow(r, u) == \E z \in Zones : z > u /\ r[z].heard /\ r[z].health \notin {"OFFLINE", "EMPTY"}

(* Mutant: a witness that still hears the master is believed as well. *)
BlameUnripe(r) ==
  LET u == IF Suspects(r) = {} THEN 0 ELSE Max(Suspects(r)) IN
    IF Witnesses(r) # {} THEN <<u, Min(Witnesses(r))>>
    ELSE IF u = 0 \/ AliveBelow(r, u) THEN Unripe ELSE <<u, N + 1>>

(* Mutant: an outage above the witnesses is never ripe. *)
BlameTimid(r) ==
  LET u == IF Suspects(r) = {} THEN 0 ELSE Max(Suspects(r)) IN
    IF Witnesses(r) # {}
    THEN IF u = 0 \/ r[Min(Witnesses(r))].alive THEN Unripe ELSE <<u, Min(Witnesses(r))>>
    ELSE IF u = 0 \/ AliveBelow(r, u) THEN Unripe ELSE <<u, N + 1>>

(* ring_blame *)
Blame(r) ==
  LET u == IF Suspects(r) = {} THEN 0 ELSE Max(Suspects(r)) IN
    IF Witnesses(r) # {}
    THEN LET d == Min(Witnesses(r)) IN IF r[d].alive THEN Unripe ELSE <<u, d>>
    ELSE IF u = 0 \/ AliveBelow(r, u) THEN Unripe ELSE <<u, N + 1>>

-----------------------------------------------------------------------------
(* The master boots with its table loaded from flash (boot grace: every     *)
(* zone counts as just heard) and the ring whole.                           *)
Init ==
  /\ suspect \in [kind : {"cut"}, at : 0 .. N] \cup [kind : {"dead"}, at : Zones]
  /\ broken = FALSE
  /\ zone \in [Zones -> [away : {FALSE}, up : {WITNESS_UPTIME}, silent : {0}, wait : 0 .. HB_PERIOD - 1]]
  /\ sync = 0
  /\ now = 0
  /\ row = [z \in Zones |-> [health |-> "EMPTY", age |-> 0, heard |-> FALSE, alive |-> FALSE, uptime |-> 0]]
  /\ until = [z \in Zones |-> 0]
  /\ ret = 0
  /\ ring = [state |-> "IDLE", blame |-> NoVerdict, pending |-> NoVerdict, ticks |-> 0]
  /\ due = TRUE
  /\ used = 0
  /\ left = [z \in Zones |-> 0]

Due == {z \in Zones : Powered(z) /\ ~ zone[z].away /\ zone[z].wait = HB_PERIOD}

(* The frames of a second: heartbeats (send_hb, update_telemetry) and the    *)
(* master's TIME_SYNC (nmgr_broadcast_time_sync, zsync_note_master, and its  *)
(* own return in ring_link.c), whichever is first.                           *)
Traffic(syncFirst) ==
  /\ Due # {} \/ sync = HB_PERIOD
  /\ LET synced  == {z \in Zones : sync = HB_PERIOD /\ Powered(z) /\ ~ zone[z].away /\ Passes(0, z)}
         hears(z) == zone[z].silent < LINK_LOST \/ (syncFirst /\ z \in synced)
     IN /\ zone' = [z \in Zones |-> [zone[z] EXCEPT !.wait = IF z \in Due THEN 0 ELSE @,
                                                    !.silent = IF z \in synced THEN 0 ELSE @]]
        /\ row' = [z \in Zones |->
             IF z \notin Due \/ ~ Passes(z, N + 1) THEN row[z]
             ELSE [row[z] EXCEPT !.age = 0, !.heard = TRUE, !.alive = hears(z), !.uptime = zone[z].up]]
  /\ sync' = IF sync = HB_PERIOD THEN 0 ELSE sync
  /\ ret' = IF sync = HB_PERIOD /\ Passes(0, N + 1) THEN 0 ELSE ret
  /\ UNCHANGED <<suspect, broken, now, until, ring, due, used, left>>

(* A second passes: every board that is due has sent, the evaluation has run. *)
Second ==
  /\ ~ due
  /\ sync < HB_PERIOD /\ Due = {}
  /\ now' = (now + 1) % WRAP
  /\ sync' = sync + 1
  /\ ret' = Capped(ret, OPEN_AFTER)
  /\ zone' = [z \in Zones |->
       IF ~ Powered(z) \/ zone[z].away THEN zone[z]
       ELSE [zone[z] EXCEPT !.up = Capped(@, WITNESS_UPTIME), !.silent = Capped(@, LINK_LOST),
                            !.wait = @ + 1]]
  /\ row' = [z \in Zones |-> [row[z] EXCEPT !.age = Capped(@, OFFLINE_AFTER)]]
  /\ left' = [z \in Zones |-> IF left[z] > 0 THEN left[z] - 1 ELSE 0]
  /\ due' = TRUE
  /\ UNCHANGED <<suspect, broken, until, ring, used>>

(* The ladder of ring_health_eval. *)
Health(z) ==
  IF now < until[z] THEN "UPDATING"
  ELSE IF row[z].age >= OFFLINE_AFTER THEN "OFFLINE"
  ELSE IF row[z].age >= DEGRADED_AFTER THEN "DEGRADED"
  ELSE "ONLINE"

(* ring_health_eval.  A zone is back before its hold ends: one that is not   *)
(* is out of order besides the suspect.                                      *)
Eval ==
  /\ due
  /\ \A z \in Zones : zone[z].away => left[z] > 1
  /\ due' = FALSE
  /\ row' = [z \in Zones |-> [row[z] EXCEPT !.health = Health(z)]]
  /\ IF ret < OPEN_AFTER
     THEN ring' = [state |-> "OK", blame |-> NoVerdict, pending |-> NoVerdict, ticks |-> 0]
     ELSE LET cand  == Blame(row')
              adopt == [state |-> "OPEN", blame |-> cand, pending |-> NoVerdict, ticks |-> 0]
          IN ring' =
             IF ring.state # "OPEN" THEN adopt
             ELSE IF cand = ring.blame THEN [ring EXCEPT !.ticks = 0]
             ELSE IF cand # ring.pending THEN [ring EXCEPT !.pending = cand, !.ticks = 1]
             ELSE IF ring.ticks + 1 >= BLAME_DWELL_TICKS THEN adopt
             ELSE [ring EXCEPT !.ticks = @ + 1]
  /\ UNCHANGED <<suspect, broken, zone, sync, now, until, ret, used, left>>

-----------------------------------------------------------------------------
(* What happens to the ring, before the evaluation of a second: nothing     *)
(* tells it from the end of the second before.                              *)

Booted == [away |-> FALSE, up |-> 0, silent |-> LINK_LOST, wait |-> HB_PERIOD]

Break ==
  /\ due
  /\ ~ broken /\ used < MAX_EVENTS
  /\ \A z \in Zones : zone[z].away => suspect # [kind |-> "dead", at |-> z]
  /\ broken' = TRUE
  /\ used' = used + 1
  /\ UNCHANGED <<suspect, zone, sync, now, row, until, ret, ring, due, left>>

Repair ==
  /\ due
  /\ broken
  /\ broken' = FALSE
  /\ zone' = IF suspect.kind = "dead" THEN [zone EXCEPT ![suspect.at] = Booted] ELSE zone
  /\ UNCHANGED <<suspect, sync, now, row, until, ret, ring, due, used, left>>

Reboot(z) ==
  /\ due
  /\ Powered(z) /\ ~ zone[z].away
  /\ used < MAX_EVENTS
  /\ zone' = [zone EXCEPT ![z] = Booted]
  /\ used' = used + 1
  /\ UNCHANGED <<suspect, broken, sync, now, row, until, ret, ring, due, left>>

(* do_start of the fleet sequencer: node_mgr_mark_updating, and the zone     *)
(* leaves for the rescue image.                                              *)
Leave(z) ==
  /\ due
  /\ Powered(z) /\ ~ zone[z].away
  /\ used < MAX_EVENTS
  /\ zone' = [zone EXCEPT ![z].away = TRUE]
  /\ until' = [until EXCEPT ![z] = (now + HOLD) % WRAP]
  /\ left' = [left EXCEPT ![z] = HOLD]
  /\ used' = used + 1
  /\ UNCHANGED <<suspect, broken, sync, now, row, ret, ring, due>>

Return(z) ==
  /\ due
  /\ zone[z].away
  /\ zone' = [zone EXCEPT ![z] = Booted]
  /\ UNCHANGED <<suspect, broken, sync, now, row, until, ret, ring, due, used, left>>

(* clear_updating: node_mgr_mark_updating with no hold. *)
Cleared(z) ==
  /\ due
  /\ left[z] > 0 /\ ~ zone[z].away
  /\ until' = [until EXCEPT ![z] = now]
  /\ left' = [left EXCEPT ![z] = 0]
  /\ UNCHANGED <<suspect, broken, zone, sync, now, row, ret, ring, due, used>>

-----------------------------------------------------------------------------

Next ==
  \/ Second \/ Eval \/ Break \/ Repair
  \/ \E first \in BOOLEAN : Traffic(first)
  \/ \E z \in Zones : Reboot(z) \/ Leave(z) \/ Return(z) \/ Cleared(z)

Spec == Init /\ [][Next]_vars

(* Time passes, and the boards that run do what is due. *)
Fairness ==
  /\ WF_vars(Second) /\ WF_vars(Eval) /\ WF_vars(\E first \in BOOLEAN : Traffic(first))
  /\ \A z \in Zones : WF_vars(Return(z))

FairSpec == Spec /\ Fairness

-----------------------------------------------------------------------------
(* Properties *)

TypeOK ==
  /\ broken \in BOOLEAN /\ due \in BOOLEAN
  /\ zone \in [Zones -> [away : BOOLEAN, up : 0 .. WITNESS_UPTIME, silent : 0 .. LINK_LOST,
                         wait : 0 .. HB_PERIOD]]
  /\ sync \in 0 .. HB_PERIOD
  /\ now \in 0 .. WRAP - 1
  /\ row \in [Zones -> [health : {"EMPTY", "ONLINE", "DEGRADED", "OFFLINE", "UPDATING"},
                        age : 0 .. OFFLINE_AFTER, heard : BOOLEAN, alive : BOOLEAN,
                        uptime : 0 .. WITNESS_UPTIME]]
  /\ ring.state \in {"IDLE", "OK", "OPEN"}
  /\ ring.ticks \in 0 .. BLAME_DWELL_TICKS - 1
  /\ {ring.blame, ring.pending} \subseteq {NoVerdict, Unripe} \cup (0 .. N) \X (1 .. N + 1)

Named == ring.blame \notin {NoVerdict, Unripe}

(* The comment on ring_blame: it names no cable rather than the wrong one.  *)
(* Whatever zone restarts or is away for an update meanwhile, and however   *)
(* often the suspect breaks and recovers, a segment that is published       *)
(* contains it.                                                             *)
BlameTrue == Named => ring.blame[1] <= suspect.at /\ suspect.at < ring.blame[2]

BreakSeen == (\A z \in Zones : row[z].heard /\ until[z] = 0) /\ broken
BreakTold ==
  ring.blame = <<suspect.at, suspect.at + 1>> \/ ~ broken \/ \E z \in Zones : until[z] > 0

(* A break that stays is not just announced: in the end the verdict is the  *)
(* one leg that is cut, or the board that is dead and the leg below it.     *)
BreakNamed == BreakSeen ~> BreakTold

(* ring_proto.h 247: a zone is UPDATING until updating_until_ms.  Its       *)
(* heartbeat alarms are not withheld once the hold it was given has passed. *)
HoldObeyed == \A z \in Zones : row[z].health = "UPDATING" /\ ~ due => left[z] > 0
=============================================================================
