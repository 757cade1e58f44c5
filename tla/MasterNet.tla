----------------------------- MODULE MasterNet -----------------------------
(***************************************************************************)
(* The master's own configuration and its house Wi-Fi: the one read-modify-*)
(* write of mcfg_ops.c over the double buffer of mcfg_store.c, the applies *)
(* and the scan that run under its lock (psvc_net.c, psvc_mcfg.c,          *)
(* wifi_mgr.c, wifi_mgr_scan.c), the reconnect ladder of wifi_mgr_sta.c on *)
(* the event and timer tasks, and the SNTP observer of time_svc.c.         *)
(*                                                                         *)
(* A configuration is the house network (0: none), the softAP and the time *)
(* zone, each a small number.  The Wi-Fi driver is external: modelled from *)
(* the calls made to it and the events it answers with.                    *)
(***************************************************************************)
EXTENDS Naturals, Sequences, FiniteSets

CONSTANTS
  WRITERS,   \* tasks that edit the configuration or scan
  READERS,   \* tasks that copy it
  OPS,       \* what the writers may ask for, of "sta", "ap", "tz", "all", "scan"
  MAX_OPS,   \* bound: edits and scans
  MAX_READ,  \* bound: copies
  MAX_FAULT  \* bound: writes and calls that fail, joins that fail, links lost

VARIABLES
  nvs,      \* the stored configuration
  buf,      \* s_buf
  active,   \* s_active
  holder,   \* the writer that holds the lock of mcfg_ops, if any
  task,     \* per writer: where it is, what it was asked for, its private copy
  copy,     \* per reader: the buffer it is copying, its first half, commits since
  boot,     \* app_main: init, radio, started, observed
  conf,     \* s_configured
  marker,   \* s_self_disc_us: 0, 2 while fresh, 1 once it is too old to count
  armed,    \* s_retry is armed
  cb,       \* retry_cb: none, queued, calling esp_wifi_connect
  drv,      \* the driver: what it does, with which network
  drvcfg,   \* the network it is configured for
  scanning, \* a blocking scan runs
  events,   \* the queue of the event task
  live,     \* what is in force: g_wm.sta_up, s_ap_ssid_live, the time zone, SNTP
  used,     \* operations, copies and faults so far
  said,     \* history: per field, the last value a writer was told is stored
  failed    \* history: an apply reported a failure

mcfg == <<nvs, buf, active, said>>
sta  == <<conf, marker, armed, cb, drv, drvcfg, events>>
vars == <<nvs, buf, active, holder, task, copy, boot, conf, marker, armed, cb, drv, drvcfg,
          scanning, events, live, used, said, failed>>

NONE  == "none"
Cfg0  == [sta |-> 1, ap |-> 1, tz |-> 1]
Idle  == [at |-> "idle", op |-> NONE, m |-> Cfg0]
NoCopy == [ptr |-> 0, half |-> Cfg0, commits |-> 0]

Fault == used.fault < MAX_FAULT /\ used' = [used EXCEPT !.fault = @ + 1]

(* Boot has loaded the stored configuration and handed the network to the   *)
(* driver, which is not started yet.                                        *)
Init ==
  /\ nvs = Cfg0 /\ buf = [i \in 1 .. 2 |-> Cfg0] /\ active = 1 /\ said = Cfg0
  /\ holder = NONE
  /\ task = [w \in WRITERS |-> Idle]
  /\ copy = [r \in READERS |-> NoCopy]
  /\ boot = "init"
  /\ conf = TRUE /\ marker = 0 /\ armed = FALSE /\ cb = "none"
  /\ drv = [st |-> "idle", net |-> 0] /\ drvcfg = 1
  /\ scanning = FALSE /\ events = <<>>
  /\ live = [up |-> FALSE, ap |-> 1, tz |-> 1, sntp |-> FALSE]
  /\ used \in [op : 0 .. MAX_OPS, read : 0 .. MAX_READ, fault : 0 .. MAX_FAULT]
  /\ failed = FALSE

-----------------------------------------------------------------------------
(* The driver, and the two ways the code talks to it *)

(* esp_wifi_connect: refused while it is busy, scans, or has no network.     *)
Accepts == drv.st = "idle" /\ ~ scanning /\ drvcfg # 0

(* sta_connect_now, past its gate: a refused connect re-arms the timer.      *)
Connects ==
  \/ Accepts /\ drv' = [st |-> "joining", net |-> drvcfg] /\ UNCHANGED <<armed, used>>
  \/ ~ Accepts /\ armed' = conf /\ UNCHANGED <<drv, used>>
  \/ Accepts /\ Fault /\ armed' = conf /\ UNCHANGED drv

(* self_disconnect: an idle driver posts no event.                          *)
SelfDisconnects ==
  /\ marker' = 2
  /\ drv' = [st |-> "idle", net |-> 0]
  /\ events' = IF drv.st = "idle" THEN events ELSE Append(events, "down")

(* A join takes longer than the calls of an apply that follow each other. *)
Joins ==
  /\ drv.st = "joining" /\ \A w \in WRITERS : task[w].at \notin {"config", "connect"}
  /\ drv' = [drv EXCEPT !.st = "up"]
  /\ events' = Append(events, "ip")
  /\ UNCHANGED <<mcfg, holder, task, copy, boot, conf, marker, armed, cb, drvcfg, scanning, live, used, failed>>

(* A join fails, which takes longer than the marker lasts; or the link is    *)
(* lost.                                                                    *)
Drops ==
  /\ Fault
  /\ drv.st = "up" \/ (drv.st = "joining" /\ marker # 2)
  /\ drv' = [st |-> "idle", net |-> 0]
  /\ events' = Append(events, "down")
  /\ UNCHANGED <<mcfg, holder, task, copy, boot, conf, marker, armed, cb, drvcfg, scanning, live, failed>>

(* SELF_DISC_VALID_US passes. *)
MarkerAges ==
  /\ marker = 2 /\ marker' = 1
  /\ UNCHANGED <<mcfg, holder, task, copy, boot, conf, armed, cb, drv, drvcfg, scanning, events, live, used, failed>>

-----------------------------------------------------------------------------
(* The event task: sta_evt *)

OnStart ==
  /\ Head(events) = "start"
  /\ IF conf THEN Connects ELSE UNCHANGED <<armed, drv, used>>
  /\ events' = Tail(events)
  /\ UNCHANGED <<marker, live>>

(* Mutant: a marker that has expired still claims the next event. *)
OnDownPatient ==
  /\ Head(events) = "down"
  /\ armed' = IF marker > 0 THEN armed ELSE armed \/ conf
  /\ marker' = 0
  /\ live' = [live EXCEPT !.up = FALSE, !.sntp = @ /\ ~ live.up]
  /\ events' = Tail(events)
  /\ UNCHANGED <<drv, used>>

(* WIFI_EVENT_STA_DISCONNECTED: ours, or one that arms the ladder. *)
OnDown ==
  /\ Head(events) = "down"
  /\ armed' = IF marker = 2 THEN armed ELSE armed \/ conf
  /\ marker' = 0
  /\ live' = [live EXCEPT !.up = FALSE, !.sntp = @ /\ ~ live.up]
  /\ events' = Tail(events)
  /\ UNCHANGED <<drv, used>>

(* IP_EVENT_STA_GOT_IP; the observer is told once it is registered.          *)
OnIp ==
  /\ Head(events) = "ip"
  /\ armed' = FALSE /\ marker' = 0
  /\ live' = [live EXCEPT !.up = TRUE, !.sntp = @ \/ boot = "observed"]
  /\ events' = Tail(events)
  /\ UNCHANGED <<drv, used>>

EventTask ==
  /\ events # <<>>
  /\ OnStart \/ OnDown \/ OnIp
  /\ UNCHANGED <<mcfg, holder, task, copy, boot, conf, cb, drvcfg, scanning, failed>>

-----------------------------------------------------------------------------
(* The timer task: retry_cb, which reads s_configured and then connects *)

TimerFires ==
  /\ armed /\ cb = "none"
  /\ armed' = FALSE /\ cb' = "queued"
  /\ UNCHANGED <<mcfg, holder, task, copy, boot, conf, marker, drv, drvcfg, scanning, events, live, used, failed>>

RetryChecks ==
  /\ cb = "queued"
  /\ cb' = IF conf THEN "calling" ELSE "none"
  /\ UNCHANGED <<mcfg, holder, task, copy, boot, conf, marker, armed, drv, drvcfg, scanning, events, live, used, failed>>

RetryConnects ==
  /\ cb = "calling" /\ cb' = "none"
  /\ Connects
  /\ UNCHANGED <<mcfg, holder, task, copy, boot, conf, marker, drvcfg, scanning, events, live, failed>>

-----------------------------------------------------------------------------
(* Boot: wifi_mgr_start's tail, then time_svc_start and wifi_mgr_on_sta *)

StartRadio ==
  /\ boot = "init" /\ boot' = "radio"
  /\ events' = Append(events, "start")
  /\ UNCHANGED <<mcfg, holder, task, copy, conf, marker, armed, cb, drv, drvcfg, scanning, live, used, failed>>

Started ==
  /\ boot = "radio" /\ boot' = "started"
  /\ UNCHANGED <<mcfg, holder, task, copy, sta, scanning, live, used, failed>>

(* A join that came before the registration is replayed. *)
OnSta ==
  /\ boot = "started" /\ boot' = "observed"
  /\ live' = [live EXCEPT !.sntp = live.up]
  /\ UNCHANGED <<mcfg, holder, task, copy, sta, scanning, used, failed>>

Up == boot \in {"started", "observed"}

-----------------------------------------------------------------------------
(* mcfg_ops_edit_ms: lock, snapshot, fn, commit, apply *)

Goes(w, at) == task' = [task EXCEPT ![w].at = at]

(* lock_give *)
Ends(w) == task' = [task EXCEPT ![w] = Idle] /\ holder' = NONE

Asked(w) ==
  /\ task[w].at = "idle" /\ used.op < MAX_OPS
  /\ used' = [used EXCEPT !.op = @ + 1]
  /\ \E op \in OPS : task' = [task EXCEPT ![w] = [at |-> "wait", op |-> op, m |-> buf[active]]]
  /\ UNCHANGED <<mcfg, holder, copy, boot, sta, scanning, live, failed>>

(* The lock was not free within lock_ms. *)
Busy(w) ==
  /\ task[w].at = "wait" /\ holder # NONE
  /\ task' = [task EXCEPT ![w] = Idle]
  /\ UNCHANGED <<mcfg, holder, copy, boot, sta, scanning, live, used, failed>>

(* fn: set_sta_fn, set_ap_fn, set_tz_fn, or several fields at once. *)
Edited(op, m) ==
  CASE op = "sta" -> {[m EXCEPT !.sta = n] : n \in (0 .. 2) \ {m.sta}}
    [] op = "ap"  -> {[m EXCEPT !.ap = 3 - @]}
    [] op = "tz"  -> {[m EXCEPT !.tz = 3 - @]}
    [] op = "all" -> {[m EXCEPT !.sta = n, !.ap = 3 - @, !.tz = 3 - @] : n \in (0 .. 2) \ {m.sta}}

(* Mutant: the snapshot is the one the writer had before it waited. *)
LockStale(w) ==
  /\ task[w].at = "wait" /\ holder = NONE
  /\ holder' = w
  /\ IF task[w].op = "scan" THEN Goes(w, "scan")
     ELSE \E m \in Edited(task[w].op, task[w].m) : task' = [task EXCEPT ![w].at = "commit", ![w].m = m]
  /\ UNCHANGED <<mcfg, copy, boot, sta, scanning, live, used, failed>>

Lock(w) ==
  /\ task[w].at = "wait" /\ holder = NONE
  /\ holder' = w
  /\ IF task[w].op = "scan" THEN Goes(w, "scan")
     ELSE \E m \in Edited(task[w].op, buf[active]) : task' = [task EXCEPT ![w].at = "commit", ![w].m = m]
  /\ UNCHANGED <<mcfg, copy, boot, sta, scanning, live, used, failed>>

(* mcfg_commit: refused by validation, failed on storage, or stored. *)
Commit(w) ==
  /\ task[w].at = "commit"
  /\ \/ Ends(w) /\ UNCHANGED <<nvs, used>>
     \/ Fault /\ Ends(w) /\ UNCHANGED nvs
     \/ nvs' = task[w].m /\ Goes(w, "publish") /\ UNCHANGED <<holder, used>>
  /\ UNCHANGED <<buf, active, said, copy, boot, sta, scanning, live, failed>>

Told(w) ==
  [f \in {"sta", "ap", "tz"} |->
     IF task[w].op \in {f, "all"} THEN task[w].m[f] ELSE said[f]]

(* Mutant: the buffer in use is overwritten. *)
PublishInPlace(w) ==
  /\ task[w].at = "publish"
  /\ buf' = [buf EXCEPT ![active] = task[w].m]
  /\ said' = Told(w)
  /\ copy' = [r \in READERS |-> [copy[r] EXCEPT !.commits = IF copy[r].ptr = 0 THEN 0 ELSE @ + 1]]
  /\ Goes(w, IF task[w].op = "tz" THEN "tz" ELSE "ap")
  /\ UNCHANGED <<nvs, active, holder, boot, sta, scanning, live, used, failed>>

(* The swap: fill the inactive buffer, flip the index. *)
Publish(w) ==
  /\ task[w].at = "publish"
  /\ buf' = [buf EXCEPT ![3 - active] = task[w].m]
  /\ active' = 3 - active
  /\ said' = Told(w)
  /\ copy' = [r \in READERS |-> [copy[r] EXCEPT !.commits = IF copy[r].ptr = 0 THEN 0 ELSE @ + 1]]
  /\ Goes(w, IF task[w].op = "tz" THEN "tz" ELSE "ap")
  /\ UNCHANGED <<nvs, holder, boot, sta, scanning, live, used, failed>>

-----------------------------------------------------------------------------
(* The applies, under the lock: wifi_mgr_apply, wifi_mgr_sta_apply,         *)
(* time_svc_apply_mcfg                                                      *)

(* What follows the Wi-Fi part of an apply, which may have failed. *)
WifiDone(w, ok) ==
  /\ failed' = (failed \/ ~ ok)
  /\ IF task[w].op = "all" THEN Goes(w, "tz") /\ UNCHANGED holder ELSE Ends(w)

(* ap_push_config *)
PushAp(w) ==
  /\ task[w].at = "ap"
  /\ \/ ~ Up /\ WifiDone(w, FALSE) /\ UNCHANGED <<live, used>>
     \/ /\ Up /\ live' = [live EXCEPT !.ap = buf[active].ap]
        /\ Goes(w, "stop") /\ UNCHANGED <<holder, used, failed>>
     \/ Up /\ live.ap # buf[active].ap /\ Fault /\ WifiDone(w, FALSE) /\ UNCHANGED live
  /\ UNCHANGED <<mcfg, copy, boot, sta, scanning>>

StopTimer(w) ==
  /\ task[w].at = "stop"
  /\ armed' = FALSE
  /\ conf' = (conf /\ buf[active].sta # 0)
  /\ Goes(w, "leave")
  /\ UNCHANGED <<mcfg, holder, copy, boot, marker, cb, drv, drvcfg, scanning, events, live, used, failed>>

Leave(w) ==
  /\ task[w].at = "leave"
  /\ SelfDisconnects
  /\ Goes(w, "config")
  /\ UNCHANGED <<mcfg, holder, copy, boot, conf, armed, cb, drvcfg, scanning, live, used, failed>>

(* esp_wifi_set_config, which a join under way refuses: a warning when the    *)
(* network is cleared, an error otherwise.                                  *)
Configure(w) ==
  /\ task[w].at = "config"
  /\ LET n == buf[active].sta IN
       \/ /\ drv.st # "joining"
          /\ drvcfg' = n /\ conf' = (n # 0)
          /\ IF n = 0 THEN WifiDone(w, TRUE) ELSE Goes(w, "connect") /\ UNCHANGED <<holder, failed>>
          /\ UNCHANGED used
       \/ /\ IF drv.st = "joining" THEN UNCHANGED used ELSE Fault
          /\ WifiDone(w, n = 0)
          /\ UNCHANGED <<drvcfg, conf>>
  /\ UNCHANGED <<mcfg, copy, boot, marker, armed, cb, drv, scanning, events, live>>

Connect(w) ==
  /\ task[w].at = "connect"
  /\ Connects
  /\ WifiDone(w, TRUE)
  /\ UNCHANGED <<mcfg, copy, boot, conf, marker, cb, drvcfg, scanning, events, live>>

ApplyTz(w) ==
  /\ task[w].at = "tz"
  /\ live' = [live EXCEPT !.tz = buf[active].tz]
  /\ Ends(w)
  /\ UNCHANGED <<mcfg, copy, boot, sta, scanning, used, failed>>

-----------------------------------------------------------------------------
(* psvc_wifi_scan, wifi_mgr_scan *)

(* A scan is refused while a join is under way; then the STA is parked. *)
ScanStart(w) ==
  /\ task[w].at \in {"scan", "again"}
  /\ IF Up /\ drv.st # "joining"
     THEN scanning' = TRUE /\ Goes(w, IF task[w].at = "scan" THEN "scanning" ELSE "parked") /\ UNCHANGED holder
     ELSE /\ IF ~ Up THEN Ends(w)
             ELSE Goes(w, IF task[w].at = "scan" THEN "park" ELSE "resume") /\ UNCHANGED holder
          /\ UNCHANGED scanning
  /\ UNCHANGED <<mcfg, copy, boot, sta, live, used, failed>>

ScanEnds(w) ==
  /\ task[w].at \in {"scanning", "parked"}
  /\ scanning' = FALSE
  /\ IF task[w].at = "scanning" THEN Ends(w) ELSE Goes(w, "resume") /\ UNCHANGED holder
  /\ UNCHANGED <<mcfg, copy, boot, sta, live, used, failed>>

(* wifi_mgr_sta_pause *)
Park(w) ==
  /\ task[w].at = "park"
  /\ armed' = FALSE
  /\ SelfDisconnects
  /\ Goes(w, "again")
  /\ UNCHANGED <<mcfg, holder, copy, boot, conf, cb, drvcfg, scanning, live, used, failed>>

(* Mutant: the parked STA waits for the ladder, which was stopped. *)
ResumeLater(w) ==
  /\ task[w].at = "resume"
  /\ Ends(w)
  /\ UNCHANGED <<mcfg, copy, boot, sta, scanning, live, used, failed>>

(* wifi_mgr_sta_resume *)
Resume(w) ==
  /\ task[w].at = "resume"
  /\ IF conf THEN Connects ELSE UNCHANGED <<armed, drv, used>>
  /\ Ends(w)
  /\ UNCHANGED <<mcfg, copy, boot, conf, marker, cb, drvcfg, scanning, events, live, failed>>

-----------------------------------------------------------------------------
(* A reader: net_get_mcfg, psvc_mcfg_get.  The copy has two halves. *)

CopyStart(r) ==
  /\ copy[r].ptr = 0 /\ used.read < MAX_READ
  /\ used' = [used EXCEPT !.read = @ + 1]
  /\ copy' = [copy EXCEPT ![r] = [ptr |-> active, half |-> buf[active], commits |-> 0]]
  /\ UNCHANGED <<mcfg, holder, task, boot, sta, scanning, live, failed>>

CopyEnd(r) ==
  /\ copy[r].ptr # 0
  /\ copy' = [copy EXCEPT ![r] = NoCopy]
  /\ UNCHANGED <<mcfg, holder, task, boot, sta, scanning, live, used, failed>>

-----------------------------------------------------------------------------

Step(w) ==
  \/ Lock(w) \/ Commit(w) \/ Publish(w)
  \/ PushAp(w) \/ StopTimer(w) \/ Leave(w) \/ Configure(w) \/ Connect(w) \/ ApplyTz(w)
  \/ ScanStart(w) \/ ScanEnds(w) \/ Park(w) \/ Resume(w)

Retries == TimerFires \/ RetryChecks \/ RetryConnects

Boots == StartRadio \/ Started \/ OnSta

Next ==
  \/ \E w \in WRITERS : Asked(w) \/ Busy(w) \/ Step(w)
  \/ \E r \in READERS : CopyStart(r) \/ CopyEnd(r)
  \/ EventTask \/ Retries \/ Boots
  \/ Joins \/ Drops \/ MarkerAges

Spec == Init /\ [][Next]_vars

(* Every task runs, timers fire, and a join that nothing disturbs ends.      *)
Fairness ==
  /\ \A w \in WRITERS : WF_vars(Step(w))
  /\ WF_vars(EventTask) /\ WF_vars(Retries) /\ WF_vars(Boots)
  /\ WF_vars(Joins) /\ WF_vars(MarkerAges)

FairSpec == Spec /\ Fairness

-----------------------------------------------------------------------------
(* Properties *)

Configs == [sta : 0 .. 2, ap : 1 .. 2, tz : 1 .. 2]

TypeOK ==
  /\ nvs \in Configs /\ said \in Configs /\ buf \in [1 .. 2 -> Configs] /\ active \in 1 .. 2
  /\ holder \in WRITERS \cup {NONE} /\ marker \in 0 .. 2
  /\ {conf, armed, scanning, failed} \subseteq BOOLEAN
  /\ drv.st \in {"idle", "joining", "up"} /\ drvcfg \in 0 .. 2

(* mcfg_ops.c 16: "the second commit would silently drop the first one's      *)
(* field".  What a writer was told is stored stays stored, in RAM and in     *)
(* flash, whatever the other writers do to the other fields.                 *)
NoEditLost ==
  /\ buf[active] = said
  /\ nvs # said => \E w \in WRITERS : task[w].at = "publish"

(* mcfg_store.h 20: a reader sees the old or the new struct, as long as it    *)
(* copies faster than two commits.                                          *)
WholeCopy == \A r \in READERS : copy[r].ptr # 0 /\ copy[r].commits < 2 => buf[copy[r].ptr] = copy[r].half

(* mcfg_store.h 20: "always sees either the whole old struct or the whole new *)
(* one, never a torn mix".                                                  *)
NeverTorn == \A r \in READERS : copy[r].ptr # 0 => buf[copy[r].ptr] = copy[r].half

Quiet == cb = "none" /\ events = <<>> /\ holder = NONE /\ ~ armed /\ boot = "observed"

(* wifi_mgr_sta.c 17: "silently stuck until a reboot".  However scans,        *)
(* applies, own and foreign disconnects and refused connects interleave, a   *)
(* configured STA that is not joined has somebody about to try again, unless *)
(* an apply reported a failure.                                             *)
NeverStuck == Quiet /\ conf /\ ~ failed => drv.st # "idle"

InForce ==
  /\ live.ap = nvs.ap /\ live.tz = nvs.tz
  /\ nvs.sta # 0 => drv = [st |-> "up", net |-> nvs.sta] /\ live.up /\ live.sntp

Caught == failed \/ InForce

(* Once operations and failures stop, the house network that is stored is     *)
(* the one that is joined, the status says so and SNTP runs, and the softAP  *)
(* and the time zone in force are the stored ones.                           *)
EventuallyInForce == <>[]Caught

(* wifi_mgr_sta.c 254: "so a retry_cb that is already queued on the           *)
(* esp_timer task turns into a no-op, and the stored config is zeroed so     *)
(* even a connect that slips through has no network left to rejoin".         *)
LeftStaysLeft == Quiet /\ nvs.sta = 0 /\ ~ failed => drv.st # "up"

-----------------------------------------------------------------------------
(* What holds in every state, with the properties above *)

Fields == {"sta", "ap", "tz"}
Asks   == Fields \cup {"all", "scan"}
Edits  == {"commit", "publish", "ap", "stop", "leave", "config", "connect", "tz"}
Scans  == {"scan", "scanning", "park", "again", "parked", "resume"}
Places == {"idle", "wait"} \cup Edits \cup Scans

Writers ==
  /\ task \in [WRITERS -> [at : Places, op : Asks \cup {NONE}, m : Configs]]
  /\ \A w \in WRITERS :
       /\ task[w].at # "idle" => task[w].op \in Asks
       /\ task[w].at \in Edits => task[w].op # "scan"
Readers == copy \in [READERS -> [ptr : 0 .. 2, half : Configs, commits : Nat]]

(* The lock is held by whoever is past it, and by nobody else.               *)
Locked == \A w \in WRITERS : task[w].at \notin {"idle", "wait"} <=> holder = w

(* An edit under way differs from what is stored in its own fields only.      *)
OwnFields ==
  \A w \in WRITERS : task[w].at \in {"commit", "publish"} =>
    \A f \in Fields : task[w].op \notin {f, "all"} => task[w].m[f] = said[f]
Flashed == \A w \in WRITERS : task[w].at = "publish" => nvs = task[w].m

(* A copy under way reads the buffer in use, or the one in use before it.     *)
Copies ==
  \A r \in READERS : copy[r].ptr # 0 =>
    /\ copy[r].commits = 0 => copy[r].ptr = active /\ copy[r].half = buf[active]
    /\ copy[r].commits = 1 => copy[r].ptr = 3 - active /\ copy[r].half = buf[3 - active]

(* The radio does nothing before it is started; nobody leaves or parks a STA  *)
(* before boot has passed it.                                               *)
Dark ==
  /\ boot \in {"init", "radio", "started", "observed"}
  /\ boot = "init" => drv.st = "idle" /\ events = <<>> /\ ~ armed /\ cb = "none"
  /\ \A w \in WRITERS :
       task[w].at \in {"stop", "leave", "config", "connect"} \cup (Scans \ {"scan"}) => Up

(* The event task is behind the driver: what it still has to hear.            *)
Newest == events[Len(events)]
Behind ==
  /\ events \in Seq({"start", "down", "ip"})
  /\ drv \in [st : {"idle", "joining", "up"}, net : 0 .. 2]
  /\ drv.st # "up" /\ events # <<>> => Newest # "ip"
  /\ drv.st = "up" /\ marker = 2 => events # <<>> /\ Newest = "ip"

(* An apply that clears the network has taken s_configured first.            *)
Clears ==
  \A w \in WRITERS : task[w].at \in {"leave", "config"} /\ buf[active].sta = 0 => ~ conf

(* Who is about to try again: the driver's last word arms the ladder, because *)
(* the marker is stale or an earlier event takes it.                         *)
WillArm ==
  /\ events # <<>> /\ Newest = "down"
  /\ marker # 2 \/ Len(events) > 1
WillConnect ==
  \E w \in WRITERS : task[w].at \in {"leave", "config", "connect", "again", "parked", "resume"}
StartDue == \E i \in 1 .. Len(events) : events[i] = "start"
Somebody ==
  \/ armed \/ cb # "none"
  \/ boot = "init" \/ StartDue
  \/ WillArm \/ WillConnect
Retried == conf /\ ~ failed /\ drv.st = "idle" => Somebody

NetInv ==
  /\ TypeOK /\ Writers /\ Readers /\ Locked /\ OwnFields /\ Flashed /\ NoEditLost
  /\ Copies /\ Dark /\ Behind /\ Clears /\ Retried
=============================================================================
