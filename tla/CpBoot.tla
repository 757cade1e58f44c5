------------------------------- MODULE CpBoot -------------------------------
(***************************************************************************)
(* A boot of the P4 master and the update of its radio: the order in which *)
(* app_main starts everything, the trial of a new master image             *)
(* (ota_trial.c), and cp_ota_sync, which pushes the image staged in cp_fw  *)
(* to the C6 and waits for the C6 to come back with it.                    *)
(*                                                                         *)
(* There is no clock: the 60 s window of the trial and the 6 s wait for    *)
(* the C6 end when they end, except that the wait does not give up on a C6 *)
(* that is merely still restarting unless a fault is charged for it.       *)
(***************************************************************************)
EXTENDS Naturals, Sequences, SequencesExt

CONSTANTS
  HOST_VERSION,  \* a version is minor * 10 + patch
  STAGED,        \* what cp_fw may hold: [hdr, crc, ver, len]
  PART_CHUNKS,   \* size of the cp_fw partition, in chunks
  MAX_FAULT      \* bound: power cuts, failing calls, SDIO failures, uploads

VARIABLES
  ota,     \* state of the newer master image; the older one is valid
  step,    \* position in BootOrder
  net,     \* [ap, http]: ap_ok and http_ok
  trial,   \* [active, drivers, confirmed] of ota_trial.c
  cp,      \* where cp_ota_sync is, or its result
  sent,    \* chunks written to the C6
  radio,   \* [run, slot, up, due]: the C6
  staged,  \* cp_fw
  faults,  \* spent of MAX_FAULT
  hurt,    \* history: this boot met a fault
  lostTo   \* history: what reset the master when its image on trial was retired

vars == <<ota, step, net, trial, cp, sent, radio, staged, faults, hurt, lostTo>>

(* The calls of app_main that others depend on, in its order. *)
BootOrder == <<"cmd_task_start", "nvs_flash_init", "mcfg_store_init", "ota_trial_start", "panel_start", "wifi_mgr_start",
               "http_srv_start", "node_mgr_start", "drivers_ok", "cp_ota">>

At(s) == step \in DOMAIN BootOrder /\ BootOrder[step] = s
Past(s) == \E i \in 1 .. step - 1 : i \in DOMAIN BootOrder /\ BootOrder[i] = s

NoTrial == [active |-> FALSE, drivers |-> FALSE, confirmed |-> FALSE]

(* ota_trial_running_on_trial *)
OnTrial == ota = "pending"

(* cp_ota_needed: a patch-only difference is compatible. *)
Needed(v) == v \div 10 # HOST_VERSION \div 10

Init ==
  /\ ota \in {"none", "new"}
  /\ step = 1
  /\ net = [ap |-> FALSE, http |-> FALSE]
  /\ trial = NoTrial
  /\ cp = "idle" /\ sent = 0
  /\ radio \in [run : {0} \cup {s.ver : s \in STAGED}, slot : {<<>>}, up : {FALSE}, due : {FALSE}]
  /\ staged \in STAGED
  /\ faults = 0 /\ hurt = FALSE /\ lostTo = "nothing"

Fault == faults < MAX_FAULT /\ faults' = faults + 1 /\ hurt' = TRUE
NoFault == UNCHANGED <<faults, hurt>>

(* The bootloader retires an image that is still on trial, whatever reset    *)
(* it, and begins the trial of a new one.  The C6 is reset with the master.  *)
Reset(cause) ==
  /\ ota' = CASE ota = "pending" -> "aborted" [] ota = "new" -> "pending" [] OTHER -> ota
  /\ lostTo' = IF ota = "pending" THEN cause ELSE lostTo
  /\ step' = 1 /\ net' = [ap |-> FALSE, http |-> FALSE] /\ trial' = NoTrial
  /\ cp' = "idle" /\ sent' = 0
  /\ radio' = [radio EXCEPT !.run = IF radio.due THEN radio.slot[1] ELSE @, !.up = FALSE, !.due = FALSE]
  /\ UNCHANGED staged

PowerCut == Fault /\ Reset("power")

-----------------------------------------------------------------------------
(* app_main *)

(* Every other call: soft on failure, boot goes on. *)
Start ==
  /\ step \in DOMAIN BootOrder
  /\ ~ At("ota_trial_start") /\ ~ At("wifi_mgr_start") /\ ~ At("http_srv_start") /\ ~ At("drivers_ok") /\ ~ At("cp_ota")
  /\ step' = step + 1
  /\ NoFault /\ UNCHANGED <<ota, net, trial, cp, sent, radio, staged, lostTo>>

(* ota_trial_start *)
StartTrial ==
  /\ At("ota_trial_start")
  /\ step' = step + 1
  /\ trial' = [NoTrial EXCEPT !.active = OnTrial]
  /\ NoFault /\ UNCHANGED <<ota, net, cp, sent, radio, staged, lostTo>>

(* A Wi-Fi start that fails takes the web server with it and nothing else. *)
StartWifi ==
  /\ At("wifi_mgr_start")
  /\ step' = step + 1
  /\ \/ net' = [net EXCEPT !.ap = TRUE] /\ NoFault
     \/ net' = net /\ Fault
  /\ UNCHANGED <<ota, trial, cp, sent, radio, staged, lostTo>>

StartHttp ==
  /\ At("http_srv_start")
  /\ step' = step + 1
  /\ \/ net' = [net EXCEPT !.http = net.ap] /\ NoFault
     \/ net' = net /\ net.ap /\ Fault
  /\ UNCHANGED <<ota, trial, cp, sent, radio, staged, lostTo>>

(* ota_trial_drivers_ok, on a boot whose AP and web server are up. *)
DriversOk ==
  /\ At("drivers_ok")
  /\ step' = step + 1
  /\ trial' = [trial EXCEPT !.drivers = @ \/ (trial.active /\ net.http)]
  /\ NoFault /\ UNCHANGED <<ota, net, cp, sent, radio, staged, lostTo>>

(* SET OTA CONFIRM *)
Confirm ==
  /\ Past("cmd_task_start") /\ trial.active /\ ~ trial.confirmed
  /\ trial' = [trial EXCEPT !.confirmed = TRUE]
  /\ NoFault /\ UNCHANGED <<ota, step, net, cp, sent, radio, staged, lostTo>>

(* trial_timer_cb, with the bench criteria: no verdict but PASS. *)
TrialPasses ==
  /\ trial.active /\ (trial.drivers \/ trial.confirmed)
  /\ trial' = [trial EXCEPT !.active = FALSE]
  /\ ota' = "valid"
  /\ NoFault /\ UNCHANGED <<step, net, cp, sent, radio, staged, lostTo>>

(* A master image uploaded over the web; the operator restarts into it. *)
Upload ==
  /\ net.http /\ ~ OnTrial
  /\ ota' = "new"
  /\ Fault /\ UNCHANGED <<step, net, trial, cp, sent, radio, staged, lostTo>>

(* Mutant: only the restart is gated. *)
GateOnRestart ==
  /\ At("cp_ota") /\ cp = "idle"
  /\ step' = step /\ cp' = "link"
  /\ NoFault /\ UNCHANGED <<ota, net, trial, sent, radio, staged, lostTo>>

(* The gate above the push: no radio update during a trial. *)
Gate ==
  /\ At("cp_ota") /\ cp = "idle"
  /\ IF OnTrial THEN step' = step + 1 /\ cp' = cp ELSE step' = step /\ cp' = "link"
  /\ NoFault /\ UNCHANGED <<ota, net, trial, sent, radio, staged, lostTo>>

-----------------------------------------------------------------------------
(* cp_ota_sync *)

(* cp goes on to next, a result or a later part of the function. *)
Goes(next) == cp' = next /\ UNCHANGED <<ota, step, net, trial, staged, lostTo>>

(* The link gate and the version gate. *)
CheckVersion ==
  /\ cp = "link"
  /\ IF ~ radio.up \/ ~ Needed(radio.run) THEN Goes("0") ELSE Goes("header")
  /\ hurt' = (hurt \/ ~ radio.up)
  /\ UNCHANGED <<sent, radio, faults>>

(* The partition, its header, and the CRC of the whole image, before the     *)
(* radio is touched.                                                        *)
CheckStaged ==
  /\ cp = "header"
  /\ \/ Goes("-1") /\ Fault
     \/ Goes(IF staged.hdr /\ staged.len <= PART_CHUNKS /\ staged.crc THEN "begin" ELSE "-1") /\ NoFault
  /\ UNCHANGED <<sent, radio>>

(* eh_host_cp_ota_begin: the C6 erases its other slot. *)
Begin ==
  /\ cp = "begin"
  /\ \/ Goes("-2") /\ Fault
     \/ Goes("push") /\ NoFault
  /\ radio' = [radio EXCEPT !.slot = <<>>]
  /\ sent' = 0

(* Mutant: the whole partition. *)
WholePartition == PART_CHUNKS

(* Exactly the validated length. *)
PushLength == staged.len

Push ==
  /\ cp = "push"
  /\ \/ Goes("-2") /\ Fault /\ UNCHANGED sent
     \/ Goes(IF sent + 1 = PushLength THEN "end" ELSE "push") /\ sent' = sent + 1 /\ NoFault
  /\ UNCHANGED radio

(* eh_host_cp_ota_end: the C6 checks the image it was sent. *)
End ==
  /\ cp = "end"
  /\ \/ Goes("-2") /\ Fault /\ UNCHANGED radio
     \/ /\ IF sent = staged.len
           THEN Goes("activate") /\ radio' = [radio EXCEPT !.slot = <<staged.ver>>]
           ELSE Goes("-2") /\ UNCHANGED radio
        /\ NoFault
  /\ UNCHANGED sent

(* eh_host_cp_ota_activate: its return code proves nothing. *)
Activate ==
  /\ cp = "activate"
  /\ Goes("verify")
  /\ radio' = [radio EXCEPT !.due = TRUE]
  /\ NoFault /\ UNCHANGED sent

(* The wait for the C6: confirmed by the version it reports, or timed out. *)
Verify ==
  /\ cp = "verify"
  /\ \/ radio.up /\ ~ Needed(radio.run) /\ Goes("1") /\ NoFault
     \/ radio.up /\ ~ radio.due /\ Needed(radio.run) /\ Goes("-2") /\ NoFault
     \/ (radio.due \/ ~ radio.up) /\ Goes("-2") /\ Fault
  /\ UNCHANGED <<sent, radio>>

Results == {"0", "1", "-1", "-2"}

(* Mutant: any push restarts the master. *)
ReturnAlways ==
  /\ cp \in Results
  /\ IF cp \in {"1", "-2"} /\ ~ OnTrial
     THEN Reset("radio") /\ hurt' = FALSE /\ UNCHANGED faults
     ELSE /\ step' = step + 1 /\ cp' = "idle"
          /\ NoFault /\ UNCHANGED <<ota, net, trial, sent, radio, staged, lostTo>>

(* cp_ota_restart_for_new_radio, for a confirmed update only. *)
Return ==
  /\ cp \in Results
  /\ IF cp = "1" /\ ~ OnTrial
     THEN Reset("radio") /\ hurt' = FALSE /\ UNCHANGED faults
     ELSE /\ step' = step + 1 /\ cp' = "idle"
          /\ NoFault /\ UNCHANGED <<ota, net, trial, sent, radio, staged, lostTo>>

-----------------------------------------------------------------------------
(* The C6 and the transport *)

RadioUp ==
  /\ ~ radio.up /\ Past("wifi_mgr_start")
  /\ radio' = [radio EXCEPT !.up = TRUE]
  /\ UNCHANGED <<ota, step, net, trial, cp, sent, staged, faults, hurt, lostTo>>

(* Its own timer, after activate. *)
RadioReboots ==
  /\ radio.due
  /\ radio' = [radio EXCEPT !.run = radio.slot[1], !.up = FALSE, !.due = FALSE]
  /\ UNCHANGED <<ota, step, net, trial, cp, sent, staged, faults, hurt, lostTo>>

(* esp_hosted aborts the host when the transport fails under its traffic,    *)
(* while the radio is away.                                                 *)
TransportAborts ==
  /\ ~ radio.up /\ cp = "verify"
  /\ Fault /\ Reset("radio")

-----------------------------------------------------------------------------

CpSync == CheckVersion \/ CheckStaged \/ Begin \/ Push \/ End \/ Activate \/ Verify \/ Return
AppMain == Start \/ StartTrial \/ StartWifi \/ StartHttp \/ DriversOk \/ Gate

Next == AppMain \/ CpSync \/ TrialPasses \/ Confirm \/ Upload \/ PowerCut \/ RadioUp \/ RadioReboots \/ TransportAborts

Spec == Init /\ [][Next]_vars

(* app_main runs, and the C6 restarts and comes up. *)
Fairness == WF_vars(AppMain) /\ WF_vars(CpSync) /\ WF_vars(RadioReboots) /\ WF_vars(RadioUp)

FairSpec == Spec /\ Fairness

-----------------------------------------------------------------------------
(* Properties *)

TypeOK ==
  /\ ota \in {"none", "new", "pending", "valid", "aborted"}
  /\ step \in 1 .. Len(BootOrder) + 1
  /\ cp \in {"idle", "link", "header", "begin", "push", "end", "activate", "verify"} \cup Results
  /\ sent \in 0 .. PART_CHUNKS
  /\ radio.slot \in {<<>>} \cup {<<s.ver>> : s \in STAGED}
  /\ faults \in 0 .. MAX_FAULT

(* app_main's R1: the update of the radio never costs the master an image    *)
(* that is on trial, neither by its own restart nor by the transport's       *)
(* abort.                                                                   *)
ImageKept == lostTo # "radio"

RingUp == Past("node_mgr_start")

(* The ring comes up whatever becomes of the radio, and no staged image, a   *)
(* wrong one included, restarts the master for ever.                        *)
RingStaysUp == <>[]RingUp

GoodStaged == staged.hdr /\ staged.crc /\ staged.len <= PART_CHUNKS /\ ~ Needed(staged.ver)

UpdateDue  == cp = "header" /\ GoodStaged
UpdateDone == ~ Needed(radio.run) \/ hurt

(* A boot that reaches the update outside a trial, with a good image staged  *)
(* and no fault, leaves the radio with firmware the host accepts.            *)
RadioUpdated == UpdateDue ~> UpdateDone

-----------------------------------------------------------------------------
(* What ImageKept rests on: past the gate no image is on trial, and none      *)
(* gets on trial but by a reset, which ends the update.                       *)
NoneOnTrial == cp # "idle" => ~ OnTrial

BootInv == ImageKept /\ NoneOnTrial
=============================================================================
