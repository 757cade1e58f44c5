------------------------------- MODULE Rescue -------------------------------
(***************************************************************************)
(* One board between its bootloader (bootloader_start.c), its application   *)
(* (the handover it writes, the trial it is under) and the rescue image     *)
(* (rescue/main): the pull a handover record asks for, the access point     *)
(* behind it, and the page an operator uploads an image with.  FleetOta has *)
(* the fleet's way into the pull; here are the flag, the button, the NVS    *)
(* records, the Wi-Fi driver and the web server of the rescue image, each   *)
(* with what happens when a step of it fails.                               *)
(*                                                                         *)
(* There is no clock: the trial's windows, the connect timeouts and the     *)
(* second before a reboot pass at any time.                                 *)
(***************************************************************************)
EXTENDS Integers

CONSTANTS
  Images,     \* whole application images
  Torn,       \* a slot that holds none
  PULLS,      \* attempts of one pull (app_main.c: 3)
  STALLS,     \* receive timeouts in a row an upload survives (12)
  CHUNKS,     \* pieces of an upload
  MAX_OP,     \* bound: what operators and the master do
  MAX_FAULT   \* bound: resets out of the blue, and calls that fail

VARIABLES
  flash,    \* the two slots, their otadata states and the one to boot
  nvs,      \* "hando" and "trial" in the "hg" namespace
  flag,     \* the magic word in RTC memory
  mode,     \* what the processor is doing
  pull,     \* rescue's pull: the record it took, the attempts left
  wifi,     \* rescue's driver: started, and as what it runs
  upload,   \* the request httpd is in: its slot, pieces to come, timeouts
  timer,    \* the reboot timer is running
  trial,    \* the trial of the running image
  past,     \* history: the slot that booted into rescue, how the last image
            \* came, requests and pulls, and whether the fallback was written over
  used      \* how much of each bound has been used

vars  == <<flash, nvs, flag, mode, pull, wifi, upload, timer, trial, past, used>>
ram   == <<pull, wifi, upload, timer>>
board == <<flash, nvs, flag>>

Links    == {"bench", "fleet"}     \* expect_link 0 and 1
NoUpload == [on |-> FALSE, dst |-> 1, left |-> 0, stalls |-> 0]
WifiOff  == [started |-> FALSE, runs |-> "none"]
NoPull   == [link |-> "bench", tries |-> 0]
Other(s) == 3 - s
Spend(what, max) == used[what] < max /\ used' = [used EXCEPT ![what] = @ + 1]
Fault    == Spend("fault", MAX_FAULT)

(* "old" is a record the running version does not unpack. *)
Init ==
  /\ \E i \in Images : flash = [slot |-> <<i, Torn>>, ota |-> <<"valid", "bad">>, boot |-> 1]
  /\ nvs \in [hando : {"none", "old"}, crumb : {"none"}]
  /\ flag = FALSE /\ mode = "app" /\ pull = NoPull /\ wifi = WifiOff
  /\ upload = NoUpload /\ timer = FALSE /\ trial = "off"
  /\ past = [from |-> 1, via |-> "pull", asked |-> 0, pulled |-> 0, over |-> FALSE]
  /\ used = [op |-> 0, fault |-> 0]

(* The processor starts again: RAM is lost; without power the retained      *)
(* memory fails its check, and the flag with it.                            *)
Restarts(cold) ==
  /\ mode' = "boot"
  /\ flag' = (flag /\ ~cold)
  /\ pull' = NoPull /\ wifi' = WifiOff /\ upload' = NoUpload /\ timer' = FALSE /\ trial' = "off"

-----------------------------------------------------------------------------
(* The bootloader.                                                          *)

(* The slot is selected before the flag and the button are looked at: an    *)
(* image still on trial is retired, a new one begins its trial.             *)
Selected ==
  LET b == flash.boot IN
  CASE flash.ota[b] = "pending" -> [flash EXCEPT !.ota[b] = "bad", !.boot = Other(b)]
    [] flash.ota[b] = "new"     -> [flash EXCEPT !.ota[b] = "pending"]
    [] OTHER                    -> flash

(* The button: not held, let go within ten seconds, or held. *)
Hold == {"none", "erase", "factory"}

(* call_start_cpu0.  The flag is good for one boot, and comes first; when    *)
(* the selected slot holds no image, the factory image is what is left.     *)
Boot(hold) ==
  /\ mode = "boot"
  /\ IF hold = "none" THEN used' = used ELSE Spend("op", MAX_OP)
  /\ flash' = Selected
  /\ flag' = FALSE
  /\ IF flag \/ hold = "factory" \/ flash'.slot[flash'.boot] = Torn
       THEN mode' = "rescue" /\ nvs' = nvs /\ past' = [past EXCEPT !.from = flash'.boot]
       ELSE /\ mode' = "start"
            /\ nvs' = IF hold = "erase" THEN [hando |-> "none", crumb |-> "none"] ELSE nvs
            /\ past' = past
  /\ UNCHANGED <<ram, trial>>

-----------------------------------------------------------------------------
(* The application.                                                         *)

(* ota_trial_start: only an image on trial reads, and erases, the           *)
(* breadcrumb.                                                              *)
TrialStart ==
  /\ mode = "start"
  /\ mode' = "app"
  /\ IF flash.ota[flash.boot] = "pending"
       THEN /\ trial' = IF nvs.crumb = "fleet" THEN "fleet" ELSE "bench"
            /\ nvs' = [nvs EXCEPT !.crumb = "none"]
       ELSE UNCHANGED <<trial, nvs>>
  /\ UNCHANGED <<flash, flag, ram, past, used>>

TrialPasses ==
  /\ mode = "app" /\ trial # "off"
  /\ trial' = "off"
  /\ flash' = [flash EXCEPT !.ota[flash.boot] = "valid"]
  /\ UNCHANGED <<nvs, flag, mode, ram, past, used>>

(* Only a fleet trial has a deadline. *)
TrialFails ==
  /\ mode = "app" /\ trial = "fleet"
  /\ Restarts(FALSE)
  /\ UNCHANGED <<flash, nvs, past, used>>

(* hg_handover_write: one NVS blob, whole or not there. *)
Stored(link) == [nvs EXCEPT !.hando = link]

(* hg_handover_unpack: magic, version, CRC and strings are as they must be. *)
Unpacks == nvs.hando \in Links

(* The console's and the master's updates: the record, then the flag and    *)
(* the restart.  A record that is not written is the end of it.             *)
WriteHandover(link) ==
  /\ mode = "app"
  /\ Spend("op", MAX_OP)
  /\ mode' = "leaving"
  /\ nvs' = Stored(link)
  /\ past' = [past EXCEPT !.asked = @ + 1]
  /\ UNCHANGED <<flash, flag, ram, trial>>

(* hg_reboot_to_rescue. *)
RebootToRescue ==
  /\ mode = "leaving"
  /\ mode' = "boot" /\ flag' = TRUE /\ trial' = "off"
  /\ UNCHANGED <<flash, nvs, ram, past, used>>

(* A reset, or a power cut, anywhere. *)
Reset(cold) ==
  /\ Fault
  /\ Restarts(cold)
  /\ UNCHANGED <<flash, nvs, past>>

-----------------------------------------------------------------------------
(* Rescue: the record, and the pull.                                        *)

(* Mutant: a record that could not be erased is used all the same. *)
TakeAnyway ==
  /\ mode = "rescue"
  /\ IF Unpacks
       THEN /\ \/ nvs' = [nvs EXCEPT !.hando = "none"] /\ used' = used
               \/ Fault /\ nvs' = nvs
            /\ mode' = "pull" /\ pull' = [link |-> nvs.hando, tries |-> PULLS]
            /\ past' = [past EXCEPT !.pulled = @ + 1]
       ELSE mode' = "ap" /\ nvs' = [nvs EXCEPT !.hando = "none"] /\ UNCHANGED <<pull, past, used>>
  /\ UNCHANGED <<flash, flag, wifi, upload, timer, trial>>

(* hg_handover_take: the record is used once it has been erased; one that    *)
(* does not unpack is erased and not used.                                  *)
Take ==
  /\ mode = "rescue"
  /\ \/ /\ Unpacks
        /\ nvs' = [nvs EXCEPT !.hando = "none"]
        /\ mode' = "pull" /\ pull' = [link |-> nvs.hando, tries |-> PULLS]
        /\ past' = [past EXCEPT !.pulled = @ + 1]
        /\ used' = used
     \/ /\ ~Unpacks
        /\ nvs' = [nvs EXCEPT !.hando = "none"]
        /\ mode' = "ap"
        /\ UNCHANGED <<pull, past, used>>
     \/ /\ Unpacks
        /\ Fault
        /\ nvs' \in {nvs, [nvs EXCEPT !.hando = "none"]}
        /\ mode' = "ap"
        /\ UNCHANGED <<pull, past>>
  /\ UNCHANGED <<flash, flag, wifi, upload, timer, trial>>

(* An attempt less; the last one failed is the way to the access point.     *)
AttemptFails ==
  /\ pull' = [pull EXCEPT !.tries = @ - 1]
  /\ mode' = IF pull.tries = 1 THEN "ap" ELSE "pull"

(* rescue_wifi_sta: the driver is started once and stays started.           *)
Connect ==
  /\ mode = "pull"
  /\ wifi' = [started |-> TRUE, runs |-> "sta"]
  /\ mode' = "fetch" /\ pull' = pull
  /\ UNCHANGED <<board, upload, timer, trial, past, used>>

(* No address within the time, or the access point refused. *)
ConnectFails ==
  /\ mode = "pull"
  /\ wifi' = [started |-> TRUE, runs |-> "sta"]
  /\ AttemptFails
  /\ UNCHANGED <<board, upload, timer, trial, past, used>>

(* The driver does not start. *)
StartFails ==
  /\ mode = "pull" /\ ~wifi.started
  /\ Fault
  /\ AttemptFails
  /\ UNCHANGED <<board, wifi, upload, timer, trial, past>>

(* Mutant: always the first slot. *)
FirstSlot == 1

(* rescue_target_slot: not the one the board would boot. *)
TargetSlot == Other(flash.boot)

(* The slot it writes is the one to fall back to from an unproven image. *)
WritesOver ==
  [past EXCEPT !.over = @ \/ /\ TargetSlot # flash.boot /\ flash.ota[TargetSlot] = "valid"
                             /\ flash.ota[flash.boot] # "valid"]

Erased(s)       == [flash EXCEPT !.slot[s] = Torn]
Installed(s, i) == [slot |-> [flash.slot EXCEPT ![s] = i], ota |-> [flash.ota EXCEPT ![s] = "new"],
                    boot |-> s]

(* rescue_pull: the slot is erased before the first byte is written.        *)
PullStarts ==
  /\ mode = "fetch"
  /\ mode' = "write"
  /\ flash' = Erased(TargetSlot)
  /\ past' = WritesOver
  /\ UNCHANGED <<nvs, flag, ram, trial, used>>

(* No answer, not a 200, too long, or cut short. *)
PullFails ==
  /\ mode \in {"fetch", "write"}
  /\ AttemptFails
  /\ UNCHANGED <<board, wifi, upload, timer, trial, past, used>>

PullCompletes ==
  /\ mode = "write"
  /\ mode' = "wrote"
  /\ \E i \in Images : flash' = Installed(TargetSlot, i)
  /\ past' = [past EXCEPT !.via = "pull"]
  /\ UNCHANGED <<nvs, flag, ram, trial, used>>

(* hg_trial_write, best effort, and the restart. *)
WriteBreadcrumb ==
  /\ mode = "wrote"
  /\ \/ nvs' = [nvs EXCEPT !.crumb = pull.link] /\ used' = used
     \/ Fault /\ nvs' = nvs
  /\ Restarts(FALSE)
  /\ UNCHANGED <<flash, past>>

-----------------------------------------------------------------------------
(* Rescue: the access point and the web server.                             *)

(* Mutant: the mode is switched under a driver that runs. *)
ApUpRunning ==
  /\ mode = "ap"
  /\ mode' = "manual"
  /\ wifi' = [started |-> TRUE, runs |-> IF wifi.started THEN "undefined" ELSE "ap"]
  /\ UNCHANGED <<board, pull, upload, timer, trial, past, used>>

(* rescue_wifi_ap: a driver that runs is stopped first. *)
ApUp ==
  /\ mode = "ap"
  /\ mode' = "manual"
  /\ wifi' = [started |-> TRUE, runs |-> "ap"]
  /\ UNCHANGED <<board, pull, upload, timer, trial, past, used>>

(* One of its calls fails; the server is started all the same. *)
ApFails ==
  /\ mode = "ap"
  /\ Fault
  /\ mode' = "manual"
  /\ wifi' \in {wifi, [started |-> FALSE, runs |-> "none"]}
  /\ UNCHANGED <<board, pull, upload, timer, trial, past>>

Reachable == mode = "manual" /\ wifi.runs = "ap"

(* upload_post, on httpd's one task. *)
UploadStarts ==
  /\ Reachable /\ ~upload.on
  /\ Spend("op", MAX_OP)
  /\ upload' = [on |-> TRUE, dst |-> TargetSlot, left |-> CHUNKS, stalls |-> 0]
  /\ flash' = Erased(TargetSlot)
  /\ past' = WritesOver
  /\ UNCHANGED <<nvs, flag, mode, pull, wifi, timer, trial>>

(* A piece arrives: the timeouts are counted from here again. *)
UploadData ==
  /\ upload.on /\ upload.left > 0
  /\ upload' = [upload EXCEPT !.left = @ - 1, !.stalls = 0]
  /\ UNCHANGED <<board, mode, pull, wifi, timer, trial, past, used>>

(* Mutant: a client that is gone is waited for. *)
UploadWaits ==
  /\ upload.on /\ upload.left > 0
  /\ upload' = [upload EXCEPT !.stalls = IF @ < STALLS THEN @ + 1 ELSE 0]
  /\ UNCHANGED <<board, mode, pull, wifi, timer, trial, past, used>>

(* Five seconds without a byte; one time too many, and it is given up. *)
UploadStalls ==
  /\ upload.on /\ upload.left > 0
  /\ upload' = IF upload.stalls = STALLS THEN NoUpload ELSE [upload EXCEPT !.stalls = @ + 1]
  /\ UNCHANGED <<board, mode, pull, wifi, timer, trial, past, used>>

(* The connection is closed, or what arrived is no image. *)
UploadFails ==
  /\ upload.on
  /\ upload' = NoUpload
  /\ UNCHANGED <<board, mode, pull, wifi, timer, trial, past, used>>

UploadCompletes ==
  /\ upload.on /\ upload.left = 0
  /\ upload' = NoUpload
  /\ \E i \in Images : flash' = Installed(upload.dst, i)
  /\ timer' = TRUE
  /\ past' = [past EXCEPT !.via = "upload"]
  /\ UNCHANGED <<nvs, flag, mode, pull, wifi, trial, used>>

RebootPost ==
  /\ Reachable /\ ~upload.on
  /\ Spend("op", MAX_OP)
  /\ timer' = TRUE
  /\ UNCHANGED <<board, mode, pull, wifi, upload, trial, past>>

(* reboot_cb, on the timer task, whatever httpd is doing. *)
TimerFires ==
  /\ timer
  /\ Restarts(FALSE)
  /\ UNCHANGED <<flash, nvs, past, used>>

Next ==
  \/ \E h \in Hold : Boot(h)
  \/ \E l \in Links : WriteHandover(l)
  \/ \E c \in BOOLEAN : Reset(c)
  \/ TrialStart \/ TrialPasses \/ TrialFails \/ RebootToRescue
  \/ Take \/ Connect \/ ConnectFails \/ StartFails
  \/ PullStarts \/ PullFails \/ PullCompletes \/ WriteBreadcrumb
  \/ ApUp \/ ApFails
  \/ UploadStarts \/ UploadData \/ UploadStalls \/ UploadFails \/ UploadCompletes
  \/ RebootPost \/ TimerFires

Spec == Init /\ [][Next]_vars

(* The processor runs, the timers fire, and every wait of the rescue image  *)
(* has a timeout.                                                           *)
Runs ==
  \/ Boot("none") \/ TrialStart \/ RebootToRescue \/ Take
  \/ Connect \/ ConnectFails \/ PullStarts \/ PullFails \/ PullCompletes \/ WriteBreadcrumb
  \/ ApUp \/ TimerFires

FairSpec == Spec /\ WF_vars(Runs) /\ WF_vars(UploadStalls) /\ WF_vars(UploadCompletes)

-----------------------------------------------------------------------------

Flashes == [slot : [{1, 2} -> Images \cup {Torn}],
            ota : [{1, 2} -> {"valid", "pending", "new", "bad"}], boot : {1, 2}]
Records == [hando : Links \cup {"none", "old"}, crumb : Links \cup {"none"}]
Pulls   == [link : Links, tries : 0 .. PULLS]
Drivers == [started : BOOLEAN, runs : {"none", "sta", "ap"}]
Uploads == [on : BOOLEAN, dst : {1, 2}, left : 0 .. CHUNKS, stalls : 0 .. STALLS]
Pasts   == [from : {1, 2}, via : {"pull", "upload"}, asked : Nat, pulled : Nat, over : BOOLEAN]

TypeOK ==
  /\ flash \in Flashes /\ nvs \in Records
  /\ flag \in BOOLEAN /\ timer \in BOOLEAN
  /\ mode \in {"boot", "start", "app", "leaving", "rescue", "pull", "fetch", "write", "wrote",
               "ap", "manual"}
  /\ pull \in Pulls
  /\ mode \in {"pull", "fetch", "write"} => pull.tries > 0
  /\ wifi \in Drivers
  /\ wifi.runs # "none" => wifi.started
  /\ upload \in Uploads
  /\ trial \in {"off"} \cup Links
  /\ past \in Pasts

(* Whenever the board may be reset, the slot it would boot holds a whole     *)
(* image: rescue writes, by pull or by upload, only the other one           *)
(* (rescue_pull.c 11-18), and selects it only when it is whole.  What it  *)
(* cannot see is that the selected image is unproven and the other one its  *)
(* fallback: an upload taken in the second before the reboot, or the button *)
(* held at the first boot of a new image.                                   *)
BootsWhole == flash.slot[flash.boot] \in Images \/ past.over

(* One request, one pull: a record is erased before it is used              *)
(* (rescue_handover_nvs.c 72-85), so that a board that is reset while it     *)
(* pulls does not come back to pull for ever.                               *)
OneRequestOnePull == past.pulled <= past.asked

Entered == mode = "rescue"
Heard   == mode = "boot" \/ Reachable \/ used.fault > 0

(* A board in rescue does not stay there unheard: it restarts into what it   *)
(* pulled, or it ends at its access point, unless a call of the driver       *)
(* failed (app_main.c 98-118).                                              *)
EndsReachable == Entered ~> Heard

(* A client that vanishes without a word does not keep the recovery server:  *)
(* an upload ends (rescue_http.c 94-102).                                   *)
UploadEnds == upload.on ~> ~upload.on

(* What rescue.h 31-33 says of the slot to write: "whichever of ota_0/ota_1  *)
(* isn't the one that booted into rescue".                                  *)
KeepsWhereItCameFrom == upload.on => upload.dst # past.from

(* What ota_trial.c 23-25 says of the breadcrumb: absent on a bench flash,   *)
(* so that its trial is the bench trial.                                    *)
UploadIsBench == trial = "fleet" => past.via = "pull"

-----------------------------------------------------------------------------
(* What BootsWhole and OneRequestOnePull rest on.                            *)

(* A request that can still be taken has not been counted as pulled.         *)
PendingRequest == nvs.hando \in Links => past.pulled < past.asked

(* httpd is in an upload only behind the access point, and the slot it fills  *)
(* stays the one that is not selected.                                       *)
UploadElsewhere == upload.on => mode = "manual" /\ upload.dst = TargetSlot

(* The selected slot is proven, or the other one is and holds an image to     *)
(* fall back to.                                                             *)
FallsBack ==
  past.over \/ LET b == flash.boot IN
    /\ flash.ota[b] # "bad"
    /\ flash.ota[b] = "valid" \/ (flash.ota[Other(b)] = "valid" /\ flash.slot[Other(b)] \in Images)

(* While a slot is being written the selected one is proven.                 *)
WritesProven == past.over \/ (mode = "write" \/ upload.on => flash.ota[flash.boot] = "valid")

RescueInv ==
  /\ TypeOK /\ BootsWhole /\ OneRequestOnePull
  /\ PendingRequest /\ UploadElsewhere /\ FallsBack /\ WritesProven
=============================================================================
