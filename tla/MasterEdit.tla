----------------------------- MODULE MasterEdit -----------------------------
(***************************************************************************)
(* The master's editor on the touch panel (cfg_master.c) and the secrets   *)
(* that pass through it: a revealed row (wdg_field.c), the masked keyboard *)
(* (wdg_keyboard.c), the edit set, the frozen set that waits for a confirm *)
(* or for the worker, and the wipe of an idle panel (pnl_idle.c).          *)
(*                                                                         *)
(* Two fields stand for the table: "tz", and "pass", the secret of the     *)
(* access point; 0 stands for no value, and no secret is blank.            *)
(***************************************************************************)
EXTENDS Naturals, Sequences

CONSTANTS
  VALUES,    \* values of a field, without 0
  MAX_TAP    \* bound: taps of the operator

VARIABLES
  mcfg,    \* the master's configuration
  medits,  \* s_medits, the unsaved values
  frozen,  \* s_mfedits, the set being confirmed or saved
  box,     \* the one confirm dialog: "none", "ap" or "import"
  asks,    \* s_confirming of cfg_master.c
  save,    \* [saving, ui, kept]: s_save
  jobs,    \* this editor's jobs, oldest first
  row,     \* [plain, timer]: the row of the secret
  kb,      \* [field, plain, timer]: the keyboard; field "none" when closed
  scr,     \* [open, redraw, nav]: the screen, and a navigation to Home still queued
  idle,    \* [now, wiped, catcher]: pnl_idle.c
  agreed,  \* history: the set the operator said "Save anyway" to
  taps     \* spent of MAX_TAP

vars == <<mcfg, medits, frozen, box, asks, save, jobs, row, kb, scr, idle, agreed, taps>>

Fields == {"tz", "pass"}
Blank == [f \in Fields |-> 0]

Masked == [plain |-> FALSE, timer |-> FALSE]
NoKb == [field |-> "none", plain |-> FALSE, timer |-> FALSE]

Init ==
  /\ mcfg \in [Fields -> VALUES]
  /\ medits = Blank /\ frozen = Blank
  /\ box = "none" /\ asks = FALSE
  /\ save = [saving |-> FALSE, ui |-> FALSE, kept |-> FALSE]
  /\ jobs = <<>>
  /\ row = Masked /\ kb = NoKb
  /\ scr = [open |-> FALSE, redraw |-> FALSE, nav |-> FALSE]
  /\ idle = [now |-> FALSE, wiped |-> FALSE, catcher |-> FALSE]
  /\ agreed = Blank
  /\ taps = 0

(* A tap reaches the screen unless the panel is dim, and counts as activity.  *)
Tap ==
  /\ ~ idle.catcher /\ taps < MAX_TAP
  /\ taps' = taps + 1
  /\ idle' = [idle EXCEPT !.now = FALSE]

(* The keyboard and the confirm are modal. *)
OnScreen == scr.open /\ kb.field = "none" /\ box = "none" /\ ~ scr.nav

-----------------------------------------------------------------------------
(* Rows *)

(* wdg_field_set_secret_text, wdg_keyboard's set_masked: the timer that is to *)
(* hide the text again may not be had.                                      *)
Timers == BOOLEAN

(* Mutant: shown in any case. *)
ShowAnyway(t) == [plain |-> TRUE, timer |-> t]

(* No timer, no reveal. *)
Shown(t) == [plain |-> t, timer |-> t]

(* ev_reveal: a reveal, or the end of one. *)
Reveal ==
  /\ OnScreen /\ Tap
  /\ row' \in IF row.plain THEN {Masked} ELSE {Shown(t) : t \in Timers}
  /\ UNCHANGED <<mcfg, medits, frozen, box, asks, save, jobs, kb, scr, agreed>>

(* remask_cb *)
RowRemask ==
  /\ row.timer
  /\ row' = Masked
  /\ UNCHANGED <<mcfg, medits, frozen, box, asks, save, jobs, kb, scr, idle, agreed, taps>>

(* wdg_keyboard_open, from ev_text or ev_change *)
OpenKb(f) ==
  /\ OnScreen /\ Tap
  /\ kb' = [NoKb EXCEPT !.field = f]
  /\ UNCHANGED <<mcfg, medits, frozen, box, asks, save, jobs, row, scr, agreed>>

(* ev_eye of a masked keyboard *)
Eye ==
  /\ kb.field = "pass" /\ Tap
  /\ \E t \in Timers :
       LET s == IF kb.plain THEN Masked ELSE Shown(t)
       IN  kb' = [kb EXCEPT !.plain = s.plain, !.timer = s.timer]
  /\ UNCHANGED <<mcfg, medits, frozen, box, asks, save, jobs, row, scr, agreed>>

KbRemask ==
  /\ kb.timer
  /\ kb' = [kb EXCEPT !.plain = FALSE, !.timer = FALSE]
  /\ UNCHANGED <<mcfg, medits, frozen, box, asks, save, jobs, row, scr, idle, agreed, taps>>

(* finish: text_done or secret_done, which also ends a reveal. *)
Finish ==
  /\ kb.field # "none" /\ Tap
  /\ kb' = NoKb
  /\ \/ medits' = medits /\ row' = row
     \/ /\ \E v \in VALUES : medits' = [medits EXCEPT ![kb.field] = v]
        /\ row' = IF kb.field = "pass" THEN Masked ELSE row
  /\ UNCHANGED <<mcfg, frozen, box, asks, save, jobs, scr, agreed>>

-----------------------------------------------------------------------------
(* Save *)

(* submit_save: the pool always has room for this editor's jobs. *)
Submit ==
  /\ jobs' = Append(jobs, [kind |-> "save", live |-> TRUE, ran |-> FALSE, ok |-> FALSE])
  /\ save' = [saving |-> TRUE, ui |-> TRUE, kept |-> FALSE]

(* touches_ap *)
TouchesAp(set) == set["pass"] # 0

(* Mutant: the box does not ask for the set that is saved. *)
SaveUnasked ==
  /\ OnScreen /\ ~ save.ui /\ Tap
  /\ ~ save.saving /\ ~ asks /\ medits # Blank
  /\ frozen' = medits /\ Submit
  /\ UNCHANGED <<mcfg, medits, box, asks, row, kb, scr, agreed>>

(* master_save: the set is frozen, and confirmed when it changes the AP; a   *)
(* set the validators refuse is wiped again.                                *)
Save ==
  /\ OnScreen /\ ~ save.ui /\ Tap
  /\ ~ save.saving /\ ~ asks /\ medits # Blank
  /\ \/ UNCHANGED <<frozen, box, asks, save, jobs>>
     \/ /\ frozen' = medits
        /\ IF TouchesAp(medits)
           THEN box' = "ap" /\ asks' = TRUE /\ UNCHANGED <<save, jobs>>
           ELSE Submit /\ UNCHANGED <<box, asks>>
  /\ UNCHANGED <<mcfg, medits, row, kb, scr, agreed>>

(* Mutant: the box goes, and the set stays. *)
CancelKeeps == frozen

(* ap_cancel: what becomes of the frozen set, by any dismissal. *)
Cancelled == IF save.saving THEN frozen ELSE Blank

(* cf_ok, ap_go *)
SaveAnyway ==
  /\ box = "ap" /\ Tap
  /\ box' = "none" /\ asks' = FALSE /\ agreed' = frozen
  /\ IF scr.open /\ ~ save.saving
     THEN Submit /\ UNCHANGED frozen
     ELSE frozen' = Cancelled /\ UNCHANGED <<save, jobs>>
  /\ UNCHANGED <<mcfg, medits, row, kb, scr>>

(* cf_cancel, ap_cancel *)
DontSave ==
  /\ box = "ap" /\ Tap
  /\ box' = "none" /\ asks' = FALSE /\ frozen' = Cancelled
  /\ UNCHANGED <<mcfg, medits, save, jobs, row, kb, scr, agreed>>

(* cfg_card_import and import_go of the master's file *)
AskImport ==
  /\ OnScreen /\ Tap
  /\ \A i \in DOMAIN jobs : jobs[i].kind # "import"
  /\ box' = "import"
  /\ UNCHANGED <<mcfg, medits, frozen, asks, save, jobs, row, kb, scr, agreed>>

ImportAnswer ==
  /\ box = "import" /\ Tap
  /\ box' = "none"
  /\ \/ jobs' = Append(jobs, [kind |-> "import", live |-> TRUE, ran |-> FALSE, ok |-> FALSE])
     \/ jobs' = jobs
  /\ UNCHANGED <<mcfg, medits, frozen, asks, save, row, kb, scr, agreed>>

-----------------------------------------------------------------------------
(* The worker, and what it brings back *)

Applied(set) == [f \in Fields |-> IF set[f] # 0 THEN set[f] ELSE mcfg[f]]

NextJob(kind) == \E i \in DOMAIN jobs : ~ jobs[i].ran /\ jobs[i].kind = kind /\ \A k \in 1 .. i - 1 : jobs[k].ran

(* psvc_mcfg_edit: the whole set, or nothing. *)
Run ==
  /\ \E i \in DOMAIN jobs :
       /\ ~ jobs[i].ran /\ \A k \in 1 .. i - 1 : jobs[k].ran
       /\ \E ok \in BOOLEAN :
            /\ jobs' = [jobs EXCEPT ![i].ran = TRUE, ![i].ok = ok]
            /\ IF ~ ok THEN mcfg' = mcfg
               ELSE IF jobs[i].kind = "save" THEN mcfg' = Applied(frozen)
               ELSE mcfg' \in {Applied(s) : s \in [Fields -> VALUES \cup {0}]}
  /\ UNCHANGED <<medits, frozen, box, asks, save, row, kb, scr, idle, agreed, taps>>

(* cfg_frame_rerender deletes the rows and closes no keyboard: it is not     *)
(* called under one.                                                        *)
Rerender(r) == IF kb.field = "none" THEN [r EXCEPT !.redraw = FALSE] ELSE [r EXCEPT !.redraw = TRUE]

(* msave_done *)
SaveDone ==
  /\ jobs # <<>> /\ Head(jobs).ran /\ Head(jobs).kind = "save"
  /\ LET ok == Head(jobs).ok
         live == Head(jobs).live /\ scr.open
     IN  /\ medits' = IF ok THEN [f \in Fields |-> IF medits[f] = frozen[f] THEN 0 ELSE medits[f]] ELSE medits
         /\ save' = IF live THEN [saving |-> FALSE, ui |-> FALSE, kept |-> FALSE]
                    ELSE [save EXCEPT !.saving = FALSE, !.kept = TRUE]
         /\ scr' = IF live THEN Rerender(scr) ELSE [scr EXCEPT !.redraw = @ \/ (ok /\ scr.open)]
         /\ row' = IF live /\ kb.field = "none" THEN Masked ELSE row
  /\ frozen' = Blank
  /\ jobs' = Tail(jobs)
  /\ UNCHANGED <<mcfg, box, asks, kb, idle, agreed, taps>>

(* cfg_master_imported *)
ImportDone ==
  /\ jobs # <<>> /\ Head(jobs).ran /\ Head(jobs).kind = "import"
  /\ medits' = IF Head(jobs).ok THEN Blank ELSE medits
  /\ scr' = [scr EXCEPT !.redraw = @ \/ (Head(jobs).ok /\ scr.open)]
  /\ jobs' = Tail(jobs)
  /\ UNCHANGED <<mcfg, frozen, box, asks, save, row, kb, idle, agreed, taps>>

-----------------------------------------------------------------------------
(* The screen *)

(* cfg_master_open, in a new Config screen *)
Open ==
  /\ ~ scr.open /\ ~ scr.nav /\ Tap
  /\ scr' = [open |-> TRUE, redraw |-> FALSE, nav |-> FALSE]
  /\ save' = [save EXCEPT !.ui = save.saving, !.kept = @ /\ save.saving]
  /\ UNCHANGED <<mcfg, medits, frozen, box, asks, jobs, row, kb, agreed>>

(* cfg_master_close by nav_apply: the rows and the keyboard go, a confirm is *)
(* dismissed.                                                               *)
Close ==
  /\ scr' = [open |-> FALSE, redraw |-> FALSE, nav |-> FALSE]
  /\ jobs' = [i \in DOMAIN jobs |-> [jobs[i] EXCEPT !.live = FALSE]]
  /\ row' = Masked /\ kb' = NoKb
  /\ box' = "none" /\ asks' = FALSE
  /\ frozen' = IF asks THEN Cancelled ELSE frozen

Leave ==
  /\ OnScreen /\ Tap
  /\ Close
  /\ UNCHANGED <<mcfg, medits, save, agreed>>

(* nav_apply, queued by the idle wipe *)
GoHome ==
  /\ scr.nav
  /\ Close
  /\ UNCHANGED <<mcfg, medits, save, idle, agreed, taps>>

(* cfg_master_update *)
Update ==
  /\ scr.open /\ ~ scr.nav
  /\ scr.redraw \/ save.ui # save.saving
  /\ save' = IF save.ui = save.saving THEN save ELSE [save EXCEPT !.ui = save.saving, !.kept = @ /\ save.saving]
  /\ scr' = Rerender(scr)
  /\ row' = IF scr.redraw /\ kb.field = "none" THEN Masked ELSE row
  /\ UNCHANGED <<mcfg, medits, frozen, box, asks, jobs, kb, idle, agreed, taps>>

-----------------------------------------------------------------------------
(* pnl_idle.c *)

(* wipe_idle_s is minutes and the tick is a second. *)
GrowsIdle ==
  /\ ~ idle.now /\ ~ idle.wiped
  /\ idle' = [idle EXCEPT !.now = TRUE]
  /\ UNCHANGED <<mcfg, medits, frozen, box, asks, save, jobs, row, kb, scr, agreed, taps>>

(* catcher_pressed: this press wakes the panel and reaches nothing else.     *)
Wake ==
  /\ idle.catcher
  /\ idle' = [idle EXCEPT !.now = FALSE, !.catcher = FALSE]
  /\ UNCHANGED <<mcfg, medits, frozen, box, asks, save, jobs, row, kb, scr, agreed, taps>>

(* Mutant: the worker may still own the frozen set. *)
WipeAnyway == idle.now /\ ~ idle.wiped

(* idle_tick: once in an idle stretch, and never while a job is pending. *)
WipeDue == idle.now /\ ~ idle.wiped /\ jobs = <<>>

(* idle_tick; idle_wipe with cfg_master_wipe. *)
IdleTick ==
  /\ idle.now \/ idle.wiped \/ idle.catcher
  /\ \E dim \in BOOLEAN :
       idle' = [idle EXCEPT !.wiped = idle.now /\ (@ \/ WipeDue), !.catcher = idle.now /\ dim]
  /\ IF WipeDue
     THEN /\ medits' = Blank
          /\ frozen' = Cancelled
          /\ box' = "none" /\ asks' = FALSE
          /\ kb' = NoKb
          /\ save' = [save EXCEPT !.kept = FALSE]
          /\ scr' = [scr EXCEPT !.nav = TRUE, !.redraw = @ \/ scr.open]
     ELSE UNCHANGED <<medits, frozen, box, asks, kb, save, scr>>
  /\ UNCHANGED <<mcfg, jobs, row, agreed, taps>>

-----------------------------------------------------------------------------

Operator ==
  \/ Reveal \/ Eye \/ Finish \/ Save \/ SaveAnyway \/ DontSave \/ AskImport \/ ImportAnswer \/ Open \/ Leave
  \/ \E f \in Fields : OpenKb(f)

Timed == RowRemask \/ KbRemask

Next == Operator \/ Timed \/ Run \/ SaveDone \/ ImportDone \/ GoHome \/ Update \/ GrowsIdle \/ Wake \/ IdleTick

Spec == Init /\ [][Next]_vars

(* The one-shot timers, the LVGL queue and the worker run. *)
Fairness == WF_vars(RowRemask) /\ WF_vars(KbRemask) /\ WF_vars(GoHome) /\ WF_vars(Run) /\ WF_vars(SaveDone \/ ImportDone)

FairSpec == Spec /\ Fairness

-----------------------------------------------------------------------------
(* Properties *)

TypeOK ==
  /\ mcfg \in [Fields -> VALUES]
  /\ medits \in [Fields -> VALUES \cup {0}] /\ frozen \in [Fields -> VALUES \cup {0}]
  /\ box \in {"none", "ap", "import"} /\ (asks <=> box = "ap")
  /\ save.saving <=> \E i \in DOMAIN jobs : jobs[i].kind = "save"
  /\ kb.field # "none" => scr.open

(* A panel left alone forgets: once the idle wipe is through and the panel   *)
(* is back at Home, no edit set, frozen set, dialog, keyboard or row holds a *)
(* value the operator typed or uncovered, nor does one come back.           *)
SecretsGone ==
  idle.now /\ idle.wiped /\ ~ scr.nav =>
    medits = Blank /\ frozen = Blank /\ box = "none" /\ kb = NoKb /\ row = Masked /\ ~ scr.open /\ ~ save.kept

Uncovered == row.plain \/ kb.plain

(* A password in clear is hidden again, whatever the operator does next.     *)
ReMasks == Uncovered ~> ~ Uncovered

Consented == mcfg'["pass"] # mcfg["pass"] /\ NextJob("save") => agreed = frozen

(* The access point changes by a save only after "Save anyway", with just    *)
(* the values that were frozen when it was asked.                           *)
NoConsentNoChange == [][Consented]_mcfg

-----------------------------------------------------------------------------
(* What SecretsGone rests on.                                                *)

Jobs    == [kind : {"save", "import"}, live : BOOLEAN, ran : BOOLEAN, ok : BOOLEAN]
Formed ==
  /\ jobs \in Seq(Jobs)
  /\ save \in [saving : BOOLEAN, ui : BOOLEAN, kept : BOOLEAN]
  /\ scr \in [open : BOOLEAN, redraw : BOOLEAN, nav : BOOLEAN]
  /\ idle \in [now : BOOLEAN, wiped : BOOLEAN, catcher : BOOLEAN]

(* The frozen set is kept through a wipe for a job that is there.            *)
SavingHasJob == save.saving => \E i \in DOMAIN jobs : jobs[i].kind = "save"

(* From the wipe on, and as long as nobody touches the panel: no job, so no   *)
(* answer that could bring a value back, and the row is what Home removes.   *)
WipedClean ==
  idle.now /\ idle.wiped =>
    /\ medits = Blank /\ frozen = Blank /\ box = "none" /\ ~ asks /\ kb = NoKb /\ ~ save.kept
    /\ jobs = <<>>
    /\ scr.nav \/ (~ scr.open /\ row = Masked)

EditInv == Formed /\ SavingHasJob /\ WipedClean

-----------------------------------------------------------------------------
(* What Consented rests on: one save at a time, of a set that leaves the     *)
(* access point alone or was agreed to.                                     *)

SaveJobs == {i \in DOMAIN jobs : jobs[i].kind = "save"}
OneSave  == \A i, k \in SaveJobs : i = k
AskedFirst == SaveJobs # {} => save.saving /\ (frozen["pass"] = 0 \/ agreed = frozen)

ConsentInv == EditInv /\ OneSave /\ AskedFirst
=============================================================================
