------------------------------ MODULE ZoneEdit ------------------------------
(***************************************************************************)
(* The zone editor of the touch panel (cfg_zone.c in the frame of          *)
(* cfg_frame.c and scr_config.c, import and export of cfg_card.c): edit    *)
(* sets, loads, saves and imports that run as jobs of the pnl_work task    *)
(* (pnl_worker.c) and come back to a screen that may have been left,       *)
(* rebuilt or handed to another zone, and the watch that tells the         *)
(* operator that a save has landed.                                        *)
(*                                                                         *)
(* A zone has one editable field; value 0 stands for no value.  The jobs   *)
(* are kept in submit order, the one being delivered at the head: its slot *)
(* is free only after its callback.  The node manager is reduced to what   *)
(* node_mgr_cfg_busy and node_mgr_cfg_get show of it.                      *)
(***************************************************************************)
EXTENDS Naturals, Sequences, SequencesExt

CONSTANTS
  ZONES,     \* enrolled zones, a subset of 1 .. 8
  VALUES,    \* values of the field, without 0
  POOL,      \* PNL_JOB_POOL
  MAX_TAP,   \* bound: taps of the operator
  MAX_WIPE   \* bound: idle wipes

VARIABLES
  ed,       \* the editor on screen: cfg_zone.c's statics and its row
  load,     \* [pending, again]: s_load_pending, s_load_again
  save,     \* [saving, ui, kept]: s_save; kept is the zone of the outcome kept
  card,     \* [busy, ask]: cfg_card.c, the confirm of an import
  edits,    \* edits[z]: the unsaved value of zone z
  fedits,   \* the frozen set, read by the worker
  jobs,     \* the jobs of the pool
  node,     \* node[z]: [cache, st, val, who] of the node manager
  poll,     \* [gath, busy, news]: pnl_poll.c
  used      \* spent of MAX_TAP and MAX_WIPE

vars == <<ed, load, save, card, edits, fedits, jobs, node, poll, used>>
frame == <<ed, load, save, card, edits, fedits, jobs>>

Off == 3       \* ed.watch: no save is watched; otherwise the publishes it waits for
Watch == 2     \* the poll's gather must begin after the save was queued

(* cfg_zone_close *)
Closed == [state |-> "closed", zone |-> 0, doc |-> 0, shown |-> 0, kb |-> FALSE, redraw |-> FALSE,
           watch |-> Off, reload |-> FALSE, healed |-> FALSE]

AnyValue == CHOOSE v \in VALUES : TRUE
AnyZone == CHOOSE z \in ZONES : TRUE

Init ==
  /\ ed = Closed
  /\ load = [pending |-> FALSE, again |-> FALSE]
  /\ save = [saving |-> FALSE, ui |-> FALSE, kept |-> 0]
  /\ card = [busy |-> FALSE, ask |-> 0]
  /\ edits = [z \in ZONES |-> 0] /\ fedits = 0
  /\ jobs = <<>>
  /\ \E S \in {ZONES, ZONES \ {AnyZone}} : node = [z \in ZONES |-> [cache |-> IF z \in S THEN AnyValue ELSE 0, st |-> "idle", val |-> 0, who |-> "none"]]
  /\ poll = [gath |-> <<>>, busy |-> {}, news |-> FALSE]
  /\ used \in [tap : 0 .. MAX_TAP, wipe : 0 .. MAX_WIPE]

Tap == used.tap < MAX_TAP /\ used' = [used EXCEPT !.tap = @ + 1]

-----------------------------------------------------------------------------
(* pnl_worker.c *)

Job(kind, z, v) == [kind |-> kind, zone |-> z, live |-> TRUE, ran |-> FALSE, ok |-> FALSE, val |-> v]

Room == Len(jobs) < POOL

(* submit_load_job *)
SubmitLoad(z) ==
  CASE load.pending -> [ok |-> TRUE, jobs |-> jobs, load |-> [load EXCEPT !.again = TRUE]]
    [] ~ load.pending /\ Room -> [ok |-> TRUE, jobs |-> Append(jobs, Job("load", z, 0)), load |-> [load EXCEPT !.pending = TRUE]]
    [] OTHER -> [ok |-> FALSE, jobs |-> jobs, load |-> load]

(* pnl_screen_gen_bump: no job in flight belongs to the new screen. *)
Stale(js) == [i \in DOMAIN js |-> [js[i] EXCEPT !.live = FALSE]]

-----------------------------------------------------------------------------
(* The frame *)

(* cfg_render_group: the row shows the edit, or else the document. *)
Text(z, doc, es) == IF es[z] # 0 THEN es[z] ELSE doc

Render(e, es) == [e EXCEPT !.shown = Text(e.zone, e.doc, es), !.kb = FALSE]

(* cfg_zone_update and done callbacks never yank an open keyboard. *)
Redraw(e, es) == IF e.kb THEN [e EXCEPT !.redraw = TRUE] ELSE Render(e, es)

(* cfg_frame_build: the same tab as before, and no keyboard is open yet. *)
Build(e, es) == Render(e, es)

(* cfg_show_error: the refused row is looked up and outlined. *)
Refused(e, es) == IF e.kb THEN e ELSE Render(e, es)

(* cfg_save_sync *)
Sync(s, rebuilt) ==
  IF ~ rebuilt /\ s.ui = s.saving THEN s
  ELSE [s EXCEPT !.ui = s.saving, !.kept = IF s.saving THEN @ ELSE 0]

-----------------------------------------------------------------------------
(* cfg_zone_open, from close_editor and open_editor of scr_config.c: s is the *)
(* state the editor starts to load from.                                    *)
Open(z, js) ==
  LET r == SubmitLoad(z)
  IN  /\ ed' = [Closed EXCEPT !.zone = z, !.state = IF r.ok THEN "loading" ELSE "failed"]
      /\ load' = r.load
      /\ jobs' = IF r.ok /\ ~ load.pending THEN Append(js, Last(r.jobs)) ELSE js
      /\ card' = [card EXCEPT !.ask = 0]
      /\ UNCHANGED <<save, edits, fedits>>

(* The operator's hands are free: no keyboard and no confirm over the screen. *)
Free == ~ ed.kb /\ card.ask = 0

(* ev_pick: another zone in the same Config screen. *)
Pick(z) ==
  /\ ed.state # "closed" /\ Free /\ z # ed.zone
  /\ Tap
  /\ Open(z, jobs)
  /\ UNCHANGED <<node, poll>>

(* nav_apply to Config: cfg_teardown of the old screen, cfg_build. *)
Enter(z) ==
  /\ Free
  /\ Tap
  /\ Open(z, Stale(jobs))
  /\ poll' = [poll EXCEPT !.news = FALSE]
  /\ UNCHANGED node

(* nav_apply to another destination. *)
Leave ==
  /\ ed.state # "closed" /\ Free
  /\ Tap
  /\ ed' = Closed /\ jobs' = Stale(jobs)
  /\ poll' = [poll EXCEPT !.news = FALSE]
  /\ UNCHANGED <<load, save, card, edits, fedits, node>>

(* start_loading, in the editor that is open. *)
StartLoading(e) ==
  LET r == SubmitLoad(e.zone)
  IN  /\ ed' = [e EXCEPT !.state = IF r.ok THEN "loading" ELSE "failed"]
      /\ load' = r.load /\ jobs' = r.jobs

(* retry_async *)
Retry ==
  /\ ed.state = "failed"
  /\ Tap
  /\ StartLoading(ed)
  /\ UNCHANGED <<save, card, edits, fedits, node, poll>>

-----------------------------------------------------------------------------
(* Editing *)

(* wdg_keyboard_open, from a row *)
Keyboard ==
  /\ ed.state = "loaded" /\ Free
  /\ Tap
  /\ ed' = [ed EXCEPT !.kb = TRUE]
  /\ UNCHANGED <<load, save, card, edits, fedits, jobs, node, poll>>

(* pcfg_edits_set *)
SetEdit(z, v) == [edits EXCEPT ![z] = v]

(* finish of the keyboard, and on_changed when it was accepted. *)
Finish ==
  /\ ed.kb
  /\ \/ ed' = [ed EXCEPT !.kb = FALSE] /\ edits' = edits
     \/ \E v \in VALUES : /\ ed' = [ed EXCEPT !.kb = FALSE, !.shown = v]
                          /\ edits' = SetEdit(ed.zone, v)
  /\ UNCHANGED <<load, save, card, fedits, jobs, node, poll, used>>

(* zone_save: the set is frozen before it is handed to the worker. *)
Save ==
  /\ ed.state = "loaded" /\ Free /\ ~ save.ui /\ ~ save.saving
  /\ edits[ed.zone] # 0
  /\ Tap
  /\ fedits' = edits[ed.zone]
  /\ IF Room
     THEN /\ jobs' = Append(jobs, Job("save", ed.zone, 0))
          /\ ed' = [ed EXCEPT !.watch = Off]
          /\ save' = [saving |-> TRUE, ui |-> TRUE, kept |-> 0]
     ELSE UNCHANGED <<jobs, ed, save>>
  /\ UNCHANGED <<load, card, edits, node, poll>>

-----------------------------------------------------------------------------
(* The card *)

(* card_submit *)
CardSubmit(kind, z) ==
  IF ~ card.busy /\ Room
  THEN jobs' = Append(jobs, Job(kind, z, 0)) /\ card' = [busy |-> TRUE, ask |-> 0]
  ELSE jobs' = jobs /\ card' = [card EXCEPT !.ask = 0]

Export ==
  /\ ed.state = "loaded" /\ Free /\ ~ card.busy
  /\ Tap
  /\ CardSubmit("export", ed.zone)
  /\ UNCHANGED <<ed, load, save, edits, fedits, node, poll>>

(* cfg_card_import: the confirm goes up. *)
AskImport ==
  /\ ed.state = "loaded" /\ Free /\ ~ card.busy
  /\ Tap
  /\ card' = [card EXCEPT !.ask = ed.zone]
  /\ UNCHANGED <<ed, load, save, edits, fedits, jobs, node, poll>>

(* import_go, import_cancel: applied for the editor that asked only. *)
Answer ==
  /\ card.ask # 0
  /\ \/ IF ed.state = "loaded" /\ card.ask = ed.zone
        THEN CardSubmit("import", card.ask)
        ELSE jobs' = jobs /\ card' = [card EXCEPT !.ask = 0]
     \/ jobs' = jobs /\ card' = [card EXCEPT !.ask = 0]
  /\ UNCHANGED <<ed, load, save, edits, fedits, node, poll, used>>

-----------------------------------------------------------------------------
(* The worker *)

NextJob(i) == ~ jobs[i].ran /\ \A k \in 1 .. i - 1 : jobs[k].ran

(* node_mgr_cfg_busy *)
Busy(z) == node[z].st \in {"pending", "pushing"}

Ran(i, ok, v) == jobs' = [jobs EXCEPT ![i].ran = TRUE, ![i].ok = ok, ![i].val = v]

(* psvc_zone_cfg_edit and node_mgr_cfg_set for a whole set: it is queued,    *)
(* unless a write or a transfer is under way, there is no document yet, or   *)
(* the zone is not online or its limits refuse it.                          *)
Edit(i, v) ==
  LET z == jobs[i].zone
  IN  \/ /\ ~ Busy(z) /\ node[z].cache # 0
         /\ node' = [node EXCEPT ![z].st = "pending", ![z].val = v, ![z].who = jobs[i].kind]
         /\ Ran(i, TRUE, v)
      \/ Ran(i, FALSE, v) /\ UNCHANGED node

(* worker_task: one job at a time, in submit order. *)
Run ==
  /\ \E i \in DOMAIN jobs :
       /\ NextJob(i)
       /\ LET j == jobs[i]
          IN  \/ j.kind = "load" /\ Ran(i, node[j.zone].cache # 0, node[j.zone].cache) /\ UNCHANGED node
              \/ j.kind = "save" /\ Edit(i, fedits)
              \/ j.kind = "import" /\ \E v \in VALUES : Edit(i, v)
              \/ j.kind = "export" /\ Ran(i, TRUE, 0) /\ UNCHANGED node
  /\ UNCHANGED <<ed, load, save, card, edits, fedits, poll, used>>

Delivered(kind) == jobs # <<>> /\ Head(jobs).ran /\ Head(jobs).kind = kind

-----------------------------------------------------------------------------
(* load_done *)

LoadStale ==
  /\ Delivered("load")
  /\ LET j == Head(jobs)
         r == SubmitLoad(ed.zone)
         l == [load EXCEPT !.pending = FALSE, !.again = FALSE]
         resubmit == load.again /\ ed.state = "loading" /\ Room
     IN  /\ ~ (j.live /\ ed.state # "closed" /\ j.zone = ed.zone)
         /\ load' = [l EXCEPT !.pending = resubmit]
         /\ jobs' = Tail(IF resubmit THEN Append(jobs, Job("load", ed.zone, 0)) ELSE jobs)
  /\ UNCHANGED <<ed, save, card, edits, fedits, node, poll, used>>

(* A document: the first one builds the frame, a later one only redraws it.  *)
LoadDone ==
  /\ Delivered("load") /\ Head(jobs).live /\ ed.state # "closed" /\ Head(jobs).zone = ed.zone
  /\ LET j == Head(jobs)
         again == load.again /\ j.ok /\ Room
         first == ed.state # "loaded"
         e == [ed EXCEPT !.doc = j.val, !.state = "loaded"]
     IN  /\ load' = [pending |-> again, again |-> FALSE]
         /\ jobs' = Tail(IF again THEN Append(jobs, Job("load", ed.zone, 0)) ELSE jobs)
         /\ IF ~ j.ok THEN /\ ed' = IF first THEN [ed EXCEPT !.state = "failed"] ELSE ed
                           /\ UNCHANGED save
            ELSE /\ ed' = IF first THEN Build(e, edits) ELSE Redraw(e, edits)
                 /\ save' = IF first THEN Sync(save, TRUE) ELSE save
  /\ UNCHANGED <<card, edits, fedits, node, poll, used>>

(* Mutant: whatever the row holds now is dropped. *)
DropAll(z) == [edits EXCEPT ![z] = 0]

(* pcfg_edits_drop_saved: an entry edited again stays. *)
DropSaved(z) == [edits EXCEPT ![z] = IF @ = fedits THEN 0 ELSE @]

(* Following a write to its landing: the watch and the 3 s reload. *)
Follow(e) == [e EXCEPT !.watch = Watch, !.reload = TRUE]

(* psvc_zone_fields_fn, on the document on screen. *)
Merged(e) == [e EXCEPT !.doc = fedits]

(* save_done *)
SaveDone ==
  /\ Delivered("save")
  /\ LET j == Head(jobs)
         same == ed.state # "closed" /\ j.zone = ed.zone
         live == j.live /\ same /\ ed.state = "loaded"
         es == IF j.ok THEN DropSaved(j.zone) ELSE edits
         shown == IF j.ok /\ same /\ ed.state = "loaded" THEN Merged(ed) ELSE ed
         e == IF j.ok /\ same THEN Follow(shown) ELSE shown
     IN  /\ edits' = es
         /\ jobs' = Tail(jobs)
         /\ IF live
            THEN /\ save' = [saving |-> FALSE, ui |-> FALSE, kept |-> 0]
                 /\ ed' = IF j.ok THEN Redraw(e, es) ELSE Refused(e, es)
            ELSE /\ save' = [save EXCEPT !.saving = FALSE, !.kept = j.zone]
                 /\ ed' = IF j.ok /\ same THEN [e EXCEPT !.redraw = TRUE] ELSE e
  /\ fedits' = 0
  /\ UNCHANGED <<load, card, node, poll, used>>

(* Mutant: the row keeps its dot and its text until the reload. *)
ImportedQuietly(z) ==
  /\ edits' = [edits EXCEPT ![z] = 0]
  /\ ed' = IF ed.state = "loaded" /\ z = ed.zone THEN Follow(ed) ELSE ed

(* cfg_zone_imported *)
Imported(z) ==
  /\ edits' = [edits EXCEPT ![z] = 0]
  /\ ed' = IF ed.state = "loaded" /\ z = ed.zone THEN [Follow(ed) EXCEPT !.redraw = TRUE] ELSE ed

(* card_done; the text of its outcome is left out. *)
CardDone ==
  /\ Delivered("import") \/ Delivered("export")
  /\ LET j == Head(jobs)
     IN  /\ IF j.kind = "import" /\ j.ok THEN Imported(j.zone) ELSE UNCHANGED <<edits, ed>>
         /\ card' = [card EXCEPT !.busy = FALSE]
  /\ jobs' = Tail(jobs)
  /\ UNCHANGED <<load, save, fedits, node, poll, used>>

(* reload_cb; a submit that fails leaves the document on screen. *)
Reload ==
  /\ ed.reload
  /\ ed' = [ed EXCEPT !.reload = FALSE]
  /\ LET r == SubmitLoad(ed.zone)
     IN  IF ed.state = "loaded" THEN load' = r.load /\ jobs' = r.jobs ELSE UNCHANGED <<load, jobs>>
  /\ UNCHANGED <<save, card, edits, fedits, node, poll, used>>

-----------------------------------------------------------------------------
(* The poll task, and cfg_zone_update on a snapshot it has published *)

(* A snapshot that would change nothing is left out, and so is what it says  *)
(* of zones whose save is not watched.                                      *)
Awaited ==
  \/ ed.state = "loading" /\ ~ load.pending
  \/ ed.state = "failed" /\ ~ ed.healed
  \/ ed.state = "loaded" /\ (ed.watch # Off \/ ed.redraw \/ save.ui # save.saving)

Gather ==
  /\ poll.gath = <<>> /\ Awaited
  /\ poll' = [poll EXCEPT !.gath = <<{z \in ZONES : z = ed.zone /\ ed.watch # Off /\ Busy(z)}>>]
  /\ UNCHANGED <<frame, node, used>>

Publish ==
  /\ poll.gath # <<>>
  /\ poll' = [gath |-> <<>>, busy |-> poll.gath[1], news |-> TRUE]
  /\ ed' = [ed EXCEPT !.watch = IF @ \in {1, 2} THEN @ - 1 ELSE @]
  /\ UNCHANGED <<load, save, card, edits, fedits, jobs, node, used>>

Ripe == ed.watch = 0 /\ ~ save.saving /\ ed.zone \notin poll.busy

Tick == poll.news /\ ed.state # "closed" /\ poll' = [poll EXCEPT !.news = FALSE]

(* Mutant: a refused submit of a stale load_done is not made up for. *)
UpdateWaits ==
  /\ Tick /\ ed.state = "loading"
  /\ UNCHANGED <<ed, load, save, card, edits, fedits, jobs, node, used>>

UpdateLoading ==
  /\ Tick /\ ed.state = "loading"
  /\ IF load.pending THEN UNCHANGED <<ed, load, jobs>> ELSE StartLoading(ed)
  /\ UNCHANGED <<save, card, edits, fedits, node, used>>

(* heal_check: one retry of its own, once the zone is ready. *)
UpdateFailed ==
  /\ Tick /\ ed.state = "failed"
  /\ \/ ~ ed.healed /\ ~ load.pending /\ StartLoading([ed EXCEPT !.healed = TRUE])
     \/ UNCHANGED <<ed, load, jobs>>
  /\ UNCHANGED <<save, card, edits, fedits, node, used>>

UpdateLoaded ==
  /\ Tick /\ ed.state = "loaded"
  /\ save' = Sync(save, FALSE)
  /\ LET e == IF Ripe THEN [ed EXCEPT !.watch = Off] ELSE ed   \* "Landed on the zone."
     IN  ed' = IF e.redraw /\ ~ e.kb THEN Render([e EXCEPT !.redraw = FALSE], edits) ELSE e
  /\ UNCHANGED <<load, card, edits, fedits, jobs, node, used>>

(* idle_wipe: no job may be pending; the screen goes Home. *)
IdleWipe ==
  /\ jobs = <<>>
  /\ used.wipe < MAX_WIPE /\ used' = [used EXCEPT !.wipe = @ + 1]
  /\ edits' = [z \in ZONES |-> 0]
  /\ ed' = Closed
  /\ save' = [save EXCEPT !.kept = 0]
  /\ card' = [card EXCEPT !.ask = 0]
  /\ poll' = [poll EXCEPT !.news = FALSE]
  /\ UNCHANGED <<load, fedits, jobs, node>>

-----------------------------------------------------------------------------
(* The node manager *)

(* nmgr_cfg_take_set_req, start_set_req: not one step for a reader of busy.  *)
Take(z) ==
  /\ node[z].st = "pending"
  /\ node' = [node EXCEPT ![z].st = "taken"]
  /\ UNCHANGED <<frame, poll, used>>

Push(z) ==
  /\ node[z].st = "taken"
  /\ node' = [node EXCEPT ![z].st = "pushing"]
  /\ UNCHANGED <<frame, poll, used>>

(* The end of the transfer: taken by the zone, or refused or given up. *)
EndPush(z) ==
  /\ node[z].st = "pushing"
  /\ \E ok \in BOOLEAN : node' = [node EXCEPT ![z] = [cache |-> IF ok THEN @.val ELSE @.cache, st |-> "idle", val |-> 0, who |-> "none"]]
  /\ UNCHANGED <<frame, poll, used>>

(* The document of a zone is pulled; of other zones it might as well have   *)
(* been pulled before.                                                      *)
Pull(z) ==
  /\ node[z].cache = 0 /\ ed.zone = z
  /\ node' = [node EXCEPT ![z].cache = AnyValue]
  /\ UNCHANGED <<frame, poll, used>>

-----------------------------------------------------------------------------

Operator ==
  \/ \E z \in ZONES : Pick(z) \/ Enter(z)
  \/ Leave \/ Retry \/ Keyboard \/ Finish \/ Save \/ Export \/ AskImport \/ Answer

Drain == LoadStale \/ LoadDone \/ SaveDone \/ CardDone
Update == UpdateLoading \/ UpdateFailed \/ UpdateLoaded
NodeMgr == \E z \in ZONES : Take(z) \/ Push(z) \/ EndPush(z) \/ Pull(z)

Next == Operator \/ Run \/ Drain \/ Reload \/ Gather \/ Publish \/ Update \/ IdleWipe \/ NodeMgr

Spec == Init /\ [][Next]_vars

(* The worker, the drain timer, the poll task and the shell's tick run. *)
Fairness == WF_vars(Run) /\ WF_vars(Drain) /\ WF_vars(Gather) /\ WF_vars(Publish) /\ SF_vars(Update)

FairSpec == Spec /\ Fairness

-----------------------------------------------------------------------------
(* Properties *)

Kinds == {"load", "save", "import", "export"}
Maybe == VALUES \cup {0}

TypeOK ==
  /\ ed.state \in {"closed", "loading", "loaded", "failed"} /\ ed.zone \in ZONES \cup {0} /\ ed.watch \in 0 .. Off
  /\ ed.kb => ed.state = "loaded"
  /\ edits \in [ZONES -> Maybe] /\ fedits \in Maybe
  /\ Len(jobs) <= POOL /\ \A i \in DOMAIN jobs : jobs[i].kind \in Kinds
  /\ load.pending <=> \E i \in DOMAIN jobs : jobs[i].kind = "load"
  /\ save.saving <=> \E i \in DOMAIN jobs : jobs[i].kind = "save"
  /\ card.busy <=> \E i \in DOMAIN jobs : jobs[i].kind \in {"import", "export"}

EditKept ==
  \A z \in ZONES : edits[z] # 0 /\ edits'[z] = 0 =>
    \/ Delivered("save") /\ Head(jobs).ok /\ Head(jobs).zone = z /\ Head(jobs).val = edits[z]
    \/ Delivered("import") /\ Head(jobs).zone = z /\ Head(jobs).ok
    \/ IdleWipe

(* An unsaved value leaves its edit set only when the node manager has taken *)
(* just that value, when a confirmed import of its zone has been queued, or  *)
(* by the idle wipe, never because a save ended while it was typed again.    *)
NoEditLost == [][EditKept]_vars

(* The row shows the unsaved value, or the document when there is none, or   *)
(* it is due to be redrawn.                                                 *)
ScreenTrue == ed.state = "loaded" /\ ~ ed.redraw => ed.shown = Text(ed.zone, ed.doc, edits)

Loading == ed.state = "loading"
Saving  == ed.state = "loaded" /\ save.ui

(* An editor never stays on "Loading...", nor its Save button on             *)
(* "Saving...", whatever became of the screen that started them.             *)
EditorServes == (Loading ~> ~ Loading) /\ (Saving ~> ~ Saving)

(* cfg_zone.c:315-316 and node_mgr_cfg_api.c:113-118: "Landed on the zone."  *)
(* is told only when the write that was saved has left the node manager.     *)
LandedTrue == ed.state = "loaded" /\ Ripe => node[ed.zone].who # "save"

-----------------------------------------------------------------------------
(* What EditKept and ScreenTrue rest on.                                     *)

Jobs  == [kind : Kinds, zone : ZONES, live : BOOLEAN, ran : BOOLEAN, ok : BOOLEAN, val : Maybe]
Cells == [cache : Maybe, st : {"idle", "pending", "taken", "pushing"}, val : Maybe,
          who : {"none", "save", "import"}]

Formed ==
  /\ DOMAIN ed = DOMAIN Closed
  /\ ed.state # "closed" => ed.zone \in ZONES
  /\ DOMAIN save = {"saving", "ui", "kept"}
  /\ DOMAIN card = {"busy", "ask"} /\ card.ask \in ZONES \cup {0}
  /\ edits \in [ZONES -> Maybe] /\ fedits \in Maybe
  /\ jobs \in Seq(Jobs)
  /\ node \in [ZONES -> Cells]

(* One save at a time: while it lasts the frozen set stands, and what the    *)
(* node manager took is that set.                                           *)
SaveJobs == {i \in DOMAIN jobs : jobs[i].kind = "save"}
OneSave  == \A i, k \in SaveJobs : i = k
TookFrozen == \A i \in SaveJobs : save.saving /\ (jobs[i].ran /\ jobs[i].ok => jobs[i].val = fedits)

ScreenInv == Formed /\ OneSave /\ TookFrozen /\ ScreenTrue
=============================================================================
