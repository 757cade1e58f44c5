------------------------------ MODULE HgStore ------------------------------
(***************************************************************************)
(* A zone's two planes, hw and cfg, between the model in RAM and flash:    *)
(* edits and applied planes (hg_model.c), the store task that picks up     *)
(* what is dirty, wraps it and writes it under a throttle and a backoff,   *)
(* the callers that flush before they answer or restart, and what a boot   *)
(* makes of what it finds (hg_store.c).                                    *)
(*                                                                         *)
(* A plane's content is a version, newer ones being larger and 0 being the *)
(* defaults, and whether it has (hw) or needs (cfg) a certain port: the    *)
(* cross-check of hg_cfg_validate in its smallest form.                    *)
(***************************************************************************)
EXTENDS Naturals, FiniteSets

CONSTANTS
  CALLERS,    \* tasks that may flush
  MAX_EDIT,   \* bound: edits and applied planes
  MAX_FLUSH,  \* bound: flushes
  MAX_FAULT   \* bound: writes that fail, blobs that cannot be read, resets

VARIABLES
  live,     \* s_hw and s_cfg
  dirty,    \* s_dirty
  wire,     \* per plane: the blob staged for writing (pending), if any
  closed,   \* planes whose throttle or backoff window is still open: not to be written
  force,    \* s_force
  pass,     \* the store task within store_pass
  flash,    \* per plane: the blob in NVS, if any
  asked,    \* per caller: what its flush has to make durable, if it is in one
  used,     \* edits, flushes and faults so far
  torn      \* history: a boot has met a pair that does not validate or a blob it cannot read

vars == <<live, dirty, wire, closed, force, pass, flash, asked, used, torn>>

Planes == {"hw", "cfg"}
None   == [ver |-> 0, port |-> FALSE, old |-> FALSE, none |-> TRUE]
Content(v, p) == [ver |-> v, port |-> p, old |-> FALSE, none |-> FALSE]
Defaults == [p \in Planes |-> Content(0, p = "hw")]

(* hg_cfg_validate, on the one condition that relates the planes. *)
Valid(hw, cfg) == cfg.port => hw.port

(* What a boot that can read the plane has: defaults where nothing is stored. *)
Stored(p) == IF flash[p].none THEN Defaults[p] ELSE flash[p]

(* Resets, and writes that fail. *)
Fault == used.fault < MAX_FAULT /\ used' = [used EXCEPT !.fault = @ + 1]

-----------------------------------------------------------------------------
(* Boot: hg_store_init, hg_model_boot_load *)

Asleep == [at |-> "wait", plane |-> "hw", mask |-> {}, force |-> FALSE, again |-> FALSE, hand |-> None]

(* Mutant: the defaults a boot falls back to are staged to be written. *)
LoadsPersists(unread) ==
  LET ok(p)  == p \notin unread /\ ~ flash[p].none
      hw     == IF ok("hw") THEN [flash["hw"] EXCEPT !.old = FALSE] ELSE Defaults["hw"]
      cfgOk  == ok("cfg") /\ Valid(hw, flash["cfg"])
      cfg    == IF cfgOk THEN [flash["cfg"] EXCEPT !.old = FALSE] ELSE Defaults["cfg"]
  IN /\ live' = [p \in Planes |-> IF p = "hw" THEN hw ELSE cfg]
     /\ wire' = [p \in Planes |-> IF flash[p] # live'[p] THEN live'[p] ELSE None]
     /\ dirty' = {} /\ closed' = {} /\ force' = FALSE
     /\ pass' = Asleep
     /\ asked' = [c \in CALLERS |-> [p \in Planes |-> None]]

(* load_hw, load_cfg: the planes that can be read and validate; a plane of  *)
(* an older version is staged to be rewritten.                              *)
Loads(unread) ==
  LET ok(p)  == p \notin unread /\ ~ flash[p].none
      hw     == IF ok("hw") THEN [flash["hw"] EXCEPT !.old = FALSE] ELSE Defaults["hw"]
      cfgOk  == ok("cfg") /\ Valid(hw, flash["cfg"])
      cfg    == IF cfgOk THEN [flash["cfg"] EXCEPT !.old = FALSE] ELSE Defaults["cfg"]
      loaded == {p \in Planes : (p = "hw" /\ ok("hw")) \/ (p = "cfg" /\ cfgOk)}
  IN /\ live' = [p \in Planes |-> IF p = "hw" THEN hw ELSE cfg]
     /\ wire' = [p \in Planes |-> IF p \in loaded /\ flash[p].old THEN live'[p] ELSE None]
     /\ dirty' = {} /\ closed' = {} /\ force' = FALSE
     /\ pass' = Asleep
     /\ asked' = [c \in CALLERS |-> [p \in Planes |-> None]]

Init ==
  /\ flash \in [Planes -> {None, [ver |-> 0, port |-> FALSE, old |-> TRUE, none |-> FALSE]}]
  /\ live = [p \in Planes |-> IF flash[p].none THEN Defaults[p] ELSE Content(0, FALSE)]
  /\ wire = [p \in Planes |-> IF flash[p].none THEN None ELSE live[p]]
  /\ dirty = {} /\ closed = {} /\ force = FALSE
  /\ pass = Asleep
  /\ asked = [c \in CALLERS |-> [p \in Planes |-> None]]
  /\ used = [edit |-> 0, flush |-> 0, fault |-> 0]
  /\ torn = FALSE

(* A reset at any time. *)
Reset ==
  /\ Fault
  /\ \E unread \in SUBSET Planes :
       /\ Loads(unread)
       /\ torn' = (torn \/ unread # {} \/ ~ Valid(Stored("hw"), Stored("cfg")))
  /\ UNCHANGED flash

(* hg_store_factory_reset, which fails or ends in a restart. *)
FactoryReset ==
  /\ Fault
  /\ flash' = [p \in Planes |-> None]
  /\ live' = Defaults /\ wire' = [p \in Planes |-> None]
  /\ dirty' = {} /\ closed' = {} /\ force' = FALSE /\ pass' = Asleep
  /\ asked' = [c \in CALLERS |-> [p \in Planes |-> None]]
  /\ torn' = FALSE

-----------------------------------------------------------------------------
(* hg_model *)

(* Mutant: an applied plane is not validated against the other one. *)
EditUnchecked(p, port) ==
  /\ used.edit < MAX_EDIT
  /\ used' = [used EXCEPT !.edit = @ + 1]
  /\ live' = [live EXCEPT ![p] = Content(used'.edit, port)]
  /\ dirty' = dirty \cup {p}
  /\ UNCHANGED <<wire, closed, force, pass, flash, asked, torn>>

(* hg_model_edit, hg_model_apply_cfg, hg_model_apply_hw: one plane changes  *)
(* if the two still validate together.                                      *)
Edit(p, port) ==
  /\ used.edit < MAX_EDIT
  /\ used' = [used EXCEPT !.edit = @ + 1]
  /\ LET new == Content(used'.edit, port) IN
       /\ IF p = "hw" THEN Valid(new, live["cfg"]) ELSE Valid(live["hw"], new)
       /\ live' = [live EXCEPT ![p] = new]
  /\ dirty' = dirty \cup {p}
  /\ UNCHANGED <<wire, closed, force, pass, flash, asked, torn>>

-----------------------------------------------------------------------------
(* The store task *)

Settled == dirty = {} /\ \A p \in Planes : wire[p].none

MayTake(p) ==
  /\ wire[p].none
  /\ p \in pass.mask \cap dirty
  /\ pass.force \/ p \notin closed

NextPlane(at) ==
  IF pass.plane = "hw" THEN [pass EXCEPT !.at = at, !.plane = "cfg"]
  ELSE [pass EXCEPT !.at = IF at = "take" THEN "write" ELSE "end", !.plane = "hw"]

Wake ==
  /\ pass.at = "wait"
  /\ pass' = [Asleep EXCEPT !.at = "take", !.mask = dirty, !.force = force]
  /\ UNCHANGED <<live, dirty, wire, closed, force, flash, asked, used, torn>>

(* stage_dirty: hg_model_take_dirty copies the plane and clears its bit ...  *)
Take ==
  /\ pass.at = "take"
  /\ LET p == pass.plane IN
       IF MayTake(p)
       THEN /\ dirty' = dirty \ {p}
            /\ pass' = [pass EXCEPT !.at = "stage", !.hand = live[p]]
       ELSE pass' = NextPlane("take") /\ UNCHANGED dirty
  /\ UNCHANGED <<live, wire, closed, force, flash, asked, used, torn>>

(* ... and stage_write marks it pending.                                    *)
Stage ==
  /\ pass.at = "stage"
  /\ wire' = [wire EXCEPT ![pass.plane] = pass.hand]
  /\ pass' = [NextPlane("take") EXCEPT !.hand = None]
  /\ UNCHANGED <<live, dirty, closed, force, flash, asked, used, torn>>

(* Mutant: a blob that could not be written is no longer pending. *)
WriteForgets ==
  /\ pass.at = "write"
  /\ pass' = NextPlane("write")
  /\ LET p == pass.plane IN
       IF wire[p].none \/ (p \in closed /\ ~ pass.force)
       THEN UNCHANGED <<wire, closed, flash, used>>
       ELSE /\ wire' = [wire EXCEPT ![p] = None]
            /\ \/ /\ flash' = [flash EXCEPT ![p] = wire[p]]
                  /\ closed' = IF p = "cfg" THEN closed \cup {p} ELSE closed \ {p}
                  /\ UNCHANGED used
               \/ Fault /\ closed' = closed \cup {p} /\ UNCHANGED flash
  /\ UNCHANGED <<live, dirty, force, asked, torn>>

(* Mutant: a blob that was written stays pending. *)
WriteKeepsPending ==
  /\ pass.at = "write"
  /\ pass' = NextPlane("write")
  /\ LET p == pass.plane IN
       IF wire[p].none \/ (p \in closed /\ ~ pass.force)
       THEN UNCHANGED <<closed, flash, used>>
       ELSE \/ /\ flash' = [flash EXCEPT ![p] = wire[p]]
               /\ closed' = IF p = "cfg" THEN closed \cup {p} ELSE closed \ {p}
               /\ UNCHANGED used
            \/ Fault /\ closed' = closed \cup {p} /\ UNCHANGED flash
  /\ UNCHANGED <<live, dirty, wire, force, asked, torn>>

(* attempt_write: cfg is throttled after a success, both back off after a    *)
(* failure.                                                                  *)
Write ==
  /\ pass.at = "write"
  /\ pass' = NextPlane("write")
  /\ LET p == pass.plane IN
       IF wire[p].none \/ (p \in closed /\ ~ pass.force)
       THEN UNCHANGED <<wire, closed, flash, used>>
       ELSE \/ /\ flash' = [flash EXCEPT ![p] = wire[p]]
               /\ wire' = [wire EXCEPT ![p] = None]
               /\ closed' = IF p = "cfg" THEN closed \cup {p} ELSE closed \ {p}
               /\ UNCHANGED used
            \/ Fault /\ closed' = closed \cup {p} /\ UNCHANGED <<wire, flash>>
  /\ UNCHANGED <<live, dirty, force, asked, torn>>

(* The second round of a forced pass, and the release of the latch. *)
EndPass ==
  /\ pass.at = "end"
  /\ IF pass.force /\ ~ pass.again
     THEN pass' = [pass EXCEPT !.at = "take", !.mask = dirty, !.again = TRUE] /\ UNCHANGED force
     ELSE pass' = Asleep /\ force' = (force /\ ~ (pass.force /\ Settled))
  /\ UNCHANGED <<live, dirty, wire, closed, flash, asked, used, torn>>

(* A throttle or backoff window passes. *)
Opens(p) ==
  /\ p \in closed
  /\ closed' = closed \ {p}
  /\ UNCHANGED <<live, dirty, wire, force, pass, flash, asked, used, torn>>

-----------------------------------------------------------------------------
(* hg_store_flush, of several tasks *)

Flushing(c) == \E p \in Planes : ~ asked[c][p].none

FlushStart(c) ==
  /\ ~ Flushing(c)
  /\ used.flush < MAX_FLUSH
  /\ used' = [used EXCEPT !.flush = @ + 1]
  /\ asked' = [asked EXCEPT ![c] = live]
  /\ UNCHANGED <<live, dirty, wire, closed, force, pass, flash, torn>>

Poll(c) ==
  /\ Flushing(c) /\ ~ Settled
  /\ force' = TRUE
  /\ UNCHANGED <<live, dirty, wire, closed, pass, flash, asked, used, torn>>

FlushDone(c) ==
  /\ Flushing(c) /\ Settled
  /\ asked' = [asked EXCEPT ![c] = [p \in Planes |-> None]]
  /\ UNCHANGED <<live, dirty, wire, closed, force, pass, flash, used, torn>>

FlushTimeout(c) ==
  /\ Flushing(c) /\ ~ Settled
  /\ force' = FALSE
  /\ asked' = [asked EXCEPT ![c] = [p \in Planes |-> None]]
  /\ UNCHANGED <<live, dirty, wire, closed, pass, flash, used, torn>>

-----------------------------------------------------------------------------

StoreTask == Wake \/ Take \/ Stage \/ Write \/ EndPass

Next ==
  \/ StoreTask \/ Reset \/ FactoryReset
  \/ \E p \in Planes : Opens(p) \/ \E port \in BOOLEAN : Edit(p, port)
  \/ \E c \in CALLERS : FlushStart(c) \/ Poll(c) \/ FlushDone(c) \/ FlushTimeout(c)

Spec == Init /\ [][Next]_vars

(* The store task runs and windows pass. *)
Fairness == WF_vars(StoreTask) /\ \A p \in Planes : WF_vars(Opens(p))

FairSpec == Spec /\ Fairness

-----------------------------------------------------------------------------
(* Properties *)

Contents == [ver : Nat, port : BOOLEAN, old : BOOLEAN, none : BOOLEAN]
Passes   == [at : {"wait", "take", "stage", "write", "end"}, plane : Planes, mask : SUBSET Planes,
             force : BOOLEAN, again : BOOLEAN, hand : Contents]

TypeOK ==
  /\ {live, wire, flash} \subseteq [Planes -> Contents]
  /\ dirty \subseteq Planes /\ closed \subseteq Planes
  /\ {force, torn} \subseteq BOOLEAN
  /\ pass \in Passes
  /\ asked \in [CALLERS -> [Planes -> Contents]]

(* The newest content of a plane is on its way to flash. *)
UnderWay(p) ==
  \/ p \in dirty
  \/ wire[p] = live[p]
  \/ pass.at = "stage" /\ pass.plane = p /\ pass.hand = live[p]

(* stage_dirty, attempt_write and hg_model_take_dirty: whatever steps the    *)
(* edits, the passes and the flushes take, the newest content of a plane is  *)
(* in flash or on its way; defaults nobody touched need not be.              *)
NothingForgotten == \A p \in Planes : flash[p] = live[p] \/ live[p].ver = 0 \/ UnderWay(p)

NotBack == \A p \in Planes : flash'[p].ver >= flash[p].ver \/ flash' = [q \in Planes |-> None]

(* A retried or delayed write never replaces a newer one. *)
NeverBack == [][NotBack]_vars

(* hw is written at once and cfg up to 5 s later.  A stored pair that does   *)
(* not validate, from which a boot falls back to a default configuration,    *)
(* is always about to be repaired, unless a reset has hit the very window.   *)
TornIsTransient ==
  Valid(Stored("hw"), Stored("cfg")) \/ torn \/ live["cfg"].ver > flash["cfg"].ver \/ UnderWay("hw")

Durable == \A p \in Planes : live[p].ver > 0 => flash[p] = live[p]

(* Once edits, resets and failures stop, every edit reaches flash. *)
EventuallyDurable == <>[]Durable

(* hg_store.h 6: "0 when all dirty bits written".  A flush that returns 0    *)
(* has made durable what the model held when it began.                       *)
FlushMeansDurable ==
  [][\A c \in CALLERS : Flushing(c) /\ asked'[c] # asked[c] /\ Settled =>
       \A p \in Planes : asked[c][p].ver > 0 => flash[p].ver >= asked[c][p].ver]_vars

-----------------------------------------------------------------------------
(* What the two invariants rest on: together with TypeOK they are inductive. *)

(* Every version is that of an edit that has been made. *)
Versions ==
  /\ used \in [edit : Nat, flush : Nat, fault : Nat]
  /\ pass.hand.ver <= used.edit
  /\ \A p \in Planes : live[p].ver <= used.edit /\ wire[p].ver <= used.edit /\ flash[p].ver <= used.edit

(* What is on its way to flash is what the model holds, or older. *)
OnTheWay ==
  \A p \in Planes :
    /\ ~ live[p].none
    /\ ~ wire[p].none => wire[p] = live[p] \/ wire[p].ver < live[p].ver
    /\ pass.at = "stage" /\ pass.plane = p => pass.hand = live[p] \/ pass.hand.ver < live[p].ver

(* What is dirty, staged or pending is not in flash, and what is dirty is not *)
(* staged or pending: so no write replaces the newest content by an older.   *)
News ==
  \A p \in Planes :
    /\ p \in dirty => flash[p] # live[p] /\ wire[p] # live[p]
    /\ ~ wire[p].none => flash[p] # live[p]
    /\ pass.at = "stage" /\ pass.plane = p =>
         wire[p].none /\ flash[p] # live[p] /\ (p \in dirty => pass.hand # live[p])

LiveValid == Valid(live["hw"], live["cfg"])

(* Unless a boot fell back to defaults, flash is not ahead of the model. *)
FlashBehind ==
  torn \/ \A p \in Planes : \/ live[p].ver > Stored(p).ver
                            \/ live[p].ver = Stored(p).ver /\ live[p].port = Stored(p).port

StoreInv ==
  TypeOK /\ Versions /\ OnTheWay /\ News /\ LiveValid /\ FlashBehind /\ NothingForgotten /\ TornIsTransient
=============================================================================
