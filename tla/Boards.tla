------------------------------- MODULE Boards -------------------------------
(***************************************************************************)
(* The ring's wires, its health, its alarms, and what each board does on    *)
(* its own: the master's boot with the update of its radio, the rescue      *)
(* image, the configuration store, the documents it holds.  They share no   *)
(* state, so one behaviour is a behaviour of one of them (part), whose       *)
(* variables are the slots.                                                 *)
(***************************************************************************)
EXTENDS ZoneDoc

CONSTANTS
  WIRE_ZONES, RING_TTL_INIT, RING_CONSUME_DEPTH, COBS_BLOCK, WIRE_SENDS, WIRE_FAULTS,  \* RingLink
  RING_ZONES, WRAP, HOLD, RING_EVENTS,                                  \* RingHealth
  ALARM_ZONES, NTF_IDX_N, AM_EVENTS, AM_ACTIVE_MAX, MAX_LINES,          \* Alarm
  HOST_VERSION, STAGED, PART_CHUNKS, BOOT_FAULTS,                       \* CpBoot
  Images, Torn, PULLS, STALLS, CHUNKS, RESCUE_OPS, RESCUE_FAULTS,       \* Rescue
  FLUSHERS, STORE_EDITS, STORE_FLUSHES, STORE_FAULTS,                   \* HgStore
  MLEAVES, MAX_SAVE                                                     \* MasterDoc

(* Zone ids start at 1; there is room for an event, an alarm and a latch.     *)
ASSUME AlarmBounds ==
  /\ ALARM_ZONES \subseteq Nat \ {0}
  /\ {NTF_IDX_N, AM_EVENTS, AM_ACTIVE_MAX} \subseteq Nat \ {0}
  /\ MAX_LINES \in Nat
ASSUME RescueBounds == PULLS \in Nat \ {0} /\ STALLS \in Nat /\ CHUNKS \in Nat

VARIABLES part, s9, s10, s11, s12, s13

slots == <<doc, file, exported, dumped, tape, missing, reply, edits, s9, s10, s11, s12, s13>>

Link == INSTANCE RingLink WITH N <- WIRE_ZONES, MAX_SEND <- WIRE_SENDS, MAX_FAULT <- WIRE_FAULTS,
  wire <- doc, dec <- file, resets <- exported, queue <- dumped,
  id <- tape, sub <- missing, seen <- reply
Health == INSTANCE RingHealth WITH N <- RING_ZONES, MAX_EVENTS <- RING_EVENTS, suspect <- doc,
  broken <- file, zone <- exported, sync <- dumped, now <- tape, row <- missing, until <- reply,
  ret <- edits, ring <- s9, due <- s10, used <- s11, left <- s12
Alarm == INSTANCE Alarm WITH ZONES <- ALARM_ZONES, open <- doc, lost <- file, offline <- exported,
  updating <- dumped, silent <- tape, frozen <- missing, quiet <- reply, total <- edits,
  events <- s9, active <- s10, export <- s11, panel <- s12, dropped <- s13
Boot == INSTANCE CpBoot WITH MAX_FAULT <- BOOT_FAULTS, ota <- doc, step <- file, net <- exported,
  trial <- dumped, cp <- tape, sent <- missing, radio <- reply, staged <- edits, faults <- s9,
  hurt <- s10, lostTo <- s11
Rescue == INSTANCE Rescue WITH MAX_OP <- RESCUE_OPS, MAX_FAULT <- RESCUE_FAULTS, flash <- doc,
  nvs <- file, flag <- exported, mode <- dumped, pull <- tape, wifi <- missing, upload <- reply,
  timer <- edits, trial <- s9, past <- s10, used <- s11
Store == INSTANCE HgStore WITH CALLERS <- FLUSHERS, MAX_EDIT <- STORE_EDITS,
  MAX_FLUSH <- STORE_FLUSHES, MAX_FAULT <- STORE_FAULTS, live <- doc, dirty <- file,
  wire <- exported, closed <- dumped, force <- tape, pass <- missing, flash <- reply,
  asked <- edits, used <- s9, torn <- s10
MDoc == INSTANCE MasterDoc WITH mdoc <- doc, mfile <- file, mwas <- exported, saves <- dumped

(* What a component leaves of the slots.                                    *)
Rest4 == <<tape, missing, reply, edits, s9, s10, s11, s12, s13>>
Rest7 == <<edits, s9, s10, s11, s12, s13>>
Rest8 == <<s9, s10, s11, s12, s13>>
Rest10 == <<s11, s12, s13>>
Rest11 == <<s12, s13>>
Rest12 == <<s13>>
Free12 == s13 = "free"
Free11 == s12 = "free" /\ Free12
Free10 == s11 = "free" /\ Free11
Free9 == s10 = "free" /\ Free10
Free8 == s9 = "free" /\ Free9
Free7 == edits = "free" /\ Free8
Free6 == reply = "free" /\ Free7
Free5 == missing = "free" /\ Free6
Free4 == tape = "free" /\ Free5

BoardsInit ==
  \/ part = "doc" /\ Init /\ Free8
  \/ part = "link" /\ Link!Init /\ Free7
  \/ part = "health" /\ Health!Init /\ Free12
  \/ part \in {"export", "screen"} /\ Alarm!Init
  \/ part = "boot" /\ Boot!Init /\ Free11
  \/ part = "rescue" /\ Rescue!Init /\ Free11
  \/ part = "store" /\ Store!Init /\ Free10
  \/ part = "mdoc" /\ MDoc!Init /\ Free4

(* The alarms' two readers: the web export, and the screen.                 *)
BoardsNext ==
  /\ part' = part
  /\ \/ part = "link"   /\ Link!Next   /\ UNCHANGED Rest7
     \/ part = "health" /\ Health!Next /\ UNCHANGED Rest12
     \/ part = "export" /\ Alarm!Next  /\ UNCHANGED s12
     \/ part = "screen" /\ Alarm!Next  /\ UNCHANGED s11
     \/ part = "boot"   /\ Boot!Next   /\ UNCHANGED Rest11
     \/ part = "rescue" /\ Rescue!Next /\ UNCHANGED Rest11
     \/ part = "store"  /\ Store!Next  /\ UNCHANGED Rest10
     \/ part = "doc"    /\ Next        /\ UNCHANGED Rest8
     \/ part = "mdoc"   /\ MDoc!Next   /\ UNCHANGED Rest4

(* The fairness of each component, those of a kind together: only one of    *)
(* them has steps.                                                          *)
Task ==
  \/ part = "health" /\ Health!Second /\ UNCHANGED Rest12
  \/ part = "screen" /\ Alarm!Poll    /\ UNCHANGED s11
  \/ part = "boot"   /\ Boot!AppMain  /\ UNCHANGED Rest11
  \/ part = "rescue" /\ Rescue!Runs   /\ UNCHANGED Rest11
  \/ part = "store"  /\ Store!StoreTask /\ UNCHANGED Rest10
Second ==
  \/ part = "health" /\ Health!Eval   /\ UNCHANGED Rest12
  \/ part = "screen" /\ Alarm!Show    /\ UNCHANGED s11
  \/ part = "boot"   /\ Boot!CpSync   /\ UNCHANGED Rest11
  \/ part = "rescue" /\ Rescue!UploadStalls /\ UNCHANGED Rest11
  \/ part = "store"  /\ Store!Opens("hw") /\ UNCHANGED Rest10
Third ==
  \/ part = "health" /\ (\E first \in BOOLEAN : Health!Traffic(first)) /\ UNCHANGED Rest12
  \/ part = "boot"   /\ Boot!RadioReboots /\ UNCHANGED Rest11
  \/ part = "rescue" /\ Rescue!UploadCompletes /\ UNCHANGED Rest11
  \/ part = "store"  /\ Store!Opens("cfg") /\ UNCHANGED Rest10
Fourth(z) ==
  \/ part = "health" /\ Health!Return(z) /\ UNCHANGED Rest12
  \/ part = "boot"   /\ z = 1 /\ Boot!RadioUp /\ UNCHANGED Rest11

BoardsSpec == BoardsInit /\ [][BoardsNext]_<<part, slots>>

Fairness ==
  WF_slots(Task) /\ WF_slots(Second) /\ WF_slots(Third) /\ \A z \in 1 .. RING_ZONES : WF_slots(Fourth(z))

-----------------------------------------------------------------------------
(* Every component's state is well formed.                                  *)
Types ==
  CASE part = "link"   -> Link!TypeOK
    [] part = "health" -> Health!TypeOK
    [] part \in {"export", "screen"} -> Alarm!TypeOK
    [] part = "boot"   -> Boot!TypeOK
    [] part = "rescue" -> Rescue!TypeOK
    [] part = "store"  -> Store!TypeOK
    [] part \in {"doc", "mdoc"} -> TRUE

(* ring_frame, ring_route and ring_link_forward: what passes a decoder was    *)
(* sent, damage costs only the frames it hits, none reaches a node twice or   *)
(* goes round for ever.  ring_blame: a segment that is named contains the     *)
(* break.                                                                     *)
WiresTrue ==
  /\ part = "link"   => Link!OnlySentFrames /\ Link!DamageIsLocal /\ Link!RoundOnce
  /\ part = "health" => Health!BlameTrue

(* notify.c, alarm_mgr.c and alarm_mgr_json.c: an alarm is active as long as  *)
(* its condition lasts, and an export is gapless and complete.                *)
AlarmsKept == part \in {"export", "screen"} => Alarm!AlarmsTrue /\ Alarm!ExportFaithful

(* app_main, cp_ota and the rescue image: no update costs a board its image   *)
(* on trial or leaves it a torn one to boot, and one request is one pull.     *)
BootsSafe ==
  /\ part = "boot"   => Boot!ImageKept
  /\ part = "rescue" => Rescue!BootsWhole /\ Rescue!OneRequestOnePull

(* hg_store: the newest content of a plane is in flash or on its way, a pair  *)
(* that does not validate is about to be repaired.                            *)
StoreKeeps == part = "store" => Store!NothingForgotten /\ Store!TornIsTransient

(* hg_model_edit, hg_json, the dump and the card: the planes agree, a refusal *)
(* can be located, and what is restored is what was saved.                    *)
DocumentsTrue ==
  /\ [](part = "doc" => PlanesAgree /\ ErrorsLand)
  /\ [][/\ part = "doc"  => Restored /\ TakenWhole
        /\ part = "mdoc" => MDoc!GivesBack]_slots

AtRest ==
  CASE part = "screen" -> Alarm!PanelCurrent
    [] part = "boot"   -> Boot!RingUp
    [] part = "store"  -> Store!Durable
    [] OTHER           -> TRUE
Asked ==
  CASE part = "health" -> Health!BreakSeen
    [] part = "boot"   -> Boot!UpdateDue
    [] part = "rescue" -> Rescue!Entered
    [] OTHER           -> FALSE
Given ==
  CASE part = "health" -> Health!BreakTold
    [] part = "boot"   -> Boot!UpdateDone
    [] part = "rescue" -> Rescue!Heard
    [] OTHER           -> TRUE

(* Edits reach flash, the screen catches up with the alarms, the ring comes   *)
(* up whatever becomes of the radio, a break is narrowed down, a needed       *)
(* update of the radio is done, and a board in rescue is heard of again.      *)
BoardsRecover == <>[]AtRest /\ (Asked ~> Given)
=============================================================================
