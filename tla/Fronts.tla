------------------------------- MODULE Fronts -------------------------------
(***************************************************************************)
(* What an operator works with: the console, the web server and its logins, *)
(* the path of a command, the network that is edited, the configuration's   *)
(* fields, and the panel's editors.  Each sees the others as its             *)
(* environment; so one behaviour is a behaviour of one of them (part), whose  *)
(* variables are the slots.                                                 *)
(***************************************************************************)
EXTENDS Commands

CONSTANTS
  FRONTS, POOLED, CMD_SESSIONS, POOL, PATIENCE, FWD_TIMEOUT,             \* CmdPath
  MAX_ISSUED, MAX_STALL,
  SOCKS, BODY_MAX_TIMEOUTS, MAX_TIMEOUTS, DRAIN_MAX_TIMEOUTS,            \* HttpSrv
  WA_SESSIONS, WA_TTL_S, WA_LOCK_FAILS, WA_LOCK_S,                       \* WebLogin
  MAX_LOGIN, MAX_CHANGE, LOGIN_FAULTS,
  WRITERS, READERS, OPS, MAX_OPS, MAX_READ, NET_FAULTS,                  \* MasterNet
  HG_MAX_SHELVES, HG_MAX_AUX, CAPS, TYPED, ROW_TAPS,                     \* FieldRow
  ED_ZONES, VALUES, JOB_POOL, ED_TAPS, MAX_WIPE,                         \* ZoneEdit
  MASTER_TAPS,                                                           \* MasterEdit
  CHARS, CLI_LINE_MAX, CLI_HIST_LEN, CLI_HIST_N, MAX_LINES               \* CliLine

(* httpd has a socket; web and panel are front ends, cmd_task is none; slots *)
(* count from 1; a session lives; nobody is called "none"; a value is not 0.  *)
ASSUME HttpBounds == 1 \in SOCKS
ASSUME LoginBounds == WA_SESSIONS \in Nat /\ WA_TTL_S \in Nat \ {0}
ASSUME CmdBounds  == POOL \subseteq Nat \ {0} /\ POOLED \subseteq FRONTS /\ {"cmd_task", "nobody"} \cap FRONTS = {}
ASSUME NetBounds  == "none" \notin WRITERS /\ OPS \subseteq {"sta", "ap", "tz", "all", "scan"}
ASSUME EditBounds == 0 \notin VALUES /\ VALUES # {}

VARIABLES part, s6, s7, s8, s9, s10, s11, s12, s13, s14, s15, s16, s17, s18, s19

slots == <<now, ses, clock, last, seen, s6, s7, s8, s9, s10, s11, s12, s13, s14, s15, s16, s17, s18,
            s19>>

Cmd == INSTANCE CmdPath WITH CALLERS <- FRONTS, SESSIONS <- CMD_SESSIONS, MAX_CMD <- MAX_ISSUED,
  caller <- now, buf <- ses, held <- clock, gone <- last, pool <- seen, queue <- s6, worker <- s7,
  fwd <- s8, ring <- s9, giving <- s10, note <- s11, issued <- s12, stalls <- s13, late <- s14
Http == INSTANCE HttpSrv WITH conn <- now, srv <- ses
Login == INSTANCE WebLogin WITH MAX_FAULT <- LOGIN_FAULTS, wall <- now, sess <- ses,
  stored <- clock, fails <- last, lock <- seen, seen <- s6, pw <- s7, change <- s8, minted <- s9,
  faults <- s10, recent <- s11, excused <- s12
Net == INSTANCE MasterNet WITH MAX_FAULT <- NET_FAULTS, nvs <- now, buf <- ses, active <- clock,
  holder <- last, task <- seen, copy <- s6, boot <- s7, conf <- s8, marker <- s9, armed <- s10,
  cb <- s11, drv <- s12, drvcfg <- s13, scanning <- s14, events <- s15, live <- s16, used <- s17,
  said <- s18, failed <- s19
FRow == INSTANCE FieldRow WITH MAX_TAP <- ROW_TAPS, table <- now, field <- ses, cap <- clock,
  raw <- last, out <- seen, error <- s6, taps <- s7
Editor == INSTANCE ZoneEdit WITH ZONES <- ED_ZONES, POOL <- JOB_POOL, MAX_TAP <- ED_TAPS, ed <- now,
  load <- ses, save <- clock, card <- last, edits <- seen, fedits <- s6, jobs <- s7, node <- s8,
  poll <- s9, used <- s10
MEditor == INSTANCE MasterEdit WITH MAX_TAP <- MASTER_TAPS, mcfg <- now, medits <- ses,
  frozen <- clock, box <- last, asks <- seen, save <- s6, jobs <- s7, row <- s8, kb <- s9,
  scr <- s10, idle <- s11, agreed <- s12, taps <- s13
Cli == INSTANCE CliLine WITH l <- now, screen <- ses, ran <- clock, entered <- last

(* What a component leaves of the slots.                                    *)
Rest2 == <<clock, last, seen, s6, s7, s8, s9, s10, s11, s12, s13, s14, s15, s16, s17, s18, s19>>
Rest4 == <<seen, s6, s7, s8, s9, s10, s11, s12, s13, s14, s15, s16, s17, s18, s19>>
Rest5 == <<s6, s7, s8, s9, s10, s11, s12, s13, s14, s15, s16, s17, s18, s19>>
Rest7 == <<s8, s9, s10, s11, s12, s13, s14, s15, s16, s17, s18, s19>>
Rest10 == <<s11, s12, s13, s14, s15, s16, s17, s18, s19>>
Rest12 == <<s13, s14, s15, s16, s17, s18, s19>>
Rest13 == <<s14, s15, s16, s17, s18, s19>>
Rest14 == <<s15, s16, s17, s18, s19>>
Free18 == s19 = "free"
Free17 == s18 = "free" /\ Free18
Free16 == s17 = "free" /\ Free17
Free15 == s16 = "free" /\ Free16
Free14 == s15 = "free" /\ Free15
Free13 == s14 = "free" /\ Free14
Free12 == s13 = "free" /\ Free13
Free11 == s12 = "free" /\ Free12
Free10 == s11 = "free" /\ Free11
Free9 == s10 = "free" /\ Free10
Free8 == s9 = "free" /\ Free9
Free7 == s8 = "free" /\ Free8
Free6 == s7 = "free" /\ Free7
Free5 == s6 = "free" /\ Free6
Free4 == seen = "free" /\ Free5
Free3 == last = "free" /\ Free4
Free2 == clock = "free" /\ Free3

FrontsInit ==
  \/ part = "command" /\ Init /\ Free5
  \/ part = "cmd" /\ Cmd!Init /\ Free14
  \/ part = "http" /\ Http!Init /\ Free2
  \/ part = "login" /\ Login!Init /\ Free12
  \/ part = "net" /\ Net!Init
  \/ part = "row" /\ FRow!Init /\ Free7
  \/ part = "editor" /\ Editor!Init /\ Free10
  \/ part = "meditor" /\ MEditor!Init /\ Free13
  \/ part = "line" /\ Cli!Init /\ Free4

FrontsNext ==
  /\ part' = part
  /\ \/ part = "command" /\ Next /\ UNCHANGED Rest5
     \/ part = "cmd"     /\ Cmd!Next /\ UNCHANGED Rest14
     \/ part = "http"    /\ Http!Next /\ UNCHANGED Rest2
     \/ part = "login"   /\ Login!Next /\ UNCHANGED Rest12
     \/ part = "net"     /\ Net!Next
     \/ part = "row"     /\ FRow!Next /\ UNCHANGED Rest7
     \/ part = "editor"  /\ Editor!Next /\ UNCHANGED Rest10
     \/ part = "meditor" /\ MEditor!Next /\ UNCHANGED Rest13
     \/ part = "line"    /\ Cli!Next /\ UNCHANGED Rest4

(* The fairness of each component, those of a kind together: only one of    *)
(* them has steps.                                                          *)
Works(t) ==
  \/ part = "cmd"     /\ t \in FRONTS /\ Cmd!CallerStep(t) /\ UNCHANGED Rest14
  \/ part = "net"     /\ t \in WRITERS /\ Net!Step(t)
Task ==
  \/ part = "http"    /\ Http!HandlerStep /\ UNCHANGED Rest2
  \/ part = "login"   /\ Login!Tick /\ UNCHANGED Rest12
  \/ part = "editor"  /\ Editor!Run /\ UNCHANGED Rest10
  \/ part = "meditor" /\ MEditor!RowRemask /\ UNCHANGED Rest13
Second ==
  \/ part = "login"   /\ (Login!Commit \/ Login!Drop \/ Login!Relogin) /\ UNCHANGED Rest12
  \/ part = "editor"  /\ Editor!Drain /\ UNCHANGED Rest10
  \/ part = "meditor" /\ MEditor!KbRemask /\ UNCHANGED Rest13
Third ==
  \/ part = "cmd"     /\ Cmd!WorkerStep /\ UNCHANGED Rest14
  \/ part = "login"   /\ Login!Login(TRUE) /\ UNCHANGED Rest12
  \/ part = "net"     /\ Net!EventTask
  \/ part = "editor"  /\ Editor!Gather /\ UNCHANGED Rest10
  \/ part = "meditor" /\ MEditor!GoHome /\ UNCHANGED Rest13
Fourth ==
  \/ part = "cmd"     /\ Cmd!GiveForward /\ UNCHANGED Rest14
  \/ part = "net"     /\ Net!Retries
  \/ part = "editor"  /\ Editor!Publish /\ UNCHANGED Rest10
  \/ part = "meditor" /\ MEditor!Run /\ UNCHANGED Rest13
Fifth ==
  \/ part = "cmd"     /\ Cmd!Tick /\ UNCHANGED Rest14
  \/ part = "net"     /\ Net!Boots
  \/ part = "meditor" /\ (MEditor!SaveDone \/ MEditor!ImportDone) /\ UNCHANGED Rest13
Sixth ==
  \/ part = "net"     /\ Net!Joins
Seventh ==
  \/ part = "net"     /\ Net!MarkerAges
Redraw ==
  \/ part = "editor"  /\ Editor!Update /\ UNCHANGED Rest10

FrontsSpec == FrontsInit /\ [][FrontsNext]_<<part, slots>>

Fairness ==
  /\ \A t \in FRONTS \cup WRITERS : WF_slots(Works(t))
  /\ WF_slots(Task) /\ WF_slots(Second) /\ WF_slots(Third) /\ WF_slots(Fourth) /\ WF_slots(Fifth)
  /\ WF_slots(Sixth) /\ WF_slots(Seventh) /\ SF_slots(Redraw)

-----------------------------------------------------------------------------
(* Every component's state is well formed.                                  *)
Types ==
  CASE part = "command" -> TypeOK
    [] part = "cmd"     -> Cmd!TypeOK
    [] part = "http"    -> Http!TypeOK
    [] part = "login"   -> Login!TypeOK
    [] part = "net"     -> Net!TypeOK
    [] part = "row"     -> FRow!TypeOK
    [] part = "editor"  -> Editor!TypeOK
    [] part = "meditor" -> MEditor!TypeOK
    [] part = "line"    -> Cli!TypeOK

(* cmd_task, the forward to a zone, http_cmd and httpd: an answer is that of  *)
(* its own command, a slot has one owner, a request one answer, and a kept    *)
(* connection is in step.                                                     *)
AnswersTrue ==
  /\ part = "cmd"  => Cmd!AnswersBelong /\ Cmd!OneOwner
  /\ part = "http" => Http!InStep /\ Http!AnsweredOnce

(* web_auth and the panel's secrets: the newest logins hold, old cookies end  *)
(* with their password, and a panel left alone keeps no secret.               *)
SecretsKept ==
  /\ part = "login"   => Login!RecentLoginsHold /\ Login!OldCookiesDie
  /\ part = "meditor" => MEditor!SecretsGone

(* mcfg_ops, mcfg_store and wifi_mgr: no writer undoes another, a reader sees *)
(* one whole configuration, and a configured STA is never left alone.         *)
NetKept == part = "net" => Net!NoEditLost /\ Net!WholeCopy /\ Net!NeverStuck

(* The panel's editors: no unsaved value is lost or shown wrong, and no       *)
(* access point changes unasked.                                             *)
EditorsTrue ==
  /\ [](part = "editor" => Editor!ScreenTrue)
  /\ [][/\ part = "editor"  => Editor!EditKept
        /\ part = "meditor" => MEditor!Consented]_slots

(* cmd_core and the panel's rows: a line that help tells runs the row it was  *)
(* told for, a row of an editor speaks the field table's language, and a      *)
(* change shows.                                                             *)
TablesHonest ==
  /\ [](part = "command" => HelpIsHonest)
  /\ [](part = "row" => FRow!RowSpeaksTable)
  /\ [][part = "row" => FRow!ShownChange]_slots

(* cmd_core, the sessions, the clock and cli_line: what destroys needs its    *)
(* confirmation, a guarded command its window and its key, the clock knows    *)
(* who set it, and a line that runs is the line that was seen.                *)
SessionsTrue ==
  /\ part = "command" => ConfirmIsTyped /\ WindowHonoured /\ LastSetterNamed
  /\ part = "line"    => Cli!RunsWhatWasSeen

AtRest ==
  CASE part = "cmd" -> Cmd!AllReturned
    [] part = "net" -> Net!Caught
    [] OTHER        -> TRUE
Asked ==
  CASE part = "http"    -> Http!Busy
    [] part = "login"   -> Login!Locked
    [] part = "editor"  -> Editor!Loading \/ Editor!Saving
    [] part = "meditor" -> MEditor!Uncovered
    [] OTHER            -> FALSE

(* Slots of the command task return, the network that is stored is joined,    *)
(* no peer keeps the web server, a lockout ends, an editor stops loading and   *)
(* saving, and a password is covered again.                                   *)
FrontsServe == <>[]AtRest /\ (Asked ~> ~ Asked)
=============================================================================
