------------------------------ MODULE Commands ------------------------------
(***************************************************************************)
(* The command line of the two applications: cmd_core's dispatch and HELP,  *)
(* the rows of cmd_common, master_cmds, zone_cmds and ota_trial, and the    *)
(* session and clock state that their handlers read and write.  A line is a *)
(* sequence of words; case is folded.  A line runs in one step: the tasks   *)
(* and buffers that carry it are in CmdPath, a forward's way over the ring  *)
(* in RingCmd.  What the configuration rows do is in ZoneDoc.               *)
(*                                                                         *)
(* now is the uptime of both nodes, in units of which CMD_UNLOCK make the   *)
(* unlock window.                                                           *)
(***************************************************************************)
EXTENDS Integers, Sequences, FiniteSets

CONSTANTS
  WORDS,       \* what a user fills a free argument with
  PLACES,      \* where lines are typed: "console", "web" (master), "local" (zone)
  CMD_UNLOCK,  \* CMD_UNLOCK_MS
  MAX_TIME, MAX_CMD

(* The window has a length; nobody types at the ring's session.              *)
ASSUME UnlockBounds == CMD_UNLOCK \in Nat \ {0} /\ PLACES \subseteq {"console", "web", "local"}

VARIABLES
  now,
  ses,     \* per session: echo, the notify types wanted, when the unlock window ends (0: shut)
  clock,   \* per node: uptime of the last SET TIME and of the last NTP or RING time (0: none)
  last,    \* the last line and what came of it
  seen     \* what a user could have noted: proofs of the key, who set which clock last

vars == <<now, ses, clock, last, seen>>

Nodes    == {"master", "zone"}
ZoneId   == 1                                     \* the zone's id; no other zone is enrolled
Sessions == PLACES \cup {"ring"}                  \* "ring": the zone's session for forwarded lines
NodeOf(s) == IF s \in {"console", "web"} THEN "master" ELSE "zone"

-----------------------------------------------------------------------------
(* The rows.                                                                *)

Arg(type, lo, hi, enums) == [type |-> type, lo |-> lo, hi |-> hi, enums |-> enums]
Num(lo, hi) == Arg("int", lo, hi, <<>>)
Enum(names) == Arg("enum", 0, 0, names)
Str         == Arg("str", 0, 0, <<>>)
Mac         == Arg("mac", 0, 0, <<>>)
Confirm     == Enum(<<"CONFIRM">>)
OffOn       == Enum(<<"OFF", "ON">>)
Zone        == Num(1, 8)
Shelf       == Num(1, 4)
Levels      == Enum(<<"NONE", "ERROR", "WARN", "INFO", "DEBUG", "VERBOSE">>)

(* noun2 "" is a one-word noun; args are max_args long; does is the handler. *)
Entry(verbs, noun1, noun2, args, n_key, min_args, flags, does) ==
  [verbs |-> verbs, noun1 |-> noun1, noun2 |-> noun2, args |-> args,
   n_key |-> n_key, min_args |-> min_args, flags |-> flags, does |-> does]

CMD_COMMON_ROWS == <<
  Entry({"GET"},        "ID",      "",        <<>>,             0, 0, {}, "id"),
  Entry({"GET"},        "VERSION", "",        <<>>,             0, 0, {}, "fw_info"),
  Entry({"GET"},        "STATUS",  "",        <<>>,             0, 0, {}, "status"),
  Entry({"SET", "GET"}, "ECHO",    "",        <<OffOn>>,        0, 1, {"SESSION"}, "echo"),
  Entry({"SET", "GET"}, "NOTIFY",  "",        <<Str, OffOn>>,   0, 2, {"SESSION"}, "notify"),
  Entry({"SET"},        "LOG",     "",        <<Levels, Str>>,  0, 1, {"SESSION"}, "log"),
  Entry({"GET"},        "LOG",     "",        <<>>,             0, 0, {"SESSION"}, "log"),
  Entry({"BARE"},       "DEBUG",   "ENABLE",  <<Str>>,          0, 1, {"SESSION"}, "debug_enable"),
  Entry({"BARE"},       "DEBUG",   "DISABLE", <<>>,             0, 0, {}, "debug_disable"),
  Entry({"GET"},        "DEBUG",   "",        <<>>,             0, 0, {}, "debug_get"),
  Entry({"SET", "GET"}, "TIME",    "",        <<Str, Str>>,     0, 2, {}, "time"),
  Entry({"BARE"},       "SAVE",    "",        <<>>,             0, 0, {}, "save"),
  Entry({"BARE"},       "REBOOT",  "",        <<Confirm>>,      0, 1, {}, "reboot"),
  Entry({"BARE"},       "FACTORY", "RESET",   <<Confirm>>,      0, 1, {}, "factory_reset"),
  Entry({"GET"},        "FW",      "",        <<>>,             0, 0, {}, "fw_info"),
  Entry({"SET"},        "FW",      "ROLLBACK", <<Confirm>>,     0, 1, {"UNLOCK"}, "fw_rollback"),
  Entry({"SET"},        "FW",      "UPDATE",  <<Str, Str, Str>>, 0, 3, {"ZONE", "UNLOCK"}, "fw_update") >>

MASTER_CMD_ROWS == <<
  Entry({"GET"},        "RING",    "",        <<>>,             0, 0, {"MASTER"}, "get_ring"),
  Entry({"GET"},        "NODES",   "",        <<>>,             0, 0, {"MASTER"}, "get_nodes"),
  Entry({"GET"},        "NODE",    "",        <<Zone>>,         1, 1, {"MASTER"}, "get_node"),
  Entry({"GET"},        "UNASSIGNED", "",     <<>>,             0, 0, {"MASTER"}, "get_unassigned"),
  Entry({"SET"},        "NODE",    "NAME",    <<Zone, Str>>,    1, 2, {"MASTER"}, "set_node_name"),
  Entry({"BARE"},       "CLEAR",   "NODE",    <<Zone, Confirm>>, 0, 2, {"MASTER"}, "clear_node"),
  Entry({"SET"},        "RING",    "TRACE",   <<OffOn>>,        0, 1, {"MASTER"}, "ring_trace"),
  Entry({"GET"},        "FW",      "ZONE",    <<>>,             0, 0, {"MASTER"}, "get_fw_zone"),
  Entry({"SET"},        "FW",      "ZONE",    <<Zone>>,         0, 1, {"MASTER"}, "fw_zone"),
  Entry({"SET"},        "FW",      "ZONES",   <<Confirm>>,      0, 1, {"MASTER"}, "fw_zones"),
  Entry({"SET"},        "FW",      "ABORT",   <<>>,             0, 0, {"MASTER"}, "fw_abort"),
  Entry({"GET"},        "WIFI",    "",        <<>>,             0, 0, {"MASTER"}, "get_wifi"),
  Entry({"SET"},        "WIFI",    "STA",     <<Str, Str>>,     0, 2, {"MASTER"}, "wifi_sta"),
  Entry({"SET"},        "WIFI",    "AP",      <<Str, Str>>,     0, 2, {"MASTER"}, "wifi_ap"),
  Entry({"SET"},        "WEB",     "PASSWORD", <<Str>>,         0, 1, {"MASTER"}, "web_password"),
  Entry({"SET", "GET"}, "TZ",      "",        <<Str>>,          0, 1, {"MASTER"}, "tz"),
  Entry({"SET"},        "NODE",    "MAC",     <<Zone, Mac>>,    1, 2, {"MASTER"}, "set_node_mac") >>

Keyed(noun, key) == Entry({"SET", "GET"}, noun, "", <<key, Str, Str>>, 1, 3, {"ZONE"}, "field")

ZONE_CMD_ROWS == <<
  Entry({"SET", "GET"}, "ZONECFG", "",        <<Str, Str>>,     0, 2, {"ZONE"}, "field"),
  Keyed("SHELF", Shelf), Keyed("LIGHT", Shelf), Keyed("WATER", Shelf), Keyed("FAN", Shelf),
  Keyed("VIB", Shelf), Keyed("AUX", Num(1, 2)),
  Entry({"SET"},        "HW",      "",        <<Str, Str>>,     0, 2, {"ZONE", "UNLOCK"}, "field"),
  Entry({"GET"},        "HW",      "",        <<>>,             0, 0, {"ZONE"}, "field"),
  Entry({"SET"},        "HWSHELF", "",        <<Shelf, Str, Str>>, 1, 3, {"ZONE", "UNLOCK"}, "field"),
  Entry({"GET"},        "HWSHELF", "",        <<Shelf>>,        1, 1, {"ZONE"}, "field"),
  Entry({"SET"},        "SHELVES", "",        <<Shelf>>,        0, 1, {"ZONE", "UNLOCK"}, "field"),
  Entry({"SET", "GET"}, "CAL",     "",        <<Shelf, Enum(<<"A", "B">>), Enum(<<"DRY", "WET">>), Num(0, 3300)>>,
                                                                1, 4, {"ZONE"}, "cal"),
  Entry({"GET"},        "CONFIG",  "",        <<>>,             0, 0, {"ZONE"}, "config") >>

OTA_TRIAL_ROWS   == << Entry({"SET"}, "OTA", "", <<Confirm>>, 0, 1, {}, "ota_confirm") >>
PANEL_CMD_ROWS   == << Entry({"BARE"}, "CLEAR", "PANEL", <<Confirm>>, 0, 1, {"MASTER"}, "clear_panel") >>

Table == [n \in Nodes |->
            IF n = "master" THEN CMD_COMMON_ROWS \o MASTER_CMD_ROWS \o OTA_TRIAL_ROWS \o PANEL_CMD_ROWS
            ELSE CMD_COMMON_ROWS \o ZONE_CMD_ROWS \o OTA_TRIAL_ROWS]

Verbs      == {"SET", "GET", "BARE"}
Visible(n, row) == /\ "MASTER" \in row.flags => n = "master"
                   /\ "ZONE" \in row.flags => n = "zone"
Taken(row, v)   == IF v = "GET" THEN row.n_key ELSE Len(row.args)   \* how many arguments a verb takes at most
Needed(row, v)  == IF v = "GET" THEN row.n_key ELSE row.min_args
OneWord(row)    == row.noun2 = ""

(* cmd_table_check: what the application checks of its table when it starts. *)
TableOk(t) ==
  /\ \A i \in DOMAIN t :
       /\ t[i].n_key <= Len(t[i].args) /\ t[i].min_args <= Len(t[i].args)
       /\ Len(t[i].args) <= 8
       /\ "BARE" \in t[i].verbs => t[i].verbs = {"BARE"}
  /\ \A i, j \in DOMAIN t :
       j < i /\ t[i].verbs \cap t[j].verbs # {} /\ t[i].noun1 = t[j].noun1 =>
         /\ t[i].noun2 # t[j].noun2
         /\ \A one \in {t[i], t[j]} :
              OneWord(one) /\ ~(OneWord(t[i]) /\ OneWord(t[j])) => Len(one.args) < 2

TablesOk == \A n \in Nodes : TableOk(Table[n])

-----------------------------------------------------------------------------
(* HELP, and the lines a user makes of it.                                   *)

Prefix(v) == IF v = "BARE" THEN <<>> ELSE <<v>>
Nouns(row) == IF OneWord(row) THEN <<row.noun1>> ELSE <<row.noun1, row.noun2>>
Rest(w, k) == SubSeq(w, k, Len(w))

(* render_usage: a row of two nouns that has keys shows them between the     *)
(* nouns; args are the words put for the arguments.                          *)
Usage(row, v, args) ==
  LET keys == IF OneWord(row) THEN 0 ELSE IF row.n_key < Len(args) THEN row.n_key ELSE Len(args)
  IN  Prefix(v) \o <<row.noun1>> \o SubSeq(args, 1, keys)
        \o (IF OneWord(row) THEN <<>> ELSE <<row.noun2>>) \o Rest(args, keys + 1)

(* cmd_help: the rows (and for each all its verbs) that HELP after the words *)
(* w shows.                                                                  *)
HelpRows(n, w) ==
  LET v  == IF w # <<>> /\ w[1] \in {"SET", "GET"} THEN w[1] ELSE "BARE"
      at == Len(Prefix(v))
  IN  {row \in {Table[n][i] : i \in DOMAIN Table[n]} :
         /\ Visible(n, row)
         /\ w # <<>> =>
              /\ v \in row.verbs
              /\ Len(w) > at => row.noun1 = w[at + 1]
              /\ Len(w) > at + 1 => row.noun2 = w[at + 2]}

HelpReply(n, w) == IF HelpRows(n, w) = {} THEN "UNKNOWN_CMD" ELSE "HELP"

-----------------------------------------------------------------------------
(* Dispatch.                                                                 *)

NumberWords == {"0", "1", "3", "9"}
IntOf(w) == CASE w = "0" -> 0 [] w = "1" -> 1 [] w = "3" -> 3 [] w = "9" -> 9
IsInt(w) == w \in NumberWords
Key      == "hill"                                      \* core->debug_key
NtfTypes == {"ALARM", "LIGHT"}
MacWords == {"mac"}                                     \* "now" is a date and a time that SET TIME takes

(* enum_index: the place of a word among the names, or -1.  A number will do *)
(* for a name, but not for the only one.                                     *)
EnumIndexNumeric(enums, w) ==
  IF \E i \in DOMAIN enums : enums[i] = w THEN (CHOOSE i \in DOMAIN enums : enums[i] = w) - 1
  ELSE IF IsInt(w) THEN IF IntOf(w) < Len(enums) THEN IntOf(w) ELSE -1
  ELSE -1
EnumIndex(enums, w) ==
  IF \E i \in DOMAIN enums : enums[i] = w THEN (CHOOSE i \in DOMAIN enums : enums[i] = w) - 1
  ELSE IF Len(enums) > 1 /\ IsInt(w) THEN IF IntOf(w) < Len(enums) THEN IntOf(w) ELSE -1
  ELSE -1

(* What is wrong with a word as an argument; "" nothing.                     *)
ArgError(arg, w) ==
  CASE arg.type = "int"  -> IF ~IsInt(w) THEN "BAD_ARGS"
                            ELSE IF IntOf(w) \in arg.lo .. arg.hi THEN "" ELSE "OUT_OF_RANGE"
    [] arg.type = "enum" -> IF EnumIndex(arg.enums, w) < 0 THEN "BAD_ARGS" ELSE ""
    [] arg.type = "mac"  -> IF w \in MacWords THEN "" ELSE "BAD_ARGS"
    [] arg.type = "str"  -> IF w = "overlong" THEN "BAD_ARGS" ELSE ""

First(hits) == IF hits = {} THEN 0 ELSE CHOOSE i \in hits : \A j \in hits : i <= j
Match(t, v, noun1, noun2) ==
  First({i \in DOMAIN t : v \in t[i].verbs /\ t[i].noun1 = noun1 /\ t[i].noun2 = noun2})

(* The row that a line names, and its arguments: two nouns side by side, two *)
(* nouns with one word between them, then one noun.                          *)
FindOneFirst(t, v, w) ==
  LET at  == Len(Prefix(v)) + 1
      two == IF Len(w) > at THEN Match(t, v, w[at], w[at + 1]) ELSE 0
      one == Match(t, v, w[at], "")
  IN  IF one # 0 THEN [row |-> one, args |-> Rest(w, at + 1)]
      ELSE [row |-> two, args |-> Rest(w, at + 2)]
Find(t, v, w) ==
  LET at       == Len(Prefix(v)) + 1
      adjacent == IF Len(w) > at THEN Match(t, v, w[at], w[at + 1]) ELSE 0
      split    == IF Len(w) > at + 1 THEN Match(t, v, w[at], w[at + 2]) ELSE 0
      one      == Match(t, v, w[at], "")
  IN  IF adjacent # 0 THEN [row |-> adjacent, args |-> Rest(w, at + 2)]
      ELSE IF split # 0 THEN [row |-> split, args |-> <<w[at + 1]>> \o Rest(w, at + 3)]
      ELSE [row |-> one, args |-> Rest(w, at + 1)]

(* What dispatch finds in a line before it calls a handler, with the         *)
(* session's window open or not: the row and its arguments, or what it        *)
(* answers instead.                                                          *)
Refused(err) == [err |-> err, row |-> 0, verb |-> "BARE", args |-> <<>>]
Parsed(n, s, w, open) ==
  LET v    == IF w[1] \in {"SET", "GET"} THEN w[1] ELSE "BARE"
      hit  == Find(Table[n], v, w)
      row  == Table[n][hit.row]
      errs == [i \in DOMAIN hit.args |-> ArgError(row.args[i], hit.args[i])]
      bad  == First({i \in DOMAIN hit.args : errs[i] # ""})
      err  == CASE "MASTER" \in row.flags /\ n # "master" -> "MASTER_ONLY"
                [] "ZONE" \in row.flags /\ n # "zone"     -> "ZONE_ONLY"
                [] "SESSION" \in row.flags /\ s = "web"   -> "NOT_LOCAL"
                [] "UNLOCK" \in row.flags /\ ~open -> "LOCKED"
                [] Len(hit.args) \notin Needed(row, v) .. Taken(row, v) -> "BAD_ARGS"
                [] OTHER -> IF bad = 0 THEN "" ELSE errs[bad]
  IN  IF w = <<>> THEN Refused("EMPTY")
      ELSE IF w[Len(w)] = "HELP" THEN Refused(HelpReply(n, SubSeq(w, 1, Len(w) - 1)))
      ELSE IF Len(w) < Len(Prefix(v)) + 1 \/ hit.row = 0 THEN Refused("UNKNOWN_CMD")
      ELSE [err |-> err, row |-> hit.row, verb |-> v, args |-> hit.args]

(* A prefix ZONE z is taken off: the node that z names runs the line's tail,  *)
(* the zone in the session of forwarded lines.                               *)
Ran(s, away) == IF away THEN "ring" ELSE s
Unprefixed(s, to) ==
  LET w    == to.words
      z    == IntOf(w[3])
      node == NodeOf(Ran(s, to.away))
      tail == [to EXCEPT !.words = <<w[1]>> \o Rest(w, 4)]
      Fail(err) == [to EXCEPT !.err = err]
  IN  IF to.err # "" \/ Len(w) < 3 \/ w[2] # "ZONE" THEN to
      ELSE IF ~IsInt(w[3]) THEN Fail("BAD_ARGS")
      ELSE IF z > 8 THEN Fail("OUT_OF_RANGE")
      ELSE IF Len(w) < 4 THEN Fail("BAD_ARGS")
      ELSE IF node = "master" /\ z # 0
           THEN IF z = ZoneId THEN [tail EXCEPT !.away = TRUE] ELSE Fail("ZONE_UNKNOWN")
      ELSE IF node = "zone" /\ z \notin {0, ZoneId} THEN Fail("WRONG_ZONE")
      ELSE tail

(* What is left of a line typed at s, and whether it goes over the ring; a    *)
(* tail is dispatched like a line.                                          *)
Addressed(s, w) ==
  LET hops[k \in 0 .. Len(w)] ==
        IF k = 0 THEN [away |-> FALSE, words |-> w, err |-> ""] ELSE Unprefixed(s, hops[k - 1])
  IN  hops[Len(w)]

-----------------------------------------------------------------------------
(* The handlers.                                                             *)

(* hg_app_time_get_ext: the token of the clock's source.                     *)
External(n) == IF n = "master" THEN "NTP" ELSE "RING"
SourceTokenSetWins(n) ==
  IF clock[n].set # 0 THEN "SET"
  ELSE IF clock[n].ext # 0 THEN External(n) ELSE "NONE"
SourceToken(n) ==
  IF clock[n].ext # 0 /\ (clock[n].set # 0 => clock[n].ext >= clock[n].set) THEN External(n)
  ELSE IF clock[n].set # 0 THEN "SET" ELSE "NONE"

Remaining(s) == IF ses[s].unlock_until > now THEN ses[s].unlock_until - now ELSE 0

(* The return codes that the operations behind a handler may give, and what  *)
(* the handler answers; "" is its OK line.                                   *)
NetRcErr(rc)   == CASE rc = 0 -> "" [] rc = -1 -> "INVALID" [] rc = -2 -> "STORAGE" [] rc = -3 -> "INTERNAL"
FleetRcErr(rc) == CASE rc = 0 -> "" [] rc = -1 -> "ZONE_UNKNOWN" [] rc = -2 -> "FW_BUSY"
NodeAnswers(does) == IF does \in {"get_node", "set_node_name", "clear_node"} THEN {"", "ZONE_UNKNOWN"} ELSE {""}
NetAnswers(verb, does) ==
  CASE verb = "GET"            -> {""}
    [] does = "set_node_mac"   -> {"", "ZONE_UNKNOWN"}
    [] OTHER                   -> {NetRcErr(rc) : rc \in -3 .. 0}
FleetAnswers(does) ==
  CASE does = "get_fw_zone" -> {""}
    [] does = "fw_abort"    -> {"", "NOT_READY"}
    [] OTHER                -> {FleetRcErr(rc) : rc \in -2 .. 0}

(* What a handler answers: its own refusals, or what its operation gives.    *)
SessionAnswers(verb, does, args) ==
  IF \/ does = "notify" /\ verb = "SET" /\ args[1] \notin NtfTypes \cup {"ALL"}
     \/ does = "time" /\ verb = "SET" /\ args # <<"now", "now">>
  THEN {"BAD_ARGS"}
  ELSE IF does = "debug_enable" /\ args[1] # Key THEN {"AUTH_FAILED"} ELSE {""}
SystemAnswers(s, does) ==
  CASE does = "fw_update" /\ s # "local"                      -> {"NOT_LOCAL"}
    [] does = "save"                                          -> {"", "NVS_WRITE"}
    [] does \in {"factory_reset", "fw_rollback", "fw_update"} -> {"", "INTERNAL"}
    [] OTHER                                                  -> {""}
HandlerAnswers(s, p) ==
  LET does == Table[NodeOf(s)][p.row].does
  IN  CASE does \in {"wifi_sta", "wifi_ap", "web_password", "tz", "get_wifi", "set_node_mac"} -> NetAnswers(p.verb, does)
        [] does \in {"fw_zone", "fw_zones", "fw_abort", "get_fw_zone"} -> FleetAnswers(does)
        [] does \in {"id", "fw_info", "status", "echo", "notify", "log", "debug_enable", "debug_disable",
                     "debug_get", "time"} -> SessionAnswers(p.verb, does, p.args)
        [] does \in {"save", "reboot", "factory_reset", "fw_rollback", "fw_update"} -> SystemAnswers(s, does)
        [] does = "ota_confirm"     -> {"", "NOT_READY"}
        [] does = "clear_panel"     -> {"", "NVS_WRITE"}
        [] does \in {"field", "cal"} -> {"", "BAD_ARGS", "OUT_OF_RANGE"}
        [] OTHER                    -> NodeAnswers(does)

(* What a handler that answers OK does to its session.                        *)
Handled(s, p) ==
  LET does == Table[NodeOf(s)][p.row].does
      types == IF p.args[1] = "ALL" THEN NtfTypes ELSE {p.args[1]}
      on(i) == EnumIndex(OffOn.enums, p.args[i]) = 1
  IN  CASE does = "echo" /\ p.verb = "SET"   -> [ses[s] EXCEPT !.echo = on(1)]
        [] does = "notify" /\ p.verb = "SET" -> [ses[s] EXCEPT !.notify = IF on(2) THEN @ \cup types ELSE @ \ types]
        [] does = "debug_enable"             -> [ses[s] EXCEPT !.unlock_until = now + CMD_UNLOCK]
        [] does = "debug_disable"            -> [ses[s] EXCEPT !.unlock_until = 0]
        [] OTHER                             -> ses[s]

(* Every command that reached its handler, well or not, keeps an open window *)
(* open.                                                                     *)
RenewedBlindly(x) == [x EXCEPT !.unlock_until = now + CMD_UNLOCK]
Renewed(x) == IF x.unlock_until > now THEN [x EXCEPT !.unlock_until = now + CMD_UNLOCK] ELSE x

(* The words of a user for an argument, the lines made of what HELP shows of  *)
(* a row, and these with something wrong at their end.                       *)
ArgWords(arg) == CASE arg.type = "int" -> {"1"} [] arg.type = "mac" -> MacWords
                   [] arg.type = "enum" -> {arg.enums[i] : i \in DOMAIN arg.enums} [] arg.type = "str" -> WORDS
Fills(row, v) ==
  UNION {{Usage(row, v, a) : a \in {x \in [1 .. k -> UNION {ArgWords(row.args[i]) : i \in 1 .. k}] :
                                     \A i \in 1 .. k : x[i] \in ArgWords(row.args[i])}} :
           k \in Needed(row, v) .. Taken(row, v)}
Mangled(w) == LET front == SubSeq(w, 1, Len(w) - 1)
              IN  {front, Append(front, "0"), Append(front, "overlong"), Append(w, "1"), Append(w, "HELP")}

(* What HELP shows is meant to run the row it is shown for; HELP as the last *)
(* word is a question, so such a word is not an argument.                    *)
Line(w, node, row) == [words |-> w, node |-> node, row |-> row]
Shown(n) == UNION {{Line(w, n, i) : w \in {f \in UNION {Fills(Table[n][i], v) : v \in Table[n][i].verbs} :
                                           f[Len(f)] # "HELP"}} :
                     i \in {j \in DOMAIN Table[n] : Visible(n, Table[n][j])}}
To(z, l, node, row) == Line(<<l.words[1], "ZONE", z>> \o Rest(l.words, 2), node, row)
Lines ==
  [n \in Nodes |->
     Shown(n) \cup {Line(w, n, 0) : w \in {<<>>} \cup UNION {Mangled(l.words) : l \in Shown(n)}}
       \cup (UNION {{To("0", l, n, IF Len(l.words) > 1 THEN l.row ELSE 0), To("3", l, n, 0), To("9", l, n, 0),
                     To("x", l, n, 0)} : l \in Shown(n)})
       \cup {To("1", l, "zone", IF Len(l.words) > 1 THEN l.row ELSE 0) : l \in Shown("zone")}]

(* The lines that read or write a session or a clock, with one free word; the *)
(* others are typed only as the first, since they tell no two later states   *)
(* apart.                                                                    *)
Stateful(l) ==
  LET words == {l.words[i] : i \in DOMAIN l.words}
  IN  /\ words \cap {"ECHO", "NOTIFY", "DEBUG", "TIME", "ROLLBACK", "UPDATE", "SHELVES"} # {}
      /\ Cardinality(words \cap WORDS) <= 1
      /\ l.row # 0 \/ "ROLLBACK" \in words
LaterLines == [n \in Nodes |-> {l \in Lines[n] : Stateful(l)}]

Destructive == {"reboot", "factory_reset", "fw_rollback", "clear_node", "fw_zones", "ota_confirm", "clear_panel"}

(* A line typed at s as the dispatch understands it: where it goes, and what  *)
(* it finds there with the window shut and open.                             *)
Understood(s, l) ==
  LET to == Addressed(s, l.words)
      at == Ran(s, to.away)
      Found(open) == IF to.err # "" THEN Refused(to.err) ELSE Parsed(NodeOf(at), at, to.words, open)
  IN  [meant |-> <<l.node, l.row>>, confirms |-> "CONFIRM" \in {l.words[i] : i \in DOMAIN l.words},
       node |-> NodeOf(at), ses |-> at, shut |-> Found(FALSE), open |-> Found(TRUE)]
FirstTyped == [s \in PLACES |-> {Understood(s, l) : l \in Lines[NodeOf(s)]}]
LaterTyped == [s \in PLACES |-> {Understood(s, l) : l \in LaterLines[NodeOf(s)]}]

(* One command, typed by someone who meant to.meant.                          *)
Command(to) ==
  LET p   == IF ses[to.ses].unlock_until > now THEN to.open ELSE to.shut
      ran == p.err = "" /\ p.row # 0
      row == Table[to.node][p.row]
  IN  \E answer \in IF ran THEN HandlerAnswers(to.ses, p) ELSE {p.err} :
        LET ok   == ran /\ answer = ""
            sets == ok /\ row.does = "time" /\ p.verb = "SET"
        IN  /\ ses' = [ses EXCEPT ![to.ses] = IF ran THEN Renewed(IF ok THEN Handled(to.ses, p) ELSE @) ELSE @]
            /\ clock' = IF sets THEN [clock EXCEPT ![to.node].set = now] ELSE clock
            /\ last' = [meant   |-> to.meant,
                        got     |-> <<to.node, IF p.err \in {"", "LOCKED", "NOT_LOCAL"} THEN p.row ELSE 0>>,
                        rash    |-> ran /\ row.does \in Destructive /\ ~to.confirms,
                        locked  |-> ran /\ "UNLOCK" \in row.flags /\ ~seen.key[to.ses],
                        said    |-> CASE ran /\ row.does = "time" /\ p.verb = "GET" -> <<"TIME", SourceToken(to.node)>>
                                      [] ran /\ row.does = "debug_get" -> <<"DEBUG", Remaining(to.ses)>>
                                      [] ok    -> <<"OK", "">>
                                      [] OTHER -> <<"ERR", answer>>]
            /\ seen' = [seen EXCEPT
                 !.key[to.ses] = IF ok /\ row.does = "debug_enable" THEN TRUE
                                 ELSE @ /\ ~(ran /\ row.does = "debug_disable"),
                 !.idle[to.ses] = IF ran THEN 0 ELSE @,
                 !.setter[to.node] = IF sets THEN "SET" ELSE @,
                 !.typed = @ + 1]

Init ==
  /\ now = 1
  /\ ses = [s \in Sessions |-> [echo |-> FALSE, notify |-> {"ALARM"}, unlock_until |-> 0]]
  /\ clock = [n \in Nodes |-> [set |-> 0, ext |-> 0]]
  /\ last = [meant |-> <<"master", 0>>, got |-> <<"master", 0>>, rash |-> FALSE, locked |-> FALSE, said |-> <<"OK", "">>]
  /\ seen = [key |-> [s \in Sessions |-> FALSE], idle |-> [s \in Sessions |-> 0],
             setter |-> [n \in Nodes |-> "NONE"], typed |-> 0]

Type ==
  /\ seen.typed < MAX_CMD
  /\ \E s \in PLACES : \E l \in IF seen.typed = 0 THEN FirstTyped[s] ELSE LaterTyped[s] : Command(l)
  /\ UNCHANGED now

(* SNTP at the master (sntp_sync_cb), TIME_SYNC at the zone.                  *)
TimeSync(n) ==
  /\ clock' = [clock EXCEPT ![n].ext = now]
  /\ seen' = [seen EXCEPT !.setter[n] = External(n)]
  /\ UNCHANGED <<now, ses, last>>

(* A user who has been idle for the window's length has lost it.             *)
Tick ==
  /\ now < MAX_TIME
  /\ now' = now + 1
  /\ seen' = [seen EXCEPT
       !.key = [s \in Sessions |-> @[s] /\ seen.idle[s] + 1 < CMD_UNLOCK],
       !.idle = [s \in Sessions |-> IF @[s] < CMD_UNLOCK THEN @[s] + 1 ELSE @[s]]]
  /\ UNCHANGED <<ses, clock, last>>

Next == Type \/ Tick \/ \E n \in Nodes : TimeSync(n)

Spec == Init /\ [][Next]_vars

-----------------------------------------------------------------------------
TypeOK ==
  /\ now \in 1 .. MAX_TIME
  /\ ses \in [Sessions -> [echo : BOOLEAN, notify : SUBSET NtfTypes, unlock_until : 0 .. MAX_TIME + CMD_UNLOCK]]
  /\ clock \in [Nodes -> [set : 0 .. now, ext : 0 .. now]]
  /\ \A n \in Nodes : last.got[1] = n => last.got[2] \in 0 .. Len(Table[n])
  /\ seen.typed \in 0 .. MAX_CMD

(* Both tables pass the check that the applications make of them at start,   *)
(* and a line made of any usage line of HELP, whatever words fill it, runs   *)
(* the row it was shown for, at the node it was addressed to.                *)
HelpIsHonest ==
  /\ TablesOk
  /\ last.meant[2] # 0 => last.got = last.meant

(* Nothing that restarts a node, erases or replaces its software, or drops a *)
(* board runs from a line in which the word CONFIRM was not typed.           *)
ConfirmIsTyped == ~last.rash

(* A session's unlock window is open exactly while its user has given the    *)
(* key, has not shut the window since, and has never been idle for the       *)
(* window's length; GET DEBUG says so, and the guarded rows run only then.   *)
WindowHonoured ==
  /\ \A s \in Sessions : seen.key[s] <=> Remaining(s) > 0
  /\ ~last.locked

(* GET TIME names the source that set the node's clock last; two sources in  *)
(* one second are not told apart.                                            *)
LastSetterNamed ==
  \A n \in Nodes : SourceToken(n) = seen.setter[n] \/ clock[n].set = clock[n].ext

(* What the index that HELP prints promises of each noun: "<NOUN> HELP for   *)
(* details".                                                                 *)
IndexLeads == \A n \in Nodes : \A row \in HelpRows(n, <<>>) : HelpRows(n, Nouns(row)) # {}

-----------------------------------------------------------------------------
(* What ConfirmIsTyped, WindowHonoured and LastSetterNamed rest on.          *)

Stored ==
  /\ now \in Nat /\ now > 0
  /\ ses \in [Sessions -> [echo : BOOLEAN, notify : SUBSET NtfTypes, unlock_until : Nat]]
  /\ clock \in [Nodes -> [set : 0 .. now, ext : 0 .. now]]
  /\ seen \in [key : [Sessions -> BOOLEAN], idle : [Sessions -> 0 .. CMD_UNLOCK],
              setter : [Nodes -> {"NONE", "SET", "NTP", "RING"}], typed : Nat]

(* The window of a user who gave the key ends when he will have been idle    *)
(* for its length; any other has ended.                                     *)
Windows ==
  \A s \in Sessions :
    IF seen.key[s] THEN seen.idle[s] < CMD_UNLOCK /\ ses[s].unlock_until = now + CMD_UNLOCK - seen.idle[s]
    ELSE ses[s].unlock_until <= now

(* The source that set the clock last has set it no earlier than the other.  *)
Setters ==
  \A n \in Nodes :
    /\ seen.setter[n] = "NONE" => clock[n].set = 0 /\ clock[n].ext = 0
    /\ seen.setter[n] = "SET" => clock[n].set > 0 /\ clock[n].set >= clock[n].ext
    /\ seen.setter[n] \notin {"NONE", "SET"} =>
         seen.setter[n] = External(n) /\ clock[n].ext > 0 /\ clock[n].ext >= clock[n].set

SessionsInv == Stored /\ Windows /\ Setters /\ ~last.locked /\ ~last.rash
=============================================================================
