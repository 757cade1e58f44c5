------------------------------ MODULE CfgField ------------------------------
(***************************************************************************)
(* The field table of a zone's configuration (hg_cfg_fields.c) and what is *)
(* computed from it: the text of a field and back, its JSON leaf and back  *)
(* (hg_json_cfg.c, hg_json_internal.h), the defaults (hg_cfg_defaults.c),  *)
(* the validator across the hardware and the configuration plane           *)
(* (hg_cfg_validate.c), and the master's own table (hg_mcfg.c).            *)
(*                                                                         *)
(* A field of a document is addressed by <<group, index, key>>, the index  *)
(* 1-based as on the console and 0 for a group that has one instance.      *)
(* A document is a function from SOME addresses to values; every other     *)
(* field has its default.  A value is a number, or <<length, characters>>  *)
(* for a string.  A text is a tuple led by its form:                       *)
(*   <<"num", n>>  <<"hm", hours, minutes>>  <<"word", w>>                 *)
(*   <<"str", length, characters>>                                         *)
(* where characters is the largest class the string needs: "host"          *)
(* (a-z 0-9 -), "plain" (printable) or "space" (with a space).             *)
(***************************************************************************)
EXTENDS Integers, Sequences, FiniteSets, FiniteSetsExt

CONSTANTS HG_MAX_SHELVES, HG_MAX_AUX

HG_NONE == 255

Row(g, k, t, lo, hi) ==
  [group |-> g, key |-> k, type |-> t, min |-> lo, max |-> hi, enums |-> <<>>]

Choice(g, k, names) ==
  [group |-> g, key |-> k, type |-> "ENUM", min |-> 0, max |-> Len(names) - 1,
   enums |-> names]

HG_FIELDS == <<
  Row("ZONECFG", "NAME", "STR16", 0, 15),    Row("ZONECFG", "LINKLOSS_S", "U16", 10, 600),
  Row("SHELF", "CROP", "STR16", 0, 15),      Row("SHELF", "ENABLED", "BOOL", 0, 1),
  Row("SHELF", "PROFILE", "U8", 0, 16),      Row("LIGHT", "ON", "HHMM", 0, 1439),
  Row("LIGHT", "OFF", "HHMM", 0, 1439),      Row("LIGHT", "WHITE", "U8", 0, 100),
  Row("LIGHT", "RED", "U8", 0, 100),         Row("LIGHT", "RAMP_MIN", "U8", 0, 120),
  Row("LIGHT", "DLI", "U16", 0, 1000),       Choice("WATER", "MODE", <<"OFF", "AUTO">>),
  Row("WATER", "TARGET", "U8", 0, 100),      Row("WATER", "HYST", "U8", 1, 30),
  Row("WATER", "SETTLE_MIN", "U8", 1, 60),   Row("WATER", "DOSE_S", "U16", 1, 300),
  Row("WATER", "INTERVAL_MIN", "U16", 10, 1440), Row("WATER", "MAX_DOSES", "U8", 0, 24),
  Row("WATER", "DIFF_MAX", "U8", 5, 50),     Row("WATER", "WIN_START", "HHMM", 0, 1439),
  Row("WATER", "WIN_END", "HHMM", 0, 1439),
  Choice("FAN", "MODE", <<"OFF", "ON", "LIGHT", "CYCLE">>),
  Row("FAN", "ON_MIN", "U8", 0, 60),         Row("FAN", "PERIOD_MIN", "U16", 0, 1440),
  Choice("VIB", "MODE", <<"OFF", "PULSE">>), Row("VIB", "INTENSITY", "U8", 20, 100),
  Row("VIB", "PULSE_S", "U8", 1, 30),        Row("VIB", "INTERVAL_MIN", "U16", 5, 1440),
  Row("VIB", "START", "HHMM", 0, 1439),      Row("VIB", "END", "HHMM", 0, 1439),
  Choice("AUX", "MODE", <<"OFF", "PULSE">>), Row("AUX", "PULSE_S", "U8", 1, 30),
  Row("AUX", "INTERVAL_MIN", "U16", 5, 1440), Row("AUX", "START", "HHMM", 0, 1439),
  Row("AUX", "END", "HHMM", 0, 1439),        Row("HW", "SHELVES", "U8", 1, HG_MAX_SHELVES),
  Row("HW", "PCA_ADDR", "U8", 0, 127),       Row("HW", "PCF_ADDR", "U8", 0, 127),
  Choice("HW", "SOIL_BACKEND", <<"INTERNAL", "ADS1115">>),
  Row("HW", "PCF_ACTLOW", "U16", 0, 65535),  Row("HW", "PCA_HZ", "U16", 200, 1500),
  Row("HWSHELF", "LED_W", "PIN", 0, 15),     Row("HWSHELF", "LED_R", "PIN", 0, 15),
  Row("HWSHELF", "PUMP", "PIN", 0, 15),      Row("HWSHELF", "FAN", "PIN", 0, 15),
  Row("HWSHELF", "SOIL_A", "PIN", 0, 7),     Row("HWSHELF", "SOIL_B", "PIN", 0, 7),
  Row("HWSHELF", "VIB", "PIN", 0, 15),       Row("HWSHELF", "LED_MAX_W", "U8", 0, 100),
  Row("HWSHELF", "LED_MAX_R", "U8", 0, 100), Row("HWSHELF", "PUMP_MAX_RUN_S", "U16", 1, 300),
  Row("HWSHELF", "PUMP_MAX_DAILY_S", "U16", 1, 3600),
  Row("CAL", "DRY_A", "U16", 0, 3300),       Row("CAL", "DRY_B", "U16", 0, 3300),
  Row("CAL", "WET_A", "U16", 0, 3300),       Row("CAL", "WET_B", "U16", 0, 3300),
  Row("CAL", "MIN_OK", "U16", 0, 3300),      Row("CAL", "MAX_OK", "U16", 0, 3300) >>

Rows(table) == {table[i] : i \in DOMAIN table}

(* The row of a key; keys compare without case, so one spelling stands for all. *)
FindRow(g, k) == CHOOSE f \in Rows(HG_FIELDS) : f.group = g /\ f.key = k

Scope(g) == CASE g \in {"ZONECFG", "HW"} -> "one"
              [] g = "AUX" -> "aux"
              [] OTHER -> "shelf"

IsHw(g) == g \in {"HW", "HWSHELF", "CAL"}

(* The indices of a group's instances. *)
Slots(g) == CASE Scope(g) = "one" -> {0}
              [] Scope(g) = "aux" -> 1..HG_MAX_AUX
              [] OTHER -> 1..HG_MAX_SHELVES

Addresses == UNION {{<<f.group, s, f.key>> : s \in Slots(f.group)} : f \in Rows(HG_FIELDS)}

RowAt == [a \in Addresses |-> FindRow(a[1], a[3])]
RowOf(a) == RowAt[a]

-----------------------------------------------------------------------------
(* Text of a field and back. *)

Wrote(v) == [rc |-> 0, v |-> v]
Refuse(rc) == [rc |-> rc, v |-> 0]

(* Minutes since midnight, -1 when the text is no time of day. *)
HhmmParse(t) ==
  CASE t[1] = "num" /\ t[2] \in 0..1439 -> t[2]
    [] t[1] = "hm" /\ t[2] \in 0..23 /\ t[3] \in 0..59 -> t[2] * 60 + t[3]
    [] OTHER -> -1

HhmmFormat(m) == <<"hm", (m % 1440) \div 60, m % 60>>

(* A name of the list, or its index as a number; -1 for neither. *)
EnumParse(enums, t) ==
  CASE t[1] = "word" /\ \E i \in DOMAIN enums : enums[i] = t[2] ->
         (CHOOSE i \in DOMAIN enums : enums[i] = t[2]) - 1
    [] t[1] = "num" /\ t[2] \in 0..Len(enums) - 1 -> t[2]
    [] OTHER -> -1

EnumName(enums, i) == <<"word", IF i < Len(enums) THEN enums[i + 1] ELSE "?">>

StrOk(t) == t[1] = "str" /\ t[2] <= 15 /\ t[3] # "space"

(* hg_field_write: 0 and the value, -1 bad text, -2 out of range. *)
NumberUnbounded(f, t) ==     \* a plausible bug: only the lower bound is checked
  CASE t[1] # "num" -> Refuse(-1)
    [] t[2] < f.min -> Refuse(-2)
    [] OTHER -> Wrote(t[2])

Number(f, t) ==
  CASE t[1] # "num" -> Refuse(-1)
    [] t[2] < f.min \/ t[2] > f.max -> Refuse(-2)
    [] OTHER -> Wrote(t[2])

Write(f, t) ==
  CASE f.type = "STR16" -> IF StrOk(t) THEN Wrote(<<t[2], t[3]>>) ELSE Refuse(-1)
    [] f.type = "STR" ->
         IF t[2] > f.max THEN Refuse(-2) ELSE Wrote(<<t[2], t[3]>>)
    [] f.type = "BOOL" ->
         CASE t \in {<<"word", "ON">>, <<"word", "ENABLE">>, <<"num", 1>>} -> Wrote(1)
           [] t \in {<<"word", "OFF">>, <<"word", "DISABLE">>, <<"num", 0>>} -> Wrote(0)
           [] OTHER -> Refuse(-1)
    [] f.type = "ENUM" ->
         LET i == EnumParse(f.enums, t) IN IF i = -1 THEN Refuse(-1) ELSE Wrote(i)
    [] f.type = "HHMM" ->
         LET m == HhmmParse(t) IN IF m = -1 THEN Refuse(-1) ELSE Wrote(m)
    [] f.type = "PIN" /\ t = <<"word", "NONE">> -> Wrote(HG_NONE)
    [] OTHER -> Number(f, t)

(* hg_field_read *)
Read(f, v) ==
  CASE f.type \in {"STR16", "STR"} -> <<"str", v[1], v[2]>>
    [] f.type = "ENUM" -> EnumName(f.enums, v)
    [] f.type = "HHMM" -> HhmmFormat(v)
    [] f.type = "PIN" /\ v = HG_NONE -> <<"word", "NONE">>
    [] OTHER -> <<"num", v>>

-----------------------------------------------------------------------------
(* The JSON leaf of a field and back. *)

ToJson(f, v) ==
  CASE f.type = "BOOL" -> <<"bool", v # 0>>
    [] f.type \in {"U8", "U16", "PIN"} -> <<"number", v>>
    [] OTHER -> <<"string", Read(f, v)>>

NoText == <<"none">>

(* hgj_json_to_text: NoText when the leaf is not of the kind the type requires. *)
JsonToText(f, j) ==
  CASE f.type \in {"STR16", "STR", "ENUM", "HHMM"} ->
         IF j[1] = "string" THEN j[2] ELSE NoText
    [] f.type = "BOOL" ->
         IF j[1] = "bool" THEN <<"num", IF j[2] THEN 1 ELSE 0>> ELSE NoText
    [] OTHER -> IF j[1] = "number" THEN <<"num", j[2]>> ELSE NoText

-----------------------------------------------------------------------------
(* Defaults; s is the shelf, 1-based. *)

DefaultHw(k, s) ==
  CASE k = "SHELVES" -> HG_MAX_SHELVES
    [] k = "PCA_ADDR" -> 64      [] k = "PCF_ADDR" -> 32
    [] k = "SOIL_BACKEND" -> 0   [] k = "PCF_ACTLOW" -> 65535
    [] k = "PCA_HZ" -> 1000
    [] k \in {"LED_W", "SOIL_A"} -> 2 * s - 2
    [] k \in {"LED_R", "SOIL_B"} -> 2 * s - 1
    [] k = "PUMP" -> s - 1       [] k = "FAN" -> s + 3
    [] k = "VIB" -> s + 7
    [] k \in {"LED_MAX_W", "LED_MAX_R"} -> 100
    [] k \in {"DRY_A", "DRY_B"} -> 2800
    [] k \in {"WET_A", "WET_B"} -> 1300
    [] k = "MIN_OK" -> 300       [] k = "MAX_OK" -> 3200
    [] k = "PUMP_MAX_RUN_S" -> 60
    [] k = "PUMP_MAX_DAILY_S" -> 600

DefaultCfg(g, k) ==
  CASE k = "NAME" -> <<4, "host">>     [] k = "CROP" -> <<0, "host">>
    [] k = "LINKLOSS_S" -> 30
    [] k \in {"ENABLED", "PROFILE", "RAMP_MIN", "DLI", "WIN_START", "WIN_END"} -> 0
    [] k = "ON" -> 360                 [] k = "OFF" -> 1320
    [] k = "WHITE" -> 50               [] k = "RED" -> 30
    [] k = "TARGET" -> 45              [] k = "HYST" -> 5
    [] k = "SETTLE_MIN" -> 10          [] k = "DOSE_S" -> 20
    [] k = "MAX_DOSES" -> 6            [] k = "DIFF_MAX" -> 15
    [] k = "ON_MIN" -> 15              [] k = "PERIOD_MIN" -> 60
    [] k = "INTENSITY" -> 60
    [] k = "MODE" -> CASE g = "WATER" -> 1 [] g = "FAN" -> 3 [] OTHER -> 0
    [] k = "INTERVAL_MIN" -> IF g = "AUX" THEN 5 ELSE 120
    [] k = "PULSE_S" -> IF g = "AUX" THEN 1 ELSE 5
    [] k = "START" -> IF g = "AUX" THEN 0 ELSE 600
    [] k = "END" -> IF g = "AUX" THEN 0 ELSE 960

Default == [a \in Addresses |->
              IF IsHw(a[1]) THEN DefaultHw(a[3], a[2]) ELSE DefaultCfg(a[1], a[3])]

(* What a document says of an address. *)
At(doc, a) == IF a \in DOMAIN doc THEN doc[a] ELSE Default[a]

-----------------------------------------------------------------------------
(* Validation.  The code reports the first error it comes to; the model     *)
(* names all of them as paths.                                              *)

(* "shelf[2].water.dose_s": a shelf's own keys carry no group, an AUX error *)
(* no index.                                                                *)
Path(s, g, k) ==
  [in |-> IF s > 0 THEN "shelf" ELSE "none", idx |-> s,
   group |-> IF s > 0 /\ g = "SHELF" THEN "" ELSE g, key |-> k]

(* check_group_rows for one row *)
RowOk(f, v) ==
  \/ f.type = "STR16"
  \/ f.type = "PIN" /\ v = HG_NONE
  \/ v \in f.min..f.max

RowErrors(doc, gs, shelves) ==
  {Path(IF a[1] = "AUX" THEN 0 ELSE a[2], a[1], a[3]) :
     a \in {b \in DOMAIN doc : /\ b[1] \in gs /\ b[2] \in shelves \cup {0}
                               /\ ~ RowOk(RowOf(b), doc[b])}}

(* mark_dup: outputs that may not share a channel. *)
Buses == {{"LED_W", "LED_R", "VIB"}, {"PUMP", "FAN"}, {"SOIL_A", "SOIL_B"}}

DupErrors(doc, shelves) ==
  UNION {LET pins == {<<s, k>> : s \in shelves, k \in bus}
             Pin(p) == At(doc, <<"HWSHELF", p[1], p[2]>>)
         IN {Path(p[1], "HWSHELF", p[2]) :
               p \in {q \in pins : /\ Pin(q) # HG_NONE
                                   /\ \E r \in pins \ {q} : Pin(r) = Pin(q)}} : bus \in Buses}

CalErrors(doc, shelves) ==
  LET V(s, k) == At(doc, <<"CAL", s, k>>) IN
  {Path(s, "CAL", "MIN_OK") : s \in {z \in shelves : V(z, "MIN_OK") >= V(z, "MAX_OK")}}
  \cup {Path(s, "CAL", "DRY_A") : s \in {z \in shelves : V(z, "DRY_A") <= V(z, "WET_A")}}
  \cup {Path(s, "CAL", "DRY_B") : s \in {z \in shelves : V(z, "DRY_B") <= V(z, "WET_B")}}

(* hg_hw_validate: only the shelves in use *)
HwErrors(doc) ==
  LET bad == RowErrors(doc, {"HW"}, {})
      used == 1..At(doc, <<"HW", 0, "SHELVES">>)
  IN IF bad # {} THEN bad
     ELSE RowErrors(doc, {"HWSHELF", "CAL"}, used) \cup DupErrors(doc, used)
          \cup CalErrors(doc, used)

(* The checks of a shelf that relate two fields. *)
ShelfErrors(doc, s) ==
  LET V(g, k) == At(doc, <<g, s, k>>)
      Err(bad, g, k) == IF bad THEN {Path(s, g, k)} ELSE {}
  IN Err(V("LIGHT", "ON") = V("LIGHT", "OFF"), "LIGHT", "OFF")
     \cup Err(V("SHELF", "ENABLED") = 1 /\ s > At(doc, <<"HW", 0, "SHELVES">>),
              "SHELF", "ENABLED")
     \cup Err(V("WATER", "DOSE_S") > V("HWSHELF", "PUMP_MAX_RUN_S"), "WATER", "DOSE_S")
     \cup Err(V("WATER", "MAX_DOSES") * V("WATER", "DOSE_S") > V("HWSHELF", "PUMP_MAX_DAILY_S"),
              "WATER", "MAX_DOSES")

(* hg_cfg_validate, with the hardware plane at hand; the rows of an AUX      *)
(* output count only when it is on, and then the error tells no index.       *)
CfgErrors(doc) ==
  LET quiet == {a \in DOMAIN doc : a[1] = "AUX" /\ At(doc, <<"AUX", a[2], "MODE">>) = 0}
      checked == [a \in DOMAIN doc \ quiet |-> doc[a]]
  IN (IF At(doc, <<"ZONECFG", 0, "NAME">>)[1] = 0 THEN {Path(0, "ZONECFG", "NAME")} ELSE {})
     \cup RowErrors(checked, {"ZONECFG", "AUX", "SHELF", "LIGHT", "WATER", "FAN", "VIB"},
                    1..(HG_MAX_SHELVES + HG_MAX_AUX))
     \cup UNION {ShelfErrors(doc, s) : s \in 1..HG_MAX_SHELVES}

LocateNamed(p) ==     \* a plausible bug: a shelf's own keys need their group, too
  LET fits == CASE p.in = "none" -> TRUE
                [] OTHER -> p.in = Scope(p.group) /\ p.idx \in Slots(p.group)
  IN {[row |-> f, idx |-> IF p.in = "none" THEN 0 ELSE p.idx] :
        f \in {r \in Rows(HG_FIELDS) : r.group = p.group /\ r.key = p.key /\ fits}}

(* pcfg_locate: the row a path names and its index, or nothing. *)
Locate(p) ==
  LET g == IF p.group # "" THEN p.group ELSE IF p.in = "shelf" THEN "SHELF" ELSE ""
      fits == CASE Scope(g) = "one" -> p.in = "none"
                [] Scope(g) = "aux" -> p.in = "none" \/ (p.in = "aux" /\ p.idx \in Slots(g))
                [] OTHER -> p.in = "none" \/ (p.in = "shelf" /\ p.idx \in Slots(g))
      rows == {f \in Rows(HG_FIELDS) : f.group = g /\ f.key = p.key}
  IN IF g = "" \/ ~ fits THEN {}
     ELSE {[row |-> f, idx |-> IF p.in = "none" THEN 0 ELSE p.idx] : f \in rows}

-----------------------------------------------------------------------------
(* The master's table and validator. *)

HG_MFIELDS == <<
  Row("WIFI", "STA_SSID", "STR", 0, 32), Row("WIFI", "STA_PASS", "STR", 0, 64),
  Row("WIFI", "AP_SSID", "STR", 0, 32),  Row("WIFI", "AP_PASS", "STR", 0, 64),
  Row("TIME", "TZ", "STR", 0, 47),       Row("TIME", "NTP", "STR", 0, 47),
  Row("SYS", "HOSTNAME", "STR", 0, 23) >>

MKeys == {f.key : f \in Rows(HG_MFIELDS)}
MRow(k) == CHOOSE f \in Rows(HG_MFIELDS) : f.key = k

IsSecret(f) == f.group = "WIFI" /\ f.key \in {"STA_PASS", "AP_PASS"}

MDefaults ==
  [k \in MKeys |-> CASE k \in {"STA_SSID", "STA_PASS"} -> <<0, "host">>
                     [] k = "AP_SSID" -> <<8, "plain">>
                     [] k = "AP_PASS" -> <<9, "host">>
                     [] k = "TZ" -> <<26, "plain">>
                     [] k = "NTP" -> <<12, "plain">>
                     [] k = "HOSTNAME" -> <<8, "host">>]

(* hg_mcfg_validate; the time zone checker takes what has no space. *)
MErrors(m) ==
  LET L(k) == m[k][1]
      bad == [k \in MKeys |->
               CASE k = "STA_SSID" -> L(k) > 32
                 [] k = "STA_PASS" -> L(k) > 0 /\ L(k) \notin 8..63
                 [] k = "AP_SSID" -> L(k) \notin 1..32
                 [] k = "AP_PASS" -> L(k) \notin 8..63
                 [] k = "TZ" -> L(k) = 0 \/ m[k][2] = "space"
                 [] k = "NTP" -> L(k) \notin 1..47 \/ m[k][2] = "space"
                 [] k = "HOSTNAME" -> L(k) \notin 1..23 \/ m[k][2] # "host"]
  IN {k \in MKeys : bad[k]}
=============================================================================
