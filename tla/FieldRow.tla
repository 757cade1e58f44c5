------------------------------ MODULE FieldRow ------------------------------
(***************************************************************************)
(* One row of the panel's configuration editor: the widget generated from  *)
(* a field of the table (pcfg_gen.c, pcfg_pres.c) and the taps it takes    *)
(* (wdg_field.c).  A row keeps the field's text, shows it formatted, and   *)
(* hands every accepted change to the edit set as text, which the save     *)
(* gives to hg_field_write.  What becomes of the edit set is in ZoneEdit   *)
(* and MasterEdit; the masking of a secret is in MasterEdit, too.          *)
(***************************************************************************)
EXTENDS CfgField

CONSTANTS
  CAPS,      \* pump_max_run_s of the shelf, 0 when the hardware is not known
  TYPED,     \* what is typed on the keyboard
  MAX_TAP    \* bound: taps

VARIABLES
  table,   \* "zone" or "master"
  field,   \* the row of the table
  cap,     \* the hardware's bound on a dose
  raw,     \* the text the widget keeps
  out,     \* the last text handed to the edit set, or NoText
  error,   \* the row shows an error
  taps     \* spent of MAX_TAP

vars == <<table, field, cap, raw, out, error, taps>>

-----------------------------------------------------------------------------
(* The widget of a field. *)

(* pcfg_pres: what the presentation table adds to a row; labels and units   *)
(* are left out.                                                            *)
BigSteps == {"LINKLOSS_S", "DOSE_S", "INTERVAL_MIN", "PERIOD_MIN"}
Hex == {"PCA_ADDR", "PCF_ADDR", "PCF_ACTLOW"}
NoBlank == {"NAME", "AP_SSID", "TZ", "NTP", "HOSTNAME"}
Pres(f) ==
  [big_step |-> IF f.key \in BigSteps THEN 10 ELSE 0,
   scale_div |-> IF f.key = "DLI" THEN 10 ELSE 1,
   hex |-> f.key \in Hex,
   min_len |-> IF f.key \in NoBlank THEN 1 ELSE 0,
   max_len |-> IF f.key \in {"STA_PASS", "AP_PASS"} THEN 63 ELSE 255,
   keyboard |-> CASE f.key \in {"TZ", "NTP"} -> "plain"
                  [] f.key = "HOSTNAME" -> "host"
                  [] OTHER -> "space"]

Digits(n) == CASE n < 10 -> 1 [] n < 100 -> 2 [] n < 1000 -> 3 [] n < 10000 -> 4 [] OTHER -> 5

Lesser(a, b) == IF a < b THEN a ELSE b

(* pcfg_spec_for: how a type is edited. *)
EditKind(t, f) ==
  CASE f.type = "BOOL" -> "SWITCH"
    [] f.type = "ENUM" /\ Len(f.enums) <= 4 -> "SEGMENTED"
    [] f.type \in {"ENUM", "HHMM", "PIN"} -> "ROLLER"
    [] f.type \in {"U8", "U16"} -> "STEPPER"
    [] f.type = "STR" /\ t = "master" /\ IsSecret(f) -> "SECRET"
    [] OTHER -> "TEXT"

SpecFor(t, f) ==
  LET p == Pres(f)
      text == EditKind(t, f) \in {"TEXT", "SECRET"}
  IN [kind |-> IF t = "zone" /\ IsHw(f.group) THEN "READONLY" ELSE EditKind(t, f),
      type |-> f.type, opts |-> f.enums,
      min |-> f.min,
      max |-> f.max,
      big_step |-> CASE p.big_step > 0 -> p.big_step
                     [] f.max - f.min > 100 -> 10
                     [] OTHER -> 0,
      scale_div |-> p.scale_div,
      hex |-> p.hex,
      min_len |-> IF text THEN p.min_len ELSE 1,
      max_len |-> CASE ~ text -> Digits(f.max)
                    [] OTHER -> Lesser(p.max_len, f.max),
      keyboard |-> IF f.type = "STR16" THEN "plain" ELSE p.keyboard]

TightenNot(s, f, hw_cap) == s     \* a plausible bug: the table's bound is taken for the pump's

(* pcfg_tighten: a dose may not exceed what the pump may run. *)
Tighten(s, f, hw_cap) ==
  IF hw_cap > 0 /\ f.group = "WATER" /\ f.key = "DOSE_S"
  THEN [s EXCEPT !.max = Lesser(@, IF hw_cap < s.min THEN s.min ELSE hw_cap)]
  ELSE s

Widget == Tighten(SpecFor(table, field), field, cap)

Nothing == -1

(* pcfg_parse_raw: the number of a text, Nothing for the kinds that carry    *)
(* text.                                                                     *)
ParseRaw(s, t) ==
  CASE s.type = "HHMM" -> HhmmParse(t)
    [] s.type = "ENUM" -> EnumParse(s.opts, t)
    [] s.type = "PIN" /\ t = <<"word", "NONE">> -> HG_NONE
    [] s.type \in {"PIN", "U8", "U16", "BOOL"} /\ t[1] = "num" -> t[2]
    [] OTHER -> Nothing

(* pcfg_raw_text *)
RawText(s, v) ==
  CASE s.type = "HHMM" -> IF v \in 0..1439 THEN HhmmFormat(v) ELSE NoText
    [] s.type = "ENUM" -> IF v < Len(s.opts) THEN EnumName(s.opts, v) ELSE NoText
    [] s.type = "PIN" /\ v = HG_NONE -> <<"word", "NONE">>
    [] s.type \in {"STR16", "STR"} -> NoText
    [] OTHER -> <<"num", v>>

FormatRounded(s, t) ==     \* a plausible bug: a scaled value is shown without its tenths
  IF s.scale_div = 10 THEN <<"tenths", t[2] \div 10>> ELSE t

(* pcfg_format: what the row shows. *)
Format(s, t) ==
  CASE s.scale_div = 10 /\ t = <<"num", 0>> -> <<"off">>
    [] s.scale_div = 10 -> <<"tenths", t[2] \div 10, t[2] % 10>>
    [] s.hex -> <<"hex", t[2]>>
    [] s.type = "BOOL" -> IF t[2] = 1 THEN <<"on">> ELSE <<"off">>
    [] s.type = "PIN" /\ t = <<"word", "NONE">> -> <<"none">>
    [] OTHER -> t

SteppedPast(s, cur, dir, big) ==     \* a plausible bug: only the upper end is clamped
  LET n == cur + dir * (IF big /\ s.big_step > 0 THEN s.big_step ELSE 1)
  IN IF n > s.max THEN s.max ELSE n

(* pcfg_step *)
Stepped(s, cur, dir, big) ==
  LET d == IF big /\ s.big_step > 0 THEN s.big_step ELSE 1
      n == cur + dir * d
  IN CASE n < s.min -> s.min
       [] n > s.max -> s.max
       [] OTHER -> n

-----------------------------------------------------------------------------
(* Bound: the values a row is opened on. *)
Starts(f) == CASE f.type \in {"STR16", "STR"} -> {<<0, "host">>}
               [] f.type = "PIN" -> {f.max, HG_NONE}
               [] OTHER -> {f.min, (f.min + f.max) \div 2, f.max}

(* wdg_field_create *)
Init ==
  /\ table \in {"zone", "master"}
  /\ field \in Rows(IF table = "zone" THEN HG_FIELDS ELSE HG_MFIELDS)
  /\ cap \in CAPS
  /\ raw \in {Read(field, v) : v \in Starts(field)}
  /\ cap > 0 /\ field.key = "DOSE_S" => raw[2] <= cap      \* hg_cfg_validate
  /\ out = NoText /\ error = FALSE
  /\ taps = 0

Tap == taps < MAX_TAP /\ taps' = taps + 1 /\ UNCHANGED <<table, field, cap>>

(* emit, set_num *)
Emit(t) == raw' = t /\ out' = t /\ error' = FALSE

SetNum(v) ==
  IF RawText(Widget, v) = NoText THEN UNCHANGED <<raw, out, error>>
  ELSE Emit(RawText(Widget, v))

Step ==
  /\ Widget.kind = "STEPPER" /\ Tap
  /\ \E dir \in {-1, 1}, big \in BOOLEAN :
       LET cur == ParseRaw(Widget, raw)
           new == Stepped(Widget, cur, dir, big)
       IN /\ big => Widget.big_step > 0
          /\ IF new # cur THEN SetNum(new) ELSE UNCHANGED <<raw, out, error>>

(* A long press opens the keypad, except where the row shows tenths. *)
Keypad ==
  /\ Widget.kind = "STEPPER" /\ Widget.scale_div = 1 /\ Tap
  /\ \E n \in {Widget.min - 1, Widget.min, Widget.max, Widget.max + 1, field.max} :
       /\ n >= 0 /\ Digits(n) <= Widget.max_len
       /\ IF n \in Widget.min..Widget.max THEN SetNum(n)
          ELSE error' = TRUE /\ UNCHANGED <<raw, out>>

Switch ==
  /\ Widget.kind = "SWITCH" /\ Tap
  /\ SetNum(1 - ParseRaw(Widget, raw))

Segment ==
  /\ Widget.kind = "SEGMENTED" /\ Tap
  /\ \E sel \in 0..Len(Widget.opts) - 1 :
       IF sel = ParseRaw(Widget, raw) THEN UNCHANGED <<raw, out, error>> ELSE SetNum(sel)

(* The two wheels of a time turn one at a time. *)
Wheel(m, sel, hours) == IF hours THEN sel * 60 + (m % 60) ELSE (m \div 60) * 60 + sel

RollTime ==
  /\ Widget.kind = "ROLLER" /\ Widget.type = "HHMM" /\ Tap
  /\ \E hours \in BOOLEAN :
       \E sel \in (IF hours THEN {0, 12, 23} ELSE {0, 30, 59}) :
         SetNum(Wheel(ParseRaw(Widget, raw), sel, hours))

(* text_done, secret_done: a blank secret is an unchanged one. *)
Type ==
  /\ Widget.kind \in {"TEXT", "SECRET"} /\ Tap
  /\ \E typed \in TYPED :
       /\ typed[2] \in Widget.min_len..Widget.max_len
       /\ typed[3] = "host" \/ Widget.keyboard \in {"space", typed[3]}
       /\ IF Widget.kind = "SECRET" /\ typed[2] = 0 THEN UNCHANGED <<raw, out, error>>
          ELSE Emit(typed)

Next == Step \/ Keypad \/ Switch \/ Segment \/ RollTime \/ Type

Spec == Init /\ [][Next]_vars

-----------------------------------------------------------------------------
(* Properties. *)

TypeOK ==
  /\ raw # NoText
  /\ out \in {NoText, raw}
  /\ taps \in 0..MAX_TAP

(* The panel cannot ask for what the table refuses: every text a row hands    *)
(* over is taken by hg_field_write, stays within the pump's bound, and is     *)
(* read back as the text the row keeps.  Of what the master's keyboard lets   *)
(* through, its validator refuses a password's length and a time zone only.   *)
RowSpeaksTable ==
  out # NoText =>
    LET w == Write(field, out) IN
    /\ w.rc = 0
    /\ Read(field, w.v) = raw
    /\ field.key = "DOSE_S" /\ cap > 0 => w.v <= cap
    /\ table = "master" => MErrors([MDefaults EXCEPT ![field.key] = w.v])
                             \subseteq {"STA_PASS", "AP_PASS", "TZ"}

ShownChange == raw' # raw => Format(Widget, raw') # Format(Widget, raw)

(* A change shows: a row that hands over another value looks different (the   *)
(* tenths of DLI, the hexadecimal addresses, "off" and "none").               *)
ChangeShows == [][ShownChange]_vars

=============================================================================
