------------------------------ MODULE ZoneDoc ------------------------------
(***************************************************************************)
(* A zone's configuration document as its editors see it: the console's    *)
(* SET lines and its GET CONFIG dump (zone_cmds.c), and the JSON export    *)
(* and merge behind the web page, the panel and the SD card                *)
(* (hg_json_cfg.c).  A backup is the dump or the exported file.            *)
(*                                                                         *)
(* An edit is one critical section of the model (hg_model_edit), so every  *)
(* command is one step here; who else changes the document, and what the   *)
(* store and the reconciler do with it, is in HgStore and CfgSync.         *)
(***************************************************************************)
EXTENDS CfgField

CONSTANTS
  EDITED,     \* the addresses this instance edits; the others keep their default
  TEXTS,      \* for each of them, the texts an operator types
  LEAVES,     \* for each of them, the JSON leaves a file may have
  DUMP_MAX,   \* lines of a dump that fit the response
  MAX_EDIT    \* bound: edits

VARIABLES
  doc,      \* the zone's document, both planes
  file,     \* the exported file: a document's leaves, or none
  exported, \* history: the document it was exported from
  dumped,   \* the document of the last dump
  tape,     \* its lines not yet replayed on the board that replaced this one
  missing,  \* fields the dump had no room for ("MORE"), and lines refused
  reply,    \* the last answer: "ok", or why not, and the paths it may name
  edits     \* spent of MAX_EDIT

vars == <<doc, file, exported, dumped, tape, missing, reply, edits>>

NoDoc == <<>>
Defaults == [a \in EDITED |-> Default[a]]
Ok == [rc |-> "ok", at |-> {}]

Init ==
  /\ doc = Defaults /\ file = NoDoc /\ exported = NoDoc /\ dumped = NoDoc
  /\ tape = <<>> /\ missing = [more |-> 0, refused |-> 0]
  /\ reply = Ok /\ edits = 0

-----------------------------------------------------------------------------
(* The console. *)

EditErrorsOfPlane(a, new) ==     \* a plausible bug: a plane is validated by itself
  IF IsHw(a[1]) THEN HwErrors(new) ELSE CfgErrors(new)

(* The row's plane decides what is validated: the cfg plane always, the hw *)
(* plane when it is the one that changes (hg_model_edit, hw_mask_for).     *)
EditErrors(a, new) ==
  IF IsHw(a[1]) /\ HwErrors(new) # {} THEN HwErrors(new) ELSE CfgErrors(new)

(* field_err_token *)
Token(rc) == IF rc = -1 THEN "BAD_ARGS" ELSE "OUT_OF_RANGE"

(* What a SET line leaves behind: the document and the answer. *)
SetAndReply(d, a, text) ==
  LET w == Write(RowOf(a), text)
      new == [d EXCEPT ![a] = w.v]
  IN CASE w.rc # 0 -> [doc |-> d, reply |-> [rc |-> Token(w.rc), at |-> {}]]
       [] EditErrors(a, new) # {} ->
            [doc |-> d, reply |-> [rc |-> "INVALID_FIELD", at |-> EditErrors(a, new)]]
       [] OTHER -> [doc |-> new, reply |-> Ok]

(* SET CAL names a side and a point: the plausibility window has no SET row. *)
Settable(a) == a[1] = "CAL" => a[3] \in {"DRY_A", "DRY_B", "WET_A", "WET_B"}

Line(a, text) ==
  LET done == SetAndReply(doc, a, text) IN
  IF Settable(a)
  THEN doc' = done.doc /\ reply' = done.reply
  ELSE doc' = doc /\ reply' = [rc |-> "BAD_ARGS", at |-> {}]

Edit == edits < MAX_EDIT /\ edits' = edits + 1

SetField ==
  /\ tape = <<>> /\ Edit
  /\ \E a \in EDITED : \E text \in TEXTS[a] : Line(a, text)
  /\ UNCHANGED <<file, exported, dumped, tape, missing>>

(* The fields that differ from their default, in the table's order. *)
Place(a) ==
  CHOOSE i \in DOMAIN HG_FIELDS : HG_FIELDS[i].group = a[1] /\ HG_FIELDS[i].key = a[3]

ChangedCfgOnly ==     \* a plausible bug: the dump walks the configuration plane only
  {a \in EDITED : ~ IsHw(a[1]) /\ doc[a] # Default[a]}

Changed ==
  {a \in EDITED : Read(RowOf(a), doc[a]) # Read(RowOf(a), Default[a])}

InOrder(S) ==
  CHOOSE s \in [1..Cardinality(S) -> S] :
    \A i, j \in 1..Cardinality(S) : i < j =>
      \/ Place(s[i]) < Place(s[j])
      \/ Place(s[i]) = Place(s[j]) /\ s[i][2] < s[j][2]

DumpLines == LET order == InOrder(Changed) IN
  [i \in DOMAIN order |-> [at |-> order[i], text |-> Read(RowOf(order[i]), doc[order[i]])]]

(* GET CONFIG, and the lines kept; MORE counts those that did not fit. *)
Dump ==
  /\ tape = <<>> /\ dumped = NoDoc
  /\ LET lines == DumpLines
         fit == Min({Len(lines), DUMP_MAX})
     IN /\ tape' = SubSeq(lines, 1, fit)
        /\ missing' = [more |-> Len(lines) - fit, refused |-> 0]
  /\ dumped' = doc
  /\ doc' = Defaults            \* the board is replaced by a new one
  /\ reply' = Ok
  /\ UNCHANGED <<file, exported, edits>>

Replay ==
  /\ tape # <<>>
  /\ Line(Head(tape).at, Head(tape).text)
  /\ missing' = IF reply'.rc = "ok" THEN missing
                ELSE [missing EXCEPT !.refused = @ + 1]
  /\ tape' = Tail(tape)
  /\ UNCHANGED <<file, exported, dumped, edits>>

-----------------------------------------------------------------------------
(* JSON. *)

(* hg_json_export_cfg: the hardware plane is exported too. *)
Export ==
  /\ tape = <<>> /\ file = NoDoc
  /\ file' = [a \in EDITED |-> ToJson(RowOf(a), doc[a])]
  /\ exported' = doc
  /\ reply' = Ok
  /\ UNCHANGED <<doc, dumped, tape, missing, edits>>

(* One key of a file: -2 and its path when the leaf is not of its kind or   *)
(* the field does not take it.                                              *)
Merged(f, leaf) ==
  LET text == JsonToText(f, leaf) IN
  IF text = NoText THEN Refuse(-1) ELSE Write(f, text)

MergeFieldwise(leaves) ==     \* a plausible bug: every field is validated by itself
  LET mine == {a \in DOMAIN leaves : ~ IsHw(a[1])}
      w == [a \in mine |-> Merged(RowOf(a), leaves[a])]
      bad == {a \in mine : \/ w[a].rc # 0
                           \/ CfgErrors([doc EXCEPT ![a] = w[a].v]) # {}}
      scratch == [a \in EDITED |-> IF a \in mine THEN w[a].v ELSE doc[a]]
  IN IF bad # {} THEN [doc |-> doc, reply |-> [rc |-> "INVALID_FIELD", at |-> {}]]
     ELSE [doc |-> scratch, reply |-> Ok]

(* hg_json_merge_cfg: "hw" is read-only, the rest goes to a scratch copy    *)
(* that is validated as a whole.                                            *)
Merge(leaves) ==
  LET mine == {a \in DOMAIN leaves : ~ IsHw(a[1])}
      w == [a \in mine |-> Merged(RowOf(a), leaves[a])]
      bad == {a \in mine : w[a].rc # 0}
      scratch == [a \in EDITED |-> IF a \in mine THEN w[a].v ELSE doc[a]]
  IN CASE bad # {} ->
            [doc |-> doc,
             reply |-> [rc |-> "BAD_VALUE",
                        at |-> {[in |-> IF Scope(a[1]) = "one" THEN "none" ELSE Scope(a[1]),
                                 idx |-> a[2], group |-> a[1], key |-> a[3]] : a \in bad}]]
       [] CfgErrors(scratch) # {} ->
            [doc |-> doc, reply |-> [rc |-> "INVALID_FIELD", at |-> CfgErrors(scratch)]]
       [] OTHER -> [doc |-> scratch, reply |-> Ok]

Import(leaves) ==
  LET done == Merge(leaves) IN doc' = done.doc /\ reply' = done.reply

(* The web page or the panel saves the fields it changed. *)
SaveFields ==
  /\ tape = <<>> /\ Edit
  /\ \E some \in {F \in SUBSET DOMAIN LEAVES : Cardinality(F) \in 1..2} :
       \E leaves \in [some -> UNION {LEAVES[a] : a \in some}] :
         /\ \A a \in some : leaves[a] \in LEAVES[a]
         /\ Import(leaves)
  /\ UNCHANGED <<file, exported, dumped, tape, missing>>

(* A file exported earlier is restored. *)
Restore ==
  /\ tape = <<>> /\ file # NoDoc
  /\ Import(file)
  /\ file' = NoDoc /\ exported' = NoDoc
  /\ UNCHANGED <<dumped, tape, missing, edits>>

Next ==
  \/ SetField \/ Dump \/ Replay
  \/ Export \/ SaveFields \/ Restore

Spec == Init /\ [][Next]_vars

-----------------------------------------------------------------------------
(* Properties. *)

TypeOK ==
  /\ DOMAIN doc = EDITED
  /\ \A a \in EDITED : RowOk(RowOf(a), doc[a])
  /\ edits \in 0..MAX_EDIT

(* Whatever the console, a file or the panel asked for, the two planes fit    *)
(* each other: no shelf is enabled that the board has not, no dose is longer  *)
(* than the pump may run, no two outputs share a pin.  A change of either     *)
(* plane can break this (hg_model_edit, hg_json_merge_cfg).                   *)
PlanesAgree == HwErrors(doc) = {} /\ CfgErrors(doc) = {}

(* A refusal can be shown where it belongs: every path a refused edit may     *)
(* name is found again by pcfg_locate as a row of the table, at the index it  *)
(* happened if the path tells one.                                            *)
ErrorsLand ==
  \A p \in reply.at : \E found \in Locate(p) :
    /\ found.row.key = p.key
    /\ found.idx = p.idx
    /\ p.group = "" \/ found.row.group = p.group

Restored ==
  Restore => LET was == [a \in EDITED |-> IF IsHw(a[1]) THEN doc[a] ELSE exported[a]]
             IN  doc' = IF CfgErrors(was) = {} THEN was ELSE doc

(* An exported file gives the configuration back: whatever was edited in the  *)
(* meantime, it is refused only where the hardware it is restored to cannot   *)
(* run it, and otherwise every field of the configuration plane is as it was  *)
(* (the merge of hg_json_cfg.c takes the file as a whole).                    *)
FileRestores == [][Restored]_vars

TakenWhole ==
  /\ Replay /\ tape' = <<>>
  /\ missing' = [more |-> 0, refused |-> 0]
  => doc' = dumped

(* GET CONFIG tells the truth: a board that took every line of a dump that    *)
(* was not cut short has the configuration that was dumped.                   *)
TakenDumpIsWhole == [][TakenWhole]_vars

(* zone_cmds.c:162 calls the dump of GET CONFIG "replayable": every line of   *)
(* one is taken by a new board.                                               *)
DumpReplays == missing.refused = 0
=============================================================================
