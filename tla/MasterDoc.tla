----------------------------- MODULE MasterDoc -----------------------------
(***************************************************************************)
(* The master's own document (hg_mcfg.c) and its JSON (hg_json_mcfg.c):    *)
(* the web page's PUT, and the file on the SD card, exported without the   *)
(* passwords and imported with blank ones taken for unchanged              *)
(* (cfg_card.c, psvc_mcfg.c).  Its way to the store is in MasterNet.       *)
(***************************************************************************)
EXTENDS CfgField

CONSTANTS
  MLEAVES,    \* for some keys, the JSON leaves a page or a hand-edited file may have
  MAX_SAVE    \* bound: saves

VARIABLES
  mdoc,    \* mcfg_get()
  mfile,   \* the file on the card, or none
  mwas,    \* history: the document it was exported from
  saves    \* spent of MAX_SAVE

vars == <<mdoc, mfile, mwas, saves>>

NoFile == <<>>
Secrets == {f.key : f \in {x \in Rows(HG_MFIELDS) : IsSecret(x)}}

Init == mdoc = MDefaults /\ mfile = NoFile /\ mwas = NoFile /\ saves = 0

BlankText == <<"string", <<"str", 0, "host">>>>

(* hg_json_export_mcfg *)
ExportMcfg(secrets) ==
  [k \in {x \in MKeys : secrets \/ x \notin Secrets} |-> ToJson(MRow(k), mdoc[k])]

MWrite(k, leaf) ==
  LET text == JsonToText(MRow(k), leaf) IN
  IF text = NoText THEN Refuse(-1) ELSE Write(MRow(k), text)

(* hg_json_merge_mcfg_opts: onto a scratch copy that is validated as a whole *)
MergeMcfgBlindly(leaves, skip_blank_secrets) ==     \* a plausible bug: a blank is a value
  LET w == [k \in DOMAIN leaves |-> MWrite(k, leaves[k])]
      scratch == [k \in MKeys |-> IF k \in DOMAIN leaves THEN w[k].v ELSE mdoc[k]]
      fits == /\ \A k \in DOMAIN leaves : w[k].rc = 0
              /\ MErrors(scratch) = {}
  IN IF fits THEN scratch ELSE mdoc

MergeMcfg(leaves, skip_blank_secrets) ==
  LET given == {k \in DOMAIN leaves :
                  ~ (skip_blank_secrets /\ k \in Secrets /\ leaves[k] = BlankText)}
      w == [k \in given |-> MWrite(k, leaves[k])]
      scratch == [k \in MKeys |-> IF k \in given THEN w[k].v ELSE mdoc[k]]
      fits == (\A k \in given : w[k].rc = 0) /\ MErrors(scratch) = {}
  IN IF fits THEN scratch ELSE mdoc

(* The web page saves what it names; a blank password clears it if it may be. *)
SaveJson ==
  /\ saves < MAX_SAVE /\ saves' = saves + 1
  /\ \E some \in {F \in SUBSET DOMAIN MLEAVES : Cardinality(F) \in 1..2} :
       \E leaves \in [some -> UNION {MLEAVES[k] : k \in some}] :
         /\ \A k \in some : leaves[k] \in MLEAVES[k]
         /\ mdoc' = MergeMcfg(leaves, FALSE)
  /\ UNCHANGED <<mfile, mwas>>

ExportToCard ==
  /\ mfile = NoFile
  /\ mfile' = ExportMcfg(FALSE) /\ mwas' = mdoc
  /\ UNCHANGED <<mdoc, saves>>

(* The file may have been completed by hand with blank passwords. *)
ImportFromCard ==
  /\ mfile # NoFile
  /\ \E blanks \in SUBSET Secrets :
       mdoc' = MergeMcfg([k \in DOMAIN mfile \cup blanks |->
                            IF k \in blanks THEN BlankText ELSE mfile[k]], TRUE)
  /\ mfile' = NoFile /\ mwas' = NoFile
  /\ UNCHANGED saves

Next == SaveJson \/ ExportToCard \/ ImportFromCard

Spec == Init /\ [][Next]_vars

-----------------------------------------------------------------------------
(* Properties. *)

GivesBack ==
  ImportFromCard => mdoc' = [k \in MKeys |-> IF k \in Secrets THEN mdoc[k] ELSE mwas[k]]

(* A card gives back what it was exported from, and the passwords stay those  *)
(* in force: they were never on the card, and a blank one changes nothing.    *)
CardKeepsPasswords == [][GivesBack]_vars
=============================================================================
