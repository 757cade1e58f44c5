--------------------------- MODULE FleetOtaProofs ---------------------------
(***************************************************************************)
(* What holds of the zone image and its server, for any set of installing  *)
(* tasks and images (transfers are whole, verdicts are true), and of zone  *)
(* updates, for any number of zones, images and runs.                      *)
(***************************************************************************)
EXTENDS FleetOta, SequenceTheorems, TLAPS

-----------------------------------------------------------------------------
(* The stored image and its server.                                         *)

(* The phases in which an installer holds the writer claim. *)
WritePhases == {"erase", "drop", "bulk", "write", "header", "verify", "cancel", "cancel_drop",
                "unclaim"}

(* The phases in which the verdict has been dropped and not given again. *)
DarkPhases == {"bulk", "write", "header", "verify", "cancel", "cancel_drop"}

(* One claim, one installer. *)
OneInstaller ==
  /\ \A i, j \in Installers : ~At(i, "idle") /\ ~At(j, "idle") => i = j
  /\ ~busy => \A i \in Installers : At(i, "idle")

(* The writer claim is held exactly while an installer writes, and nothing  *)
(* streams then.                                                            *)
OneWriter ==
  /\ \A i \in Installers : inst[i].pc \in WritePhases => writer
  /\ writer => stream = NoStream

(* The cached verdict is true, but for the moment after a header is erased. *)
HonestCache ==
  /\ \A i \in Installers :
       /\ At(i, "drop") => hdr = Blank
       /\ inst[i].pc \in DarkPhases => ~img_ok
       /\ ~At(i, "idle") => inst[i].img \in Images
  /\ (\A i \in Installers : ~At(i, "drop")) => (img_ok => Valid)

FwInv == FwTypeOK /\ OneInstaller /\ OneWriter /\ HonestCache /\ NoTornPull

LEMMA FwInitInv == FwInit => FwInv
<1> SUFFICES ASSUME FwInit PROVE FwInv
  OBVIOUS
<1> USE DEF FwInit, NotInstalling, NoStream, At
<1>1. FwTypeOK
  <2>1. {busy, img_ok, writer} \subseteq BOOLEAN
    BY Zenon DEF Valid
  <2>2. inst \in [Installers -> [pc : Phases, kind : {"zone", "master"}, img : Content]]
    BY DEF Phases, Content
  <2>3. {hdr, body} \subseteq Content
    BY ZoneFwAssumption DEF Content
  <2>4. stream \in [to : Zones \cup {0}, img : Content]
    BY DEF Content
  <2> QED
    BY <2>1, <2>2, <2>3, <2>4 DEF FwTypeOK
<1>2. OneInstaller
  BY DEF OneInstaller
<1>3. OneWriter
  BY DEF OneWriter, WritePhases
<1>4. HonestCache
  BY DEF HonestCache, WritePhases, DarkPhases
<1>5. NoTornPull
  BY DEF NoTornPull
<1> QED
  BY <1>1, <1>2, <1>3, <1>4, <1>5 DEF FwInv

LEMMA FwStepInv == FwInv /\ [FwNext]_fwVars => FwInv'
<1> USE ZoneFwAssumption DEF FwInv, FwTypeOK, OneInstaller, OneWriter, HonestCache, NoTornPull,
      NotInstalling, NoStream, Content, Phases, WritePhases, DarkPhases, At, Goto, Valid
<1> SUFFICES ASSUME FwInv, [FwNext]_fwVars PROVE FwInv'
  OBVIOUS
<1>1. ASSUME NEW i \in Installers, NEW kind \in {"zone", "master"}, NEW img \in Images,
             Claim(i, kind, img)
      PROVE  FwInv'
  BY <1>1 DEF Claim
<1>2. ASSUME NEW i \in Installers, PassGuards(i, TRUE) PROVE FwInv'
  BY <1>2 DEF PassGuards
<1>3. ASSUME NEW i \in Installers, FailGuards(i) PROVE FwInv'
  <2>1. \A j \in Installers : inst'[j].pc = "idle"
    BY <1>3 DEF FailGuards
  <2>2. {busy, img_ok, writer}' \subseteq BOOLEAN
    BY <1>3, Zenon DEF FailGuards
  <2>3. (inst \in [Installers -> [pc : Phases, kind : {"zone", "master"}, img : Content]])'
    BY <1>3 DEF FailGuards
  <2>4. FwTypeOK' /\ OneInstaller'
    BY <1>3, <2>1, <2>2, <2>3 DEF FailGuards
  <2>5. OneWriter' /\ HonestCache' /\ NoTornPull'
    BY <1>3, <2>1 DEF FailGuards
  <2> QED
    BY <2>4, <2>5
<1>4. ASSUME NEW i \in Installers, Rejected(i) PROVE FwInv'
  BY <1>4 DEF Rejected
<1>5. ASSUME NEW i \in Installers, IdentifyMaster(i) PROVE FwInv'
  BY <1>5 DEF IdentifyMaster
<1>6. ASSUME NEW i \in Installers, MasterWritten(i) PROVE FwInv'
  BY <1>6 DEF MasterWritten
<1>7. ASSUME NEW i \in Installers, ClaimWriter(i) PROVE FwInv'
  <2>1. CASE MayWrite
    BY <1>7, <2>1 DEF ClaimWriter, MayWrite
  <2>2. CASE ~MayWrite
    BY <1>7, <2>2 DEF ClaimWriter
  <2> QED
    BY <2>1, <2>2
<1>8. ASSUME NEW i \in Installers, EraseHeader(i) PROVE FwInv'
  BY <1>8 DEF EraseHeader
<1>9. ASSUME NEW i \in Installers, DropVerdict(i) PROVE FwInv'
  <2>1. CASE At(i, "drop") /\ Goto(i, "bulk")
    <3>1. ~Valid /\ ~img_ok'
      BY <1>9, <2>1 DEF DropVerdict
    <3> QED
      BY <1>9, <2>1, <3>1 DEF DropVerdict
  <2>2. CASE At(i, "cancel_drop") /\ Goto(i, "unclaim")
    <3>1. img_ok' = Valid /\ img_ok' \in BOOLEAN
      BY <1>9, Zenon DEF DropVerdict, Valid
    <3> QED
      BY <1>9, <2>2, <3>1 DEF DropVerdict
  <2> QED
    BY <1>9, <2>1, <2>2 DEF DropVerdict
<1>10. ASSUME NEW i \in Installers, EraseBody(i) PROVE FwInv'
  BY <1>10 DEF EraseBody
<1>11. ASSUME NEW i \in Installers, BeginFails(i) PROVE FwInv'
  BY <1>11 DEF BeginFails
<1>12. ASSUME NEW i \in Installers, WriteBody(i) PROVE FwInv'
  BY <1>12 DEF WriteBody
<1>13. ASSUME NEW i \in Installers, WriteHeader(i) PROVE FwInv'
  BY <1>13 DEF WriteHeader
<1>14. ASSUME NEW i \in Installers, WriteFails(i) PROVE FwInv'
  BY <1>14 DEF WriteFails
<1>15. ASSUME NEW i \in Installers, Verify(i) PROVE FwInv'
  BY <1>15 DEF Verify
<1>16. ASSUME NEW i \in Installers, Cancel(i) PROVE FwInv'
  BY <1>16 DEF Cancel
<1>17. ASSUME NEW i \in Installers, ReleaseWriter(i) PROVE FwInv'
  <2>1. \A j \in Installers : j # i => At(j, "idle")
    BY <1>17 DEF ReleaseWriter
  <2>2. \A j \in Installers : inst'[j].pc \notin WritePhases
    BY <1>17, <2>1 DEF ReleaseWriter
  <2>3. FwTypeOK'
    <3>1. {busy, img_ok, writer}' \subseteq BOOLEAN
      BY <1>17, Zenon DEF ReleaseWriter
    <3>2. (inst \in [Installers -> [pc : Phases, kind : {"zone", "master"}, img : Content]])'
      BY <1>17 DEF ReleaseWriter
    <3> QED
      BY <1>17, <3>1, <3>2 DEF ReleaseWriter
  <2>4. OneInstaller'
    BY <1>17 DEF ReleaseWriter
  <2>5. NoTornPull'
    BY <1>17 DEF ReleaseWriter
  <2>6. OneWriter' /\ HonestCache'
    BY <1>17, <2>1, <2>2 DEF ReleaseWriter
  <2> QED
    BY <2>3, <2>4, <2>5, <2>6
<1>18. ASSUME NEW i \in Installers, Release(i) PROVE FwInv'
  <2>1. \A j \in Installers : inst'[j].pc = "idle"
    BY <1>18 DEF Release
  <2>2. {busy, img_ok, writer}' \subseteq BOOLEAN
    BY <1>18, Zenon DEF Release
  <2>3. (inst \in [Installers -> [pc : Phases, kind : {"zone", "master"}, img : Content]])'
    BY <1>18 DEF Release
  <2>4. FwTypeOK' /\ OneInstaller'
    BY <1>18, <2>1, <2>2, <2>3 DEF Release
  <2>5. OneWriter' /\ HonestCache' /\ NoTornPull'
    BY <1>18, <2>1 DEF Release
  <2> QED
    BY <2>4, <2>5
<1>19. ASSUME NEW z \in Zones, StreamStart(z) PROVE FwInv'
  BY <1>19 DEF StreamStart, ImageOk, Zones
<1>20. CASE StreamEnd
  BY <1>20 DEF StreamEnd
<1>21. CASE FwReset
  BY <1>21 DEF FwReset
<1>22. CASE UNCHANGED fwVars
  BY <1>22 DEF fwVars
<1> HIDE ZoneFwAssumption DEF FwInv, FwTypeOK, OneInstaller, OneWriter, HonestCache, NoTornPull,
      NotInstalling, NoStream, Content, Phases, WritePhases, DarkPhases, At, Goto, Valid
<1>23. ASSUME NEW i \in Installers, InstallStep(i) PROVE FwInv'
  BY <1>4, <1>5, <1>6, <1>7, <1>8, <1>9, <1>10, <1>11, <1>12, <1>13, <1>14, <1>15, <1>16,
     <1>17, <1>18, <1>23, Zenon DEF InstallStep
<1>24. CASE FwNext
  BY <1>1, <1>2, <1>3, <1>19, <1>20, <1>21, <1>23, <1>24, Zenon DEF FwNext
<1> QED
  BY <1>22, <1>24, Zenon

(* The verdict is cached, and read without a look at the flash: true of the *)
(* flash whenever it is given out.                                          *)
LEMMA FwInvVerdict == FwInv => VerdictGenuine
BY DEF FwInv, OneWriter, HonestCache, VerdictGenuine, ImageOk, At, WritePhases

(* Whoever installs and whatever fails, a transfer to a zone is of one      *)
(* whole image from its first chunk to its last (fw_srv.c 158-164, 237-244).*)
THEOREM TransfersWhole == FwSpec => []NoTornPull
<1>1. FwInv => NoTornPull
  BY DEF FwInv
<1> QED
  BY <1>1, FwInitInv, FwStepInv, PTL DEF FwSpec

(* What the server says of the stored image is so (fw_sink_zone.c 19-32).   *)
THEOREM VerdictsTrue == FwSpec => []VerdictGenuine
BY FwInitInv, FwStepInv, FwInvVerdict, PTL DEF FwSpec

-----------------------------------------------------------------------------
(* The boards.                                                              *)

(* A board that boots a whole image whenever it is reset, with the reasons: *)
(* only a board that has just pulled selects a new image, and rescue is     *)
(* entered from a valid one, which a pull leaves alone.                     *)
Bootable(r) ==
  /\ Running(r) \in Images
  /\ r.ota[r.boot] # "bad"
  /\ r.ota[r.boot] \in {"new", "pending"} =>
       r.slot[Other(r.boot)] \in Images /\ r.ota[Other(r.boot)] = "valid"

Stands(r) ==
  /\ Bootable(r)
  /\ r.ota[r.boot] = "new" => r.mode = "pulled"
  /\ r.mode \in {"rescue", "pull", "manual"} => r.ota[r.boot] = "valid"
  /\ r.mode \in {"rescue", "pull"} => r.tries > 0

-----------------------------------------------------------------------------
(* The operations on a board.                                               *)

(* The bootloader's choice is bootable again, and never new; it is valid    *)
(* unless a new image begins its trial.                                     *)
LEMMA SelectedStands ==
  ASSUME NEW r \in Boards, Stands(r)
  PROVE  /\ Selected(r) \in Boards
         /\ Bootable(Selected(r))
         /\ Selected(r).ota[Selected(r).boot] # "new"
         /\ r.ota[r.boot] # "new" => Selected(r).ota[Selected(r).boot] = "valid"
         /\ \A f \in {"mode", "slot", "hando"} : Selected(r)[f] = r[f]
<1> USE DEF Boards, OtaStates, Stands, Bootable, Selected, Running, Other
<1>1. CASE r.ota[r.boot] = "pending"
  <2> DEFINE s == [r EXCEPT !.ota[r.boot] = "bad", !.boot = Other(r.boot)]
  <2>1. Selected(r) = s
    BY <1>1
  <2>2. s.boot = 3 - r.boot /\ s.slot = r.slot /\ s.mode = r.mode /\ s.hando = r.hando
    OBVIOUS
  <2>3. s.ota = [r.ota EXCEPT ![r.boot] = "bad"]
    OBVIOUS
  <2>4. s.ota[s.boot] = "valid"
    BY <1>1, <2>2, <2>3
  <2>5. Other(r.boot) \in {1, 2} /\ s.ota \in OtaStates
    BY <2>3
  <2>6. s \in Boards
    BY <2>5 DEF Boards
  <2> HIDE DEF s
  <2> QED
    BY <1>1, <2>1, <2>2, <2>4, <2>6
<1>2. CASE r.ota[r.boot] = "new"
  <2> DEFINE s == [r EXCEPT !.ota[r.boot] = "pending"]
  <2>1. Selected(r) = s
    BY <1>2
  <2>2. s.boot = r.boot /\ s.slot = r.slot /\ s.mode = r.mode /\ s.hando = r.hando
    OBVIOUS
  <2>3. s.ota = [r.ota EXCEPT ![r.boot] = "pending"]
    OBVIOUS
  <2>4. s.ota[s.boot] = "pending" /\ s.ota[Other(s.boot)] = "valid"
    BY <1>2, <2>2, <2>3
  <2>5. s \in Boards
    BY <2>2, <2>3
  <2> HIDE DEF s
  <2> QED
    BY <1>2, <2>1, <2>2, <2>4, <2>5
<1>3. CASE r.ota[r.boot] \notin {"pending", "new"}
  BY <1>3
<1> QED
  BY <1>1, <1>2, <1>3

LEMMA BootedStands ==
  ASSUME NEW r \in Boards, Stands(r)
  PROVE  Booted(r) \in Boards /\ Stands(Booted(r))
<1> DEFINE s == Selected(r)
           b == [s EXCEPT !.mode = "boot", !.low = TRUE, !.trial = "off", !.tries = 0, !.left = 0]
<1>1. s \in Boards /\ Bootable(s) /\ s.ota[s.boot] # "new"
  BY SelectedStands
<1> HIDE DEF s
<1>2. 0 \in 0 .. PULLS /\ 0 \in Nat /\ "boot" \in Modes
  BY FleetOtaAssumption DEF Modes
<1>3. b \in Boards
  BY <1>1, <1>2 DEF Boards
<1>4. b.mode = "boot" /\ b.slot = s.slot /\ b.ota = s.ota /\ b.boot = s.boot
  BY <1>1 DEF Boards
<1>5. Stands(b)
  BY <1>1, <1>4 DEF Stands, Bootable, Running
<1>6. Booted(r) = b
  BY DEF Booted, s
<1> QED
  BY <1>3, <1>5, <1>6

LEMMA RescuedStands ==
  ASSUME NEW r \in Boards, Stands(r), r.mode = "leaving"
  PROVE  Rescued(r) \in Boards /\ Stands(Rescued(r))
<1> DEFINE s == Selected(r)
           m == IF r.hando THEN "rescue" ELSE "manual"
           n == IF r.hando THEN PULLS ELSE 0
           b == [s EXCEPT !.mode = m, !.hando = FALSE, !.tries = n, !.trial = "off",
                          !.low = FALSE]
<1>1. s \in Boards /\ Bootable(s) /\ s.ota[s.boot] = "valid"
  BY SelectedStands DEF Stands
<1> HIDE DEF s
<1>2. n \in 0 .. PULLS /\ m \in {"rescue", "manual"} \cap Modes /\ (m = "rescue" => n > 0)
  BY FleetOtaAssumption DEF Modes
<1>6. Rescued(r) = b
  BY DEF Rescued, s
<1> HIDE DEF n, m
<1>3. b \in Boards
  BY <1>1, <1>2 DEF Boards
<1>4. b.mode = m /\ b.tries = n /\ b.slot = s.slot /\ b.ota = s.ota /\ b.boot = s.boot
  BY <1>1 DEF Boards
<1>5. Stands(b)
  BY <1>1, <1>2, <1>4 DEF Stands, Bootable, Running
<1> QED
  BY <1>3, <1>5, <1>6

LEMMA FailedStands ==
  ASSUME NEW r \in Boards, Stands(r), r.mode \in {"rescue", "pull"}
  PROVE  Failed(r) \in Boards /\ Stands(Failed(r))
<1> DEFINE m == IF r.tries = 1 THEN "manual" ELSE "rescue"
           n == r.tries - 1
           b == [r EXCEPT !.tries = n, !.mode = m]
<1>1. n \in 0 .. PULLS /\ m \in {"rescue", "manual"} \cap Modes /\ (m = "rescue" => n > 0)
  BY FleetOtaAssumption DEF Boards, Stands, Modes
<1>2. Failed(r) = b
  BY DEF Failed
<1> HIDE DEF n, m
<1>3. b \in Boards
  BY <1>1 DEF Boards
<1>4. b.mode = m /\ b.tries = n /\ b.slot = r.slot /\ b.ota = r.ota /\ b.boot = r.boot
  BY DEF Boards
<1>5. Stands(b)
  BY <1>1, <1>4 DEF Stands, Bootable, Running
<1> QED
  BY <1>2, <1>3, <1>5

-----------------------------------------------------------------------------
(* The operations on a run: it stays one, and none but a start makes it     *)
(* active.                                                                  *)

RunOK(f) == f \in Run /\ (f.active => f.idx <= Len(f.zones))

LEMMA IdleOK == RunOK(Idle) /\ ~Idle.active
<1>1. "PRECHECK" \in Stages
  BY DEF Stages
<1>2. <<>> \in Seq(Zones)
  BY EmptySeq
<1> QED
  BY <1>1, <1>2 DEF RunOK, Run, Idle

LEMMA StartOK ==
  ASSUME NEW zs \in ZoneLists
  PROVE  RunOK(FleetStart(zs))
<1>1. zs \in Seq(Zones) /\ Len(zs) >= 1
  <2>1. CASE \E z \in Zones : zs = <<z>>
    BY <2>1
  <2>2. CASE zs = [i \in Zones |-> i]
    <3>1. zs \in [1 .. ZONES -> Zones] /\ ZONES \in Nat
      BY <2>2, ZoneFwAssumption DEF Zones
    <3>2. zs \in Seq(Zones)
      BY <3>1
    <3>3. Len(zs) = ZONES
      BY <3>1, LenProperties, <3>2
    <3> QED
      BY <3>2, <3>3, ZoneFwAssumption
  <2> QED
    BY <2>1, <2>2 DEF ZoneLists
<1>2. "PRECHECK" \in Stages
  BY DEF Stages
<1>3. Idle \in Run /\ Idle.idx = 1
  BY IdleOK DEF RunOK, Idle
<1> QED
  BY <1>1, <1>2, <1>3 DEF FleetStart, RunOK, Run

LEMMA AdvanceOK ==
  ASSUME NEW f, RunOK(f), f.active, NEW failed
  PROVE  RunOK(Advance(f, failed))
<1>1. CASE failed \/ f.cancel \/ f.idx >= Len(f.zones)
  BY <1>1, IdleOK DEF Advance
<1>2. CASE ~(failed \/ f.cancel \/ f.idx >= Len(f.zones))
  <2> DEFINE n == f.idx + 1
             g == [f EXCEPT !.idx = n, !.st = "PRECHECK"]
  <2>1. Advance(f, failed) = g
    BY <1>2 DEF Advance
  <2>2. "PRECHECK" \in Stages /\ Len(f.zones) \in Nat
    BY LenProperties DEF Stages, RunOK, Run
  <2>3. n \in Nat \ {0} /\ n <= Len(f.zones)
    BY <1>2, <2>2 DEF RunOK, Run
  <2>4. f \in Run
    BY DEF RunOK
  <2> HIDE DEF n
  <2>5. g \in Run
    BY <2>2, <2>3, <2>4 DEF Run
  <2>6. g.idx = n /\ g.zones = f.zones
    BY <2>4 DEF Run
  <2> QED
    BY <2>1, <2>3, <2>5, <2>6 DEF RunOK
<1> QED
  BY <1>1, <1>2

LEMMA CancelOK ==
  ASSUME NEW f, RunOK(f)
  PROVE  RunOK(FleetCancel(f))
<1>1. CASE f.st = "PRECHECK"
  BY <1>1, IdleOK DEF FleetCancel
<1>2. CASE f.st # "PRECHECK"
  BY <1>2 DEF FleetCancel, RunOK, Run
<1> QED
  BY <1>1, <1>2

LEMMA LateOK ==
  ASSUME NEW f, RunOK(f)
  PROVE  RunOK([f EXCEPT !.late = TRUE])
BY DEF RunOK, Run

LEMMA AckOK ==
  ASSUME NEW f, RunOK(f), f.active, NEW ok \in BOOLEAN
  PROVE  RunOK(OnAck(f, ok))
<1>1. CASE ok
  <2>1. "WAIT_HB" \in Stages
    BY DEF Stages
  <2> QED
    BY <1>1, <2>1 DEF OnAck, RunOK, Run
<1>2. CASE ~ok
  BY <1>2, AdvanceOK DEF OnAck
<1> QED
  BY <1>1, <1>2

LEMMA SubmittedOK ==
  ASSUME NEW f, RunOK(f), f.active, NEW b \in BOOLEAN, NEW seq \in Nat,
         NEW pre \in Content \cup {0}
  PROVE  RunOK(NoteSubmitted(f, b, seq, pre))
<1>1. CASE b
  <2> DEFINE g == [f EXCEPT !.st = "WAIT_ACK", !.seq = seq, !.late = FALSE, !.pre = pre]
  <2>1. "WAIT_ACK" \in Stages /\ f \in Run
    BY DEF Stages, RunOK
  <2>2. g \in Run
    BY <2>1 DEF Run
  <2>3. g.active = f.active /\ g.idx = f.idx /\ g.zones = f.zones
    BY <2>1 DEF Run
  <2>4. NoteSubmitted(f, b, seq, pre) = g
    BY <1>1 DEF NoteSubmitted
  <2> QED
    BY <2>2, <2>3, <2>4 DEF RunOK
<1>2. CASE ~b
  BY <1>2, AdvanceOK DEF NoteSubmitted
<1> QED
  BY <1>1, <1>2

-----------------------------------------------------------------------------
(* Every step is one of the image server and the installers, or leaves them *)
(* as they are: here the fleet decides when it is idle.                     *)
LEMMA StepImplements == [Next]_vars => [FwNext]_fwVars
<1> SUFFICES ASSUME [Next]_vars PROVE [FwNext]_fwVars
  OBVIOUS
<1>1. ASSUME NEW i \in Installers, InstallStart(i) PROVE FwNext
  BY <1>1 DEF InstallStart, FwNext
<1>2. ASSUME NEW i \in Installers, InstallGoesOn(i) PROVE FwNext
  <2>1. CASE PassGuards(i, ~fleet.active)
    <3>1. PassGuards(i, TRUE)
      BY <2>1 DEF PassGuards
    <3> QED
      BY <3>1 DEF FwNext
  <2> QED
    BY <1>2, <2>1 DEF InstallGoesOn, FwNext
<1>3. ASSUME NEW z \in Zones, PullStarts(z) PROVE FwNext
  BY <1>3 DEF PullStarts, FwNext
<1>4. ASSUME NEW z \in Zones, PullCompletes(z) PROVE FwNext
  BY <1>4 DEF PullCompletes, FwNext
<1>5. CASE StreamBreaks
  BY <1>5 DEF StreamBreaks, FwNext
<1>6. CASE MasterReset
  BY <1>6 DEF MasterReset, FwNext
<1>7. CASE UNCHANGED vars
  BY <1>7 DEF vars
<1>8. ASSUME NEW zs \in ZoneLists, Start(zs) PROVE UNCHANGED fwVars
  BY <1>8 DEF Start
<1>9. CASE Abort \/ TickReads \/ TickStarts \/ TickEnds \/ DeadlinePasses \/ Retransmit
           \/ TrackerFails
  BY <1>9 DEF Abort, TickReads, TickStarts, TickEnds, DeadlinePasses, Retransmit, TrackerFails
<1>10. ASSUME NEW z \in Zones,
              \/ Receive(z) \/ Lose(z) \/ Reset(z) \/ TrialStart(z) \/ TrialPasses(z)
              \/ TrialFails(z) \/ MinutePasses(z) \/ Heartbeat(z) \/ HandleUpdate(z)
              \/ RebootToRescue(z) \/ PullFails(z) \/ WriteBreadcrumb(z)
       PROVE  UNCHANGED fwVars
  BY <1>10 DEF Receive, Lose, Reset, TrialStart, TrialPasses, TrialFails, MinutePasses,
     Heartbeat, HandleUpdate, RebootToRescue, PullFails, WriteBreadcrumb
<1> QED
  BY <1>1, <1>2, <1>3, <1>4, <1>5, <1>6, <1>7, <1>8, <1>9, <1>10 DEF Next

(* The update's use of the image server and the install path is one the     *)
(* server allows for: what was shown of it on its own holds here too.       *)
THEOREM ServerImplemented == Spec => FwSpec
<1>1. Init => FwInit
  BY DEF Init
<1> QED
  BY <1>1, StepImplements, PTL DEF Spec, FwSpec

(* Every zone is sent one whole image (fw_srv.c 158-164, 237-244), whatever *)
(* the fleet, the zones and the installers do.                              *)
THEOREM UpdatesWhole == Spec => [](NoTornPull /\ VerdictGenuine)
BY ServerImplemented, TransfersWhole, VerdictsTrue, PTL

-----------------------------------------------------------------------------
(* The claim of an install against a run.                                   *)

(* A run becomes active only when it starts. *)
LEMMA OnlyStarts ==
  ASSUME [Next]_vars, \A zs \in ZoneLists : ~Start(zs), fleet'.active
  PROVE  fleet.active
<1>1. CASE TickStarts \/ TickEnds
  BY <1>1 DEF TickStarts, TickEnds, Verdict
<1>2. CASE Abort \/ TickReads \/ DeadlinePasses \/ Retransmit \/ TrackerFails \/ StreamBreaks
  BY <1>2 DEF Abort, TickReads, DeadlinePasses, Retransmit, TrackerFails, Pending, AckIsMine,
     StreamBreaks, master
<1>3. CASE MasterReset
  BY <1>3 DEF MasterReset, Idle
<1>4. ASSUME NEW i \in Installers, InstallStart(i) \/ InstallGoesOn(i) PROVE fleet.active
  BY <1>4 DEF InstallStart, InstallGoesOn, master
<1>5. ASSUME NEW z \in Zones, Receive(z) PROVE fleet.active
  BY <1>5 DEF Receive, AckIsMine
<1>6. ASSUME NEW z \in Zones,
             \/ Lose(z) \/ Reset(z) \/ TrialStart(z) \/ TrialPasses(z) \/ TrialFails(z)
             \/ MinutePasses(z) \/ Heartbeat(z) \/ HandleUpdate(z) \/ RebootToRescue(z)
             \/ PullStarts(z) \/ PullFails(z) \/ PullCompletes(z) \/ WriteBreadcrumb(z)
      PROVE  fleet.active
  BY <1>6 DEF Lose, Reset, TrialStart, TrialPasses, TrialFails, MinutePasses, Heartbeat,
     HandleUpdate, RebootToRescue, PullStarts, PullFails, PullCompletes, WriteBreadcrumb, master
<1>7. CASE UNCHANGED vars
  BY <1>7 DEF vars
<1> QED
  BY <1>1, <1>2, <1>3, <1>4, <1>5, <1>6, <1>7 DEF Next

LEMMA LoserInit == Init => OneLoser
BY DEF Init, OneLoser, Idle

LEMMA LoserStep == FwInv /\ OneLoser /\ [Next]_vars => OneLoser'
<1> SUFFICES ASSUME FwInv, OneLoser, [Next]_vars, fleet'.active
             PROVE  \A i \in Installers : inst'[i].pc \in {"idle", "guards"}
  BY DEF OneLoser
<1>1. ASSUME NEW zs \in ZoneLists, Start(zs)
      PROVE  \A i \in Installers : inst'[i].pc \in {"idle", "guards"}
  BY <1>1 DEF Start, MayStart, fwVars, FwInv, OneInstaller, At
<1>2. CASE \A zs \in ZoneLists : ~Start(zs)
  <2>1. fleet.active
    BY <1>2, OnlyStarts
  <2>2. \A i \in Installers : inst[i].pc \in {"idle", "guards"}
    BY <2>1 DEF OneLoser
  <2>3. ASSUME NEW k \in Installers, InstallStart(k)
        PROVE  \A i \in Installers : inst'[i].pc \in {"idle", "guards"}
    BY <2>2, <2>3 DEF InstallStart, Claim, FwInv, FwTypeOK
  <2>4. ASSUME NEW k \in Installers, InstallGoesOn(k)
        PROVE  \A i \in Installers : inst'[i].pc \in {"idle", "guards"}
    <3>1. ~PassGuards(k, ~fleet.active)
      BY <2>1 DEF PassGuards
    <3>2. ~InstallStep(k)
      BY <2>2 DEF InstallStep, At, Rejected, IdentifyMaster, MasterWritten, ClaimWriter,
         EraseHeader, DropVerdict, EraseBody, BeginFails, WriteBody, WriteHeader, WriteFails,
         Verify, Cancel, ReleaseWriter, Release
    <3>3. FailGuards(k)
      BY <2>4, <3>1, <3>2 DEF InstallGoesOn
    <3> QED
      BY <2>2, <3>3 DEF FailGuards, NotInstalling, FwInv, FwTypeOK
  <2>5. CASE MasterReset
    BY <2>5 DEF MasterReset, FwReset, NotInstalling
  <2>6. CASE Abort \/ TickReads \/ TickStarts \/ TickEnds \/ DeadlinePasses \/ Retransmit
             \/ TrackerFails \/ StreamBreaks \/ UNCHANGED vars
    BY <2>2, <2>6 DEF Abort, TickReads, TickStarts, TickEnds, DeadlinePasses, Retransmit,
       TrackerFails, StreamBreaks, StreamEnd, vars, fwVars
  <2>7. ASSUME NEW z \in Zones,
               \/ Receive(z) \/ Lose(z) \/ Reset(z) \/ TrialStart(z) \/ TrialPasses(z)
               \/ TrialFails(z) \/ MinutePasses(z) \/ Heartbeat(z) \/ HandleUpdate(z)
               \/ RebootToRescue(z) \/ PullStarts(z) \/ PullFails(z) \/ PullCompletes(z)
               \/ WriteBreadcrumb(z)
        PROVE  inst' = inst
    BY <2>7 DEF Receive, Lose, Reset, TrialStart, TrialPasses, TrialFails, MinutePasses,
       Heartbeat, HandleUpdate, RebootToRescue, PullStarts, PullFails, PullCompletes,
       WriteBreadcrumb, StreamStart, StreamEnd, fwVars
  <2> QED
    BY <1>2, <2>2, <2>3, <2>4, <2>5, <2>6, <2>7 DEF Next
<1> QED
  BY <1>1, <1>2

(* A run and an install never go on together (node_mgr_fleet.c 31-38,       *)
(* psvc_fw.c 37-44), for any number of installing tasks.                    *)
THEOREM OneLoserHolds == Spec => []OneLoser
<1>1. Init => FwInv
  BY FwInitInv DEF Init
<1>2. FwInv /\ [Next]_vars => FwInv'
  BY StepImplements, FwStepInv
<1> QED
  BY <1>1, <1>2, LoserInit, LoserStep, PTL DEF Spec

-----------------------------------------------------------------------------
(* The boards.                                                              *)

BoardsStand == zn \in [Zones -> Boards] /\ \A z \in Zones : Stands(zn[z])

(* A step on one board. *)
LEMMA OneBoard ==
  ASSUME BoardsStand, NEW z \in Zones, NEW r \in Boards, Stands(r), Becomes(z, r)
  PROVE  BoardsStand'
BY DEF BoardsStand, Becomes

LEMMA BoardsInit == Init => BoardsStand
<1> SUFFICES ASSUME Init PROVE BoardsStand
  OBVIOUS
<1>1. zn = [z \in Zones |-> Board]
  BY DEF Init
<1>2. Board \in Boards
  <2>1. Board.mode \in Modes /\ Board.ota \in OtaStates /\ Board.tries \in 0 .. PULLS
    BY FleetOtaAssumption DEF Board, Modes, OtaStates
  <2>2. Board.slot \in [{1, 2} -> Content]
    BY FleetOtaAssumption DEF Board, Content
  <2> QED
    BY <2>1, <2>2 DEF Board, Boards
<1>3. Stands(Board)
  BY FleetOtaAssumption DEF Board, Stands, Bootable, Running
<1> QED
  BY <1>1, <1>2, <1>3 DEF BoardsStand

(* What a pull leaves: the slot it writes to is not the one that boots.     *)
LEMMA PullStartStands ==
  ASSUME NEW r \in Boards, Stands(r), r.mode = "rescue"
  PROVE  LET b == [r EXCEPT !.mode = "pull", !.slot[TargetSlot(r)] = Blank]
         IN  b \in Boards /\ Stands(b)
<1> DEFINE t == [r.slot EXCEPT ![TargetSlot(r)] = Blank]
           b == [r EXCEPT !.mode = "pull", !.slot = t]
<1>1. r.boot \in {1, 2} /\ r.slot \in [{1, 2} -> Content] /\ TargetSlot(r) = 3 - r.boot
  BY DEF Boards, TargetSlot, Other
<1>2. t \in [{1, 2} -> Content] /\ t[r.boot] = r.slot[r.boot] /\ "pull" \in Modes
  BY <1>1 DEF Content, Modes
<1>3. [r EXCEPT !.mode = "pull", !.slot[TargetSlot(r)] = Blank] = b
  BY DEF Boards
<1> HIDE DEF t
<1>4. b \in Boards
  BY <1>2 DEF Boards
<1>5. b.mode = "pull" /\ b.slot = t /\ b.ota = r.ota /\ b.boot = r.boot /\ b.tries = r.tries
  BY DEF Boards
<1>6. Stands(b)
  BY <1>2, <1>5 DEF Stands, Bootable, Running
<1> QED
  BY <1>3, <1>4, <1>6

LEMMA PulledStands ==
  ASSUME NEW r \in Boards, Stands(r), r.mode = "pull", NEW img \in Images
  PROVE  LET dst == TargetSlot(r)
             b   == [r EXCEPT !.slot[dst] = img, !.ota[dst] = "new", !.boot = dst,
                              !.mode = "pulled"]
         IN  b \in Boards /\ Stands(b)
<1> DEFINE dst == TargetSlot(r)
           t == [r.slot EXCEPT ![dst] = img]
           o == [r.ota EXCEPT ![dst] = "new"]
           b == [r EXCEPT !.slot = t, !.ota = o, !.boot = dst, !.mode = "pulled"]
<1>1. /\ r.boot \in {1, 2} /\ dst \in {1, 2} /\ dst # r.boot /\ Other(dst) = r.boot
      /\ r.slot \in [{1, 2} -> Content] /\ r.ota \in OtaStates
  BY DEF Boards, TargetSlot, Other
<1>2. t \in [{1, 2} -> Content] /\ t[dst] = img /\ t[r.boot] = r.slot[r.boot]
  BY <1>1 DEF Content
<1>3. o \in OtaStates /\ o[dst] = "new" /\ o[r.boot] = r.ota[r.boot] /\ "pulled" \in Modes
  BY <1>1 DEF OtaStates, Modes
<1>4. [r EXCEPT !.slot[dst] = img, !.ota[dst] = "new", !.boot = dst, !.mode = "pulled"] = b
  BY DEF Boards
<1> HIDE DEF t, o, dst
<1>5. b \in Boards
  BY <1>1, <1>2, <1>3 DEF Boards
<1>6. b.mode = "pulled" /\ b.slot = t /\ b.ota = o /\ b.boot = dst
  BY DEF Boards
<1>7. Stands(b)
  BY <1>1, <1>2, <1>3, <1>6 DEF Stands, Bootable, Running
<1> QED
  BY <1>4, <1>5, <1>7 DEF dst

LEMMA BoardsStep == TypeOK /\ BoardsStand /\ [Next]_vars => BoardsStand'
<1> SUFFICES ASSUME TypeOK, BoardsStand, [Next]_vars PROVE BoardsStand'
  OBVIOUS
<1>0. ASSUME NEW z \in Zones PROVE zn[z] \in Boards /\ Stands(zn[z])
  BY DEF BoardsStand
<1>1. ASSUME NEW z \in Zones, Reset(z) PROVE BoardsStand'
  BY <1>0, <1>1, BootedStands, OneBoard DEF Reset
<1>2. ASSUME NEW z \in Zones, TrialStart(z) PROVE BoardsStand'
  <2> DEFINE r == zn[z]
             t == IF r.crumb THEN "fleet" ELSE "bench"
             b == [r EXCEPT !.mode = "app", !.crumb = FALSE, !.trial = t]
             c == [r EXCEPT !.mode = "app"]
  <2>1. r \in Boards /\ Stands(r) /\ r.mode = "boot" /\ (Becomes(z, b) \/ Becomes(z, c))
    BY <1>0, <1>2 DEF TrialStart
  <2>2. t \in {"off", "fleet", "bench"} /\ "app" \in Modes
    BY DEF Modes
  <2> HIDE DEF r, t
  <2>3. b \in Boards /\ c \in Boards
    BY <2>1, <2>2 DEF Boards
  <2>4. Stands(b) /\ Stands(c)
    BY <2>1 DEF Boards, Stands, Bootable, Running
  <2> QED
    BY <2>1, <2>3, <2>4, OneBoard
<1>3. ASSUME NEW z \in Zones, TrialPasses(z) PROVE BoardsStand'
  <2> DEFINE r == zn[z]
             o == [r.ota EXCEPT ![r.boot] = "valid"]
             b == [r EXCEPT !.ota = o, !.trial = "off"]
  <2>1. r \in Boards /\ Stands(r) /\ r.mode = "app"
    BY <1>0, <1>3 DEF TrialPasses
  <2>2. Becomes(z, b)
    BY <1>3, <2>1 DEF TrialPasses, Boards
  <2> HIDE DEF r
  <2>3. o \in OtaStates /\ o[r.boot] = "valid"
    BY <2>1 DEF Boards, OtaStates
  <2> HIDE DEF o
  <2>4. b \in Boards /\ b.ota = o /\ b.boot = r.boot /\ b.slot = r.slot /\ b.mode = r.mode
    BY <2>1, <2>3 DEF Boards
  <2>5. Stands(b)
    BY <2>1, <2>3, <2>4 DEF Stands, Bootable, Running
  <2> QED
    BY <2>2, <2>4, <2>5, OneBoard
<1>4. ASSUME NEW z \in Zones, TrialFails(z) PROVE BoardsStand'
  BY <1>0, <1>4, BootedStands, OneBoard DEF TrialFails
<1>5. ASSUME NEW z \in Zones, MinutePasses(z) PROVE BoardsStand'
  <2> DEFINE r == zn[z]
             b == [r EXCEPT !.low = FALSE]
  <2>1. r \in Boards /\ Stands(r) /\ Becomes(z, b)
    BY <1>0, <1>5 DEF MinutePasses
  <2> HIDE DEF r
  <2>2. b \in Boards /\ Stands(b)
    BY <2>1 DEF Boards, Stands, Bootable, Running
  <2> QED
    BY <2>1, <2>2, OneBoard
<1>6. ASSUME NEW z \in Zones, HandleUpdate(z) PROVE BoardsStand'
  <2> DEFINE r == zn[z]
             n == Head(down[z])
             b == [r EXCEPT !.hando = TRUE, !.mode = "leaving", !.left = n]
  <2>1. r \in Boards /\ Stands(r) /\ r.mode = "app" /\ (Becomes(z, b) \/ zn' = zn)
    BY <1>0, <1>6 DEF HandleUpdate
  <2>2. n \in Nat /\ "leaving" \in Modes
    BY <1>6, HeadTailProperties DEF HandleUpdate, TypeOK, Modes
  <2> HIDE DEF r, n
  <2>3. b \in Boards
    BY <2>1, <2>2 DEF Boards
  <2>4. Stands(b)
    BY <2>1 DEF Boards, Stands, Bootable, Running
  <2>5. CASE zn' = zn
    BY <2>5 DEF BoardsStand
  <2> QED
    BY <2>1, <2>3, <2>4, <2>5, OneBoard
<1>7. ASSUME NEW z \in Zones, RebootToRescue(z) PROVE BoardsStand'
  BY <1>0, <1>7, RescuedStands, OneBoard DEF RebootToRescue
<1>8. ASSUME NEW z \in Zones, PullStarts(z) PROVE BoardsStand'
  BY <1>0, <1>8, PullStartStands, OneBoard DEF PullStarts
<1>9. ASSUME NEW z \in Zones, PullFails(z) PROVE BoardsStand'
  BY <1>0, <1>9, FailedStands, OneBoard DEF PullFails
<1>10. ASSUME NEW z \in Zones, PullCompletes(z) PROVE BoardsStand'
  <2>1. CASE body \in Images /\ body = stream.img
    BY <1>0, <1>10, <2>1, PulledStands, OneBoard DEF PullCompletes
  <2>2. CASE ~(body \in Images /\ body = stream.img)
    BY <1>0, <1>10, <2>2, FailedStands, OneBoard DEF PullCompletes
  <2> QED
    BY <2>1, <2>2
<1>11. ASSUME NEW z \in Zones, WriteBreadcrumb(z) PROVE BoardsStand'
  <2> DEFINE r == zn[z]
             b == [r EXCEPT !.crumb = TRUE]
  <2>1. r \in Boards /\ Stands(r) /\ Becomes(z, Booted(b))
    BY <1>0, <1>11 DEF WriteBreadcrumb
  <2> HIDE DEF r
  <2>2. b \in Boards /\ Stands(b)
    BY <2>1 DEF Boards, Stands, Bootable, Running
  <2> HIDE DEF b
  <2> QED
    BY <2>1, <2>2, BootedStands, OneBoard
<1>12. ASSUME NEW z \in Zones, Receive(z) \/ Lose(z) \/ Heartbeat(z) PROVE zn' = zn
  BY <1>12 DEF Receive, Lose, Heartbeat
<1>13. ASSUME NEW i \in Installers, InstallStart(i) \/ InstallGoesOn(i) PROVE zn' = zn
  BY <1>13 DEF InstallStart, InstallGoesOn
<1>14. ASSUME NEW zs \in ZoneLists, Start(zs) PROVE zn' = zn
  BY <1>14 DEF Start
<1>15. CASE Abort \/ TickReads \/ TickStarts \/ TickEnds \/ DeadlinePasses \/ Retransmit
            \/ TrackerFails \/ StreamBreaks \/ MasterReset \/ UNCHANGED vars
  <2>1. zn' = zn
    BY <1>15 DEF Abort, TickReads, TickStarts, TickEnds, DeadlinePasses, Retransmit,
       TrackerFails, StreamBreaks, MasterReset, vars
  <2> QED
    BY <2>1 DEF BoardsStand
<1>16. zn' = zn => BoardsStand'
  BY DEF BoardsStand
<1> QED
  BY <1>1, <1>2, <1>3, <1>4, <1>5, <1>6, <1>7, <1>8, <1>9, <1>10, <1>11, <1>12, <1>13, <1>14,
     <1>15, <1>16 DEF Next

-----------------------------------------------------------------------------
(* The types of the rest.                                                   *)

Nodes == [Zones -> [fw : Content, low : BOOLEAN, fresh : BOOLEAN]]
Ups   == [Zones -> Message \cup {NoMsg}]
Uses  == [run : Nat, install : Nat, fault : Nat]
Types ==
  /\ RunOK(fleet)
  /\ snap \in Snapshot
  /\ node \in Nodes
  /\ submits \in Nat
  /\ down \in [Zones -> Seq(Nat)]
  /\ up \in Ups
  /\ used \in Uses

LEMMA TypesInit == Init => Types
<1> SUFFICES ASSUME Init PROVE Types
  OBVIOUS
<1>1. RunOK(fleet)
  BY IdleOK DEF Init
<1>2. snap \in Snapshot
  BY DEF Init, NoSnap, Snapshot, Content
<1>3. node \in Nodes
  BY FleetOtaAssumption DEF Init, Nodes, Content
<1>4. down \in [Zones -> Seq(Nat)]
  BY EmptySeq DEF Init
<1> QED
  BY <1>1, <1>2, <1>3, <1>4 DEF Init, Types, Ups, Uses

(* A use of a bound is counted. *)
LEMMA UseOK ==
  ASSUME NEW what \in {"run", "install", "fault"}, NEW max, used \in Uses, Use(what, max)
  PROVE  used' \in Uses
BY DEF Use, Uses

(* A step of the master's own.                                              *)
LEMMA MasterTypes ==
  ASSUME Types, FwTypeOK,
         \/ \E zs \in ZoneLists : Start(zs)
         \/ Abort \/ TickReads \/ TickStarts \/ TickEnds \/ DeadlinePasses
         \/ Retransmit \/ TrackerFails \/ StreamBreaks \/ MasterReset
         \/ \E i \in Installers : InstallStart(i) \/ InstallGoesOn(i)
  PROVE  Types'
<1> USE DEF Types
<1>0. fleet.active => CurZone(fleet) \in Zones
  BY ElementOfSeq DEF RunOK, Run, CurZone
<1>1. ASSUME NEW zs \in ZoneLists, Start(zs) PROVE Types'
  BY <1>1, StartOK, UseOK DEF Start, wires
<1>2. CASE Abort
  BY <1>2, CancelOK DEF Abort, wires
<1>3. CASE TickReads
  <2>1. snap' \in Snapshot
    <3>1. PICK b \in BOOLEAN, o \in BOOLEAN :
            snap' = [on |-> TRUE, ok |-> ImageOk, online |-> o, fw |-> node[CurZone(fleet)].fw,
                     low |-> node[CurZone(fleet)].low,
                     fresh |-> b /\ node[CurZone(fleet)].fresh]
      BY <1>3, Zenon DEF TickReads
    <3>2. node[CurZone(fleet)] \in [fw : Content, low : BOOLEAN, fresh : BOOLEAN]
      BY <1>0, <1>3 DEF TickReads, Nodes
    <3>3. ImageOk \in BOOLEAN /\ (b /\ node[CurZone(fleet)].fresh) \in BOOLEAN
      BY Zenon DEF ImageOk
    <3> QED
      BY <3>1, <3>2, <3>3 DEF Snapshot
  <2> QED
    BY <1>3, <2>1 DEF TickReads, wires
<1>4. CASE TickStarts
  <2>1. fleet.active /\ CurZone(fleet) \in Zones
    BY <1>0, <1>4 DEF TickStarts, Verdict
  <2>2. node[CurZone(fleet)].fw \in Content \cup {0}
    BY <2>1 DEF Nodes
  <2>3. snap' \in Snapshot
    BY <1>4 DEF TickStarts, NoSnap, Snapshot, Content
  <2>4. CASE /\ submits' = submits + 1
             /\ fleet' = NoteSubmitted(fleet, TRUE, submits', node[CurZone(fleet)].fw)
             /\ down' = [down EXCEPT ![CurZone(fleet)] = Append(@, submits')]
    <3>1. submits' \in Nat
      BY <2>4
    <3>2. RunOK(fleet')
      BY <2>1, <2>2, <2>4, <3>1, SubmittedOK
    <3>3. down' \in [Zones -> Seq(Nat)]
      BY <2>1, <2>4, <3>1, AppendProperties
    <3> QED
      BY <1>4, <2>3, <3>1, <3>2, <3>3 DEF TickStarts, RunOK
  <2>5. CASE /\ fleet' = NoteSubmitted(fleet, FALSE, 0, node[CurZone(fleet)].fw)
             /\ UNCHANGED <<submits, down>>
    <3>1. RunOK(fleet')
      BY <2>1, <2>2, <2>5, SubmittedOK
    <3> QED
      BY <1>4, <2>3, <2>5, <3>1 DEF TickStarts, RunOK
  <2> QED
    BY <1>4, <2>4, <2>5 DEF TickStarts
<1>5. CASE TickEnds
  <2>1. snap' \in Snapshot
    BY <1>5 DEF TickEnds, NoSnap, Snapshot, Content
  <2>2. RunOK(fleet')
    BY <1>5, AdvanceOK DEF TickEnds, Verdict
  <2> QED
    BY <1>5, <2>1, <2>2 DEF TickEnds, wires, RunOK
<1>6. CASE DeadlinePasses
  BY <1>6, LateOK DEF DeadlinePasses, wires
<1>7. CASE Retransmit
  <2>1. CurZone(fleet) \in Zones /\ fleet.seq \in Nat
    BY <1>0, <1>7 DEF Retransmit, Pending, AckIsMine, RunOK, Run
  <2>2. down' \in [Zones -> Seq(Nat)]
    BY <1>7, <2>1, AppendProperties DEF Retransmit
  <2> QED
    BY <1>7, <2>2 DEF Retransmit, master
<1>8. CASE TrackerFails
  BY <1>8, AckOK DEF TrackerFails, Pending, AckIsMine, wires
<1>9. CASE StreamBreaks
  BY <1>9 DEF StreamBreaks, master, wires
<1>10. CASE MasterReset
  <2>1. RunOK(fleet') /\ snap' \in Snapshot
    BY <1>10, IdleOK DEF MasterReset, NoSnap, Snapshot, Content
  <2>2. node' \in Nodes /\ up' \in Ups
    BY <1>10 DEF MasterReset, Nodes, Ups, Content
  <2> QED
    BY <1>10, <2>1, <2>2, UseOK DEF MasterReset
<1>11. ASSUME NEW i \in Installers, InstallStart(i) PROVE Types'
  BY <1>11, UseOK DEF InstallStart, master, wires
<1>12. ASSUME NEW i \in Installers, InstallGoesOn(i) PROVE Types'
  BY <1>12 DEF InstallGoesOn, master, wires
<1> QED
  BY <1>1, <1>2, <1>3, <1>4, <1>5, <1>6, <1>7, <1>8, <1>9, <1>10, <1>11, <1>12

(* A message taken from a zone, and a step of a zone's.                     *)
LEMMA ZoneTypes ==
  ASSUME Types, zn \in [Zones -> Boards], NEW z \in Zones,
         \/ Receive(z) \/ Lose(z) \/ Reset(z) \/ TrialStart(z) \/ TrialPasses(z)
         \/ TrialFails(z) \/ MinutePasses(z) \/ Heartbeat(z) \/ HandleUpdate(z)
         \/ RebootToRescue(z) \/ PullStarts(z) \/ PullFails(z) \/ PullCompletes(z)
         \/ WriteBreadcrumb(z)
  PROVE  Types'
<1> USE DEF Types
<1>0. <<>> \in Seq(Nat)
  BY EmptySeq
<1>1. CASE Receive(z)
  <2>1. up' \in Ups
    BY <1>1 DEF Receive, Ups
  <2>2. CASE /\ up[z].kind = "hb"
             /\ node' = [node EXCEPT ![z] = [fw |-> up[z].fw, low |-> up[z].low, fresh |-> TRUE]]
             /\ fleet' = fleet
    <3>1. up[z].fw \in Content /\ up[z].low \in BOOLEAN
      BY <1>1, <2>2 DEF Receive, Ups, Message, NoMsg
    <3>2. node' \in Nodes
      BY <2>2, <3>1 DEF Nodes
    <3> QED
      BY <1>1, <2>1, <2>2, <3>2 DEF Receive, RunOK
  <2>3. CASE /\ up[z].kind = "ack" /\ AckIsMine(fleet, up[z].seq)
             /\ fleet' = OnAck(fleet, up[z].ok)
             /\ node' = [node EXCEPT ![z].fresh = FALSE]
    <3>1. up[z].ok \in BOOLEAN
      BY <1>1, <2>3 DEF Receive, Ups, Message, NoMsg
    <3>2. RunOK(fleet')
      BY <2>3, <3>1, AckOK DEF AckIsMine
    <3>3. node' \in Nodes
      BY <2>3 DEF Nodes
    <3> QED
      BY <1>1, <2>1, <3>2, <3>3 DEF Receive
  <2>4. CASE UNCHANGED <<fleet, node>>
    BY <1>1, <2>1, <2>4 DEF Receive, RunOK
  <2> QED
    BY <1>1, <2>2, <2>3, <2>4 DEF Receive
<1>2. CASE Lose(z)
  <2>1. up' \in Ups
    BY <1>2 DEF Lose, Ups
  <2>2. down' \in [Zones -> Seq(Nat)]
    <3>1. CASE down[z] # <<>> /\ down' = [down EXCEPT ![z] = Tail(@)]
      <4>1. Tail(down[z]) \in Seq(Nat)
        BY <3>1, HeadTailProperties
      <4> QED
        BY <3>1, <4>1
    <3> QED
      BY <1>2, <3>1 DEF Lose
  <2> QED
    BY <1>2, <2>1, <2>2 DEF Lose, master
<1>3. CASE Reset(z)
  <2>1. down' \in [Zones -> Seq(Nat)]
    BY <1>0, <1>3 DEF Reset
  <2> QED
    BY <1>3, <2>1, UseOK DEF Reset, master
<1>4. CASE TrialStart(z) \/ TrialPasses(z) \/ MinutePasses(z) \/ PullStarts(z) \/ PullFails(z)
           \/ PullCompletes(z) \/ WriteBreadcrumb(z)
  BY <1>4 DEF TrialStart, TrialPasses, MinutePasses, PullStarts, PullFails, PullCompletes,
     WriteBreadcrumb, master, wires
<1>5. CASE TrialFails(z) \/ RebootToRescue(z)
  <2>1. down' \in [Zones -> Seq(Nat)]
    BY <1>0, <1>5 DEF TrialFails, RebootToRescue
  <2> QED
    BY <1>5, <2>1 DEF TrialFails, RebootToRescue, master
<1>6. CASE Heartbeat(z)
  <2>1. Running(zn[z]) \in Content /\ zn[z].low \in BOOLEAN
    BY DEF Running, Boards
  <2>2. up' \in Ups
    BY <1>6, <2>1 DEF Heartbeat, Ups, Message
  <2> QED
    BY <1>6, <2>2 DEF Heartbeat, master
<1>7. CASE HandleUpdate(z)
  <2>1. Head(down[z]) \in Nat /\ Tail(down[z]) \in Seq(Nat)
    BY <1>7, HeadTailProperties DEF HandleUpdate
  <2>2. down' \in [Zones -> Seq(Nat)]
    BY <1>7, <2>1 DEF HandleUpdate
  <2>3. up' \in Ups
    <3>1. \A b \in BOOLEAN : [kind |-> "ack", seq |-> Head(down[z]), ok |-> b] \in Message
      BY <2>1 DEF Message
    <3>2. PICK b \in BOOLEAN :
            up' = [up EXCEPT ![z] = [kind |-> "ack", seq |-> Head(down[z]), ok |-> b]]
      BY <1>7 DEF HandleUpdate
    <3> QED
      BY <3>1, <3>2 DEF Ups
  <2>4. used' \in Uses
    BY <1>7, UseOK DEF HandleUpdate
  <2> QED
    BY <1>7, <2>2, <2>3, <2>4 DEF HandleUpdate, master
<1> QED
  BY <1>1, <1>2, <1>3, <1>4, <1>5, <1>6, <1>7

LEMMA TypesStep == Types /\ FwTypeOK /\ BoardsStand /\ [Next]_vars => Types'
<1> SUFFICES ASSUME Types, FwTypeOK, BoardsStand, [Next]_vars PROVE Types'
  OBVIOUS
<1>1. CASE UNCHANGED vars
  BY <1>1 DEF vars, Types, RunOK
<1>2. CASE Next
  <2>1. zn \in [Zones -> Boards]
    BY DEF BoardsStand
  <2> QED
    BY <1>2, <2>1, MasterTypes, ZoneTypes DEF Next
<1> QED
  BY <1>1, <1>2

-----------------------------------------------------------------------------

FleetInv == FwInv /\ Types /\ BoardsStand

LEMMA FleetInvTypes == FleetInv => TypeOK
BY DEF FleetInv, FwInv, Types, RunOK, Nodes, Ups, Uses, BoardsStand, Stands, TypeOK

LEMMA FleetInvHolds == Spec => []FleetInv
<1>1. Init => FleetInv
  BY FwInitInv, TypesInit, BoardsInit DEF Init, FleetInv
<1>2. FleetInv /\ [Next]_vars => FleetInv'
  BY FleetInvTypes, StepImplements, FwStepInv, TypesStep, BoardsStep DEF FleetInv, FwInv
<1> QED
  BY <1>1, <1>2, PTL DEF Spec

(* Types, and two bounds: a run points at one of its zones, and a zone that *)
(* pulls has an attempt to spend.                                           *)
THEOREM FleetTypeCorrect == Spec => []TypeOK
BY FleetInvHolds, FleetInvTypes, PTL

(* Whenever the power fails a zone boots a whole image, and a new one has a *)
(* proven one to fall back to (bootloader_start.c 74-127, rescue_pull.c     *)
(* 11-63), for any number of resets, pulls and runs.                        *)
THEOREM AlwaysBootableHolds == Spec => []AlwaysBootable
<1>1. FleetInv => AlwaysBootable
  BY DEF FleetInv, BoardsStand, Stands, Bootable, AlwaysBootable
<1> QED
  BY <1>1, FleetInvHolds, PTL

-----------------------------------------------------------------------------
(* One zone at a time.                                                      *)
(*                                                                          *)
(* A zone the run has done with runs an app and has no request in its       *)
(* queue, which is why it stays there.  What makes it so: the heartbeat     *)
(* that ends its turn came after the ACK; the ACK was sent as the zone left *)
(* its app, so the heartbeat was sent after its return; and the queue was   *)
(* lost with the zone's RAM on the way.                                     *)

InApp(z)     == zn[z].mode \in {"boot", "app"}
Served(z)    == InApp(z) /\ down[z] = <<>>
Emptied(z)   == zn[z].mode # "leaving" => down[z] = <<>>
AckOf(z, s)  == up[z].kind = "ack" /\ up[z].seq = s
InTurn(st)   == fleet.active /\ fleet.st = st

Listed == fleet.active => fleet.zones \in ZoneLists

(* No request is numbered ahead of the count, so the next number is fresh.  *)
Numbered ==
  \A z \in Zones : /\ \A i \in DOMAIN down[z] : down[z][i] <= submits
                   /\ up[z].kind = "ack" => up[z].seq <= submits

(* The request a run waits for is on its way to one zone only, or from it.  *)
Addressed ==
  InTurn("WAIT_ACK") =>
    /\ fleet.seq <= submits
    /\ \A z \in Zones \ {CurZone(fleet)} :
         ~AckOf(z, fleet.seq) /\ \A i \in DOMAIN down[z] : down[z][i] # fleet.seq

(* A heartbeat on its way means its zone has not left for rescue since.     *)
BeatsTrue == \A z \in Zones : up[z].kind = "hb" => InApp(z)

(* A zone that accepted is leaving, or has lost its queue since, and is not *)
(* back before the ACK is over.                                             *)
Accepted ==
  InTurn("WAIT_ACK") =>
    \A z \in Zones : AckOf(z, fleet.seq) /\ up[z].ok => zn[z].mode # "app" /\ Emptied(z)

(* A zone waited for that was heard from since the ACK is back.             *)
Underway ==
  InTurn("WAIT_HB") =>
    LET z == CurZone(fleet) IN Emptied(z) /\ (node[z].fresh => InApp(z))

(* What the tick read before the lock is still so.                          *)
SnapTrue ==
  snap.on /\ fleet.active =>
    /\ fleet.st # "WAIT_ACK"
    /\ fleet.st = "WAIT_HB" /\ snap.fresh => node[CurZone(fleet)].fresh

BackInService ==
  fleet.active => \A k \in 1 .. fleet.idx - 1 : Served(fleet.zones[k])

Turns ==
  /\ Listed /\ Numbered /\ Addressed /\ BeatsTrue
  /\ Accepted /\ Underway /\ SnapTrue /\ BackInService

LEMMA TurnsInit == Init => Turns
<1> SUFFICES ASSUME Init PROVE Turns
  OBVIOUS
<1>1. ~fleet.active
  BY DEF Init, Idle
<1>2. \A z \in Zones : down[z] = <<>> /\ up[z] = NoMsg /\ zn[z].mode = "app"
  BY DEF Init, Board
<1>3. Numbered /\ BeatsTrue
  BY <1>2 DEF Numbered, BeatsTrue, NoMsg, InApp
<1> QED
  BY <1>1, <1>3 DEF Turns, Listed, Addressed, Accepted, Underway, SnapTrue, BackInService, InTurn

(* A zone list has no zone twice.                                           *)
LEMMA NoZoneTwice ==
  ASSUME NEW zs \in ZoneLists, NEW i \in 1 .. Len(zs), NEW j \in 1 .. Len(zs), zs[i] = zs[j]
  PROVE  i = j
<1>1. CASE \E z \in Zones : zs = <<z>>
  BY <1>1
<1>2. CASE zs = [k \in Zones |-> k]
  <2>1. zs \in [1 .. ZONES -> Zones] /\ ZONES \in Nat
    BY <1>2, ZoneFwAssumption DEF Zones
  <2>2. zs \in Seq(Zones)
    BY <2>1
  <2>3. Len(zs) = ZONES
    BY <2>1, <2>2, LenProperties
  <2>4. i \in Zones /\ j \in Zones
    BY <2>3 DEF Zones
  <2> QED
    BY <1>2, <2>4
<1> QED
  BY <1>1, <1>2 DEF ZoneLists

(* What a step may do to the run.                                           *)
SameRun ==
  /\ fleet'.active = fleet.active /\ fleet'.zones = fleet.zones /\ fleet'.idx = fleet.idx
  /\ fleet'.st = fleet.st /\ fleet'.seq = fleet.seq
Ended   == ~fleet'.active
Began   == fleet'.zones \in ZoneLists /\ fleet'.idx = 1 /\ fleet'.st = "PRECHECK"
SameZone == fleet.active /\ fleet'.zones = fleet.zones /\ fleet'.idx = fleet.idx
Told ==
  /\ TickStarts
  /\ SameZone /\ fleet.st = "PRECHECK" /\ fleet'.st = "WAIT_ACK"
  /\ fleet'.seq = submits' /\ submits' = submits + 1
  /\ down' = [down EXCEPT ![CurZone(fleet)] = Append(@, submits')]
NextZone ==
  /\ TickEnds
  /\ InTurn("WAIT_HB") /\ snap.on /\ snap.fresh
  /\ fleet'.zones = fleet.zones /\ fleet'.idx = fleet.idx + 1 /\ fleet'.st = "PRECHECK"
Agreed(z) ==
  /\ Receive(z)
  /\ AckOf(z, fleet.seq) /\ up[z].ok /\ up'[z] = NoMsg
  /\ node'[z].fresh = FALSE
  /\ SameZone /\ fleet.st = "WAIT_ACK" /\ fleet'.st = "WAIT_HB"

LEMMA RunMoves ==
  ASSUME Types, [Next]_vars
  PROVE  /\ submits \in Nat /\ submits' \in Nat /\ submits' >= submits
         /\ Ended \/ Began \/ SameRun \/ Told \/ NextZone \/ \E z \in Zones : Agreed(z)
<1>0. fleet \in Run /\ submits \in Nat
  BY DEF Types, RunOK
<1> DEFINE Goal == /\ submits' \in Nat /\ submits' >= submits
                   /\ \/ Ended \/ Began \/ SameRun \/ Told \/ NextZone
                      \/ \E z \in Zones : Agreed(z)
<1> SUFFICES Goal
  BY <1>0
<1>1. ASSUME submits' = submits, fleet' = fleet
      PROVE  Goal
  BY <1>0, <1>1 DEF SameRun
<1>2. ASSUME NEW zs \in ZoneLists, Start(zs)
      PROVE  Goal
  <2>1. fleet' = [Idle EXCEPT !.active = TRUE, !.zones = zs] /\ submits' = submits
    BY <1>2 DEF Start, FleetStart
  <2>2. Began
    BY <2>1 DEF Began, Idle
  <2> QED
    BY <1>0, <2>1, <2>2
<1>3. CASE Abort
  <2>1. submits' = submits /\ (fleet' = Idle \/ fleet' = [fleet EXCEPT !.cancel = TRUE])
    BY <1>3 DEF Abort, FleetCancel
  <2>2. Ended \/ SameRun
    BY <1>0, <2>1, IdleOK DEF Ended, SameRun, Run
  <2> QED
    BY <1>0, <2>1, <2>2
<1>4. CASE TickReads \/ Retransmit \/ StreamBreaks \/ UNCHANGED vars
  BY <1>1, <1>4 DEF TickReads, Retransmit, StreamBreaks, master, vars
<1>5. CASE TickStarts
  <2>1. fleet.active /\ fleet.st = "PRECHECK"
    BY <1>5 DEF TickStarts, Verdict
  <2>2. CASE /\ submits' = submits + 1
             /\ fleet' = NoteSubmitted(fleet, TRUE, submits', node[CurZone(fleet)].fw)
             /\ down' = [down EXCEPT ![CurZone(fleet)] = Append(@, submits')]
    <3>1. fleet' = [fleet EXCEPT !.st = "WAIT_ACK", !.seq = submits', !.late = FALSE,
                                 !.pre = node[CurZone(fleet)].fw]
      BY <2>2 DEF NoteSubmitted
    <3>2. SameZone /\ fleet'.st = "WAIT_ACK" /\ fleet'.seq = submits'
      BY <1>0, <2>1, <3>1 DEF SameZone, Run
    <3>3. Told
      BY <1>5, <2>1, <2>2, <3>2 DEF Told
    <3> QED
      BY <1>0, <2>2, <3>3
  <2>3. CASE fleet' = NoteSubmitted(fleet, FALSE, 0, node[CurZone(fleet)].fw) /\ submits' = submits
    <3>1. fleet' = Idle
      BY <2>3 DEF NoteSubmitted, Advance
    <3>2. Ended /\ submits' = submits
      BY <2>3, <3>1, IdleOK DEF Ended
    <3> QED
      BY <1>0, <3>2
  <2> QED
    BY <1>5, <2>2, <2>3 DEF TickStarts
<1>6. CASE TickEnds
  <2>1. submits' = submits
    BY <1>6 DEF TickEnds
  <2>2. CASE fleet' = Idle \/ fleet' = fleet
    BY <1>0, <2>1, <2>2, IdleOK DEF Ended, SameRun
  <2>3. CASE ~(fleet' = Idle \/ fleet' = fleet)
    <3>1. Verdict(fleet, snap) = "done" /\ fleet' = Advance(fleet, FALSE)
      BY <1>6, <2>3 DEF TickEnds, Advance
    <3>2. InTurn("WAIT_HB") /\ snap.on /\ snap.fresh
      BY <1>6, <3>1 DEF TickEnds, Verdict, Updated, InTurn
    <3>3. fleet' = [fleet EXCEPT !.idx = @ + 1, !.st = "PRECHECK"]
      BY <2>3, <3>1 DEF Advance
    <3>4. fleet'.zones = fleet.zones /\ fleet'.idx = fleet.idx + 1 /\ fleet'.st = "PRECHECK"
      BY <1>0, <3>3 DEF Run
    <3> QED
      BY <1>0, <1>6, <2>1, <3>2, <3>4 DEF NextZone
  <2> QED
    BY <2>2, <2>3
<1>7. CASE DeadlinePasses
  <2>1. fleet' = [fleet EXCEPT !.late = TRUE] /\ submits' = submits
    BY <1>7 DEF DeadlinePasses
  <2> QED
    BY <1>0, <2>1 DEF SameRun, Run
<1>8. CASE TrackerFails
  <2>1. fleet' = Idle /\ submits' = submits
    BY <1>8 DEF TrackerFails, OnAck, Advance
  <2> QED
    BY <1>0, <2>1, IdleOK DEF Ended
<1>9. CASE MasterReset
  BY <1>0, <1>9, IdleOK DEF MasterReset, Ended
<1>10. ASSUME NEW i \in Installers, InstallStart(i) \/ InstallGoesOn(i)
       PROVE  Goal
  BY <1>1, <1>10 DEF InstallStart, InstallGoesOn, master
<1>11. ASSUME NEW z \in Zones, Receive(z)
       PROVE  Goal
  <2>1. submits' = submits /\ up' = [up EXCEPT ![z] = NoMsg]
    BY <1>11 DEF Receive
  <2>2. CASE fleet' = fleet
    BY <1>1, <2>1, <2>2
  <2>3. CASE /\ up[z].kind = "ack" /\ AckIsMine(fleet, up[z].seq)
             /\ fleet' = OnAck(fleet, up[z].ok)
             /\ node' = [node EXCEPT ![z].fresh = FALSE]
    <3>1. CASE ~up[z].ok
      <4>1. fleet' = Idle
        BY <2>3, <3>1 DEF OnAck, Advance
      <4> QED
        BY <1>0, <2>1, <4>1, IdleOK DEF Ended
    <3>2. CASE up[z].ok
      <4>1. fleet' = [fleet EXCEPT !.st = "WAIT_HB"]
        BY <2>3, <3>2 DEF OnAck
      <4>2. SameZone /\ fleet'.st = "WAIT_HB" /\ fleet.st = "WAIT_ACK" /\ AckOf(z, fleet.seq)
        BY <1>0, <2>3, <4>1 DEF AckIsMine, SameZone, Run, AckOf
      <4>3. node'[z].fresh = FALSE /\ up'[z] = NoMsg
        BY <2>1, <2>3 DEF Types, Nodes, Ups
      <4>4. Agreed(z)
        BY <1>11, <3>2, <4>2, <4>3 DEF Agreed
      <4> QED
        BY <1>0, <2>1, <4>4
    <3> QED
      BY <3>1, <3>2
  <2> QED
    BY <1>11, <2>2, <2>3 DEF Receive
<1>12. ASSUME NEW z \in Zones,
              \/ Lose(z) \/ Reset(z) \/ TrialStart(z) \/ TrialPasses(z) \/ TrialFails(z)
              \/ MinutePasses(z) \/ Heartbeat(z) \/ HandleUpdate(z) \/ RebootToRescue(z)
       PROVE  Goal
  BY <1>1, <1>12 DEF Lose, Reset, TrialStart, TrialPasses, TrialFails, MinutePasses, Heartbeat,
     HandleUpdate, RebootToRescue, master
<1>13. ASSUME NEW z \in Zones, PullStarts(z) \/ PullFails(z) \/ PullCompletes(z) \/ WriteBreadcrumb(z)
       PROVE  Goal
  BY <1>1, <1>13 DEF PullStarts, PullFails, PullCompletes, WriteBreadcrumb, master
<1> HIDE DEF Goal
<1> QED
  BY <1>2, <1>3, <1>4, <1>5, <1>6, <1>7, <1>8, <1>9, <1>10, <1>11, <1>12, <1>13 DEF Next

(* Where a board is after the bootloader.                                   *)
LEMMA BootedMode ==
  ASSUME NEW r \in Boards
  PROVE  Booted(r).mode = "boot" /\ Rescued(r).mode \in {"rescue", "manual"}
<1>1. "mode" \in DOMAIN Selected(r)
  BY DEF Selected, Boards, Other
<1> QED
  BY <1>1 DEF Booted, Rescued

(* What a step may do to a zone and its wires.                              *)
Kept(z) == zn'[z].mode = zn[z].mode
Dropped(z) ==
  /\ Kept(z)
  /\ up'[z] \in {up[z], NoMsg}
  /\ down'[z] = down[z] \/ (down[z] # <<>> /\ down'[z] = Tail(down[z]))
Worked(z) ==
  /\ zn[z].mode \notin {"app", "leaving"} /\ zn'[z].mode # "leaving"
  /\ zn[z].mode = "boot" => zn'[z].mode = "app"
  /\ zn'[z].mode = "app" => up[z] = NoMsg
  /\ up'[z] = up[z] /\ down'[z] = down[z]
Rebooted(z) ==
  /\ zn'[z].mode \notin {"app", "leaving"}
  /\ InApp(z) => zn'[z].mode = "boot"
  /\ up'[z] = up[z] /\ down'[z] = <<>>
Beat(z) ==
  /\ zn[z].mode = "app" /\ Kept(z)
  /\ up'[z].kind = "hb" /\ down'[z] = down[z]
Took(z) ==
  /\ zn[z].mode = "app" /\ down[z] # <<>> /\ up[z] = NoMsg /\ down'[z] = Tail(down[z])
  /\ up'[z].kind = "ack" /\ up'[z].seq = Head(down[z])
  /\ IF up'[z].ok THEN zn'[z].mode = "leaving" ELSE zn'[z].mode = "app"
Queued(z, s) ==
  /\ Kept(z) /\ up'[z] = up[z] /\ down'[z] = Append(down[z], s)

LEMMA ZoneMoves ==
  ASSUME Types, zn \in [Zones -> Boards], [Next]_vars, NEW z \in Zones
  PROVE  \/ Dropped(z) \/ Worked(z) \/ Rebooted(z) \/ Beat(z) \/ Took(z)
         \/ Told /\ z = CurZone(fleet) /\ Queued(z, submits')
         \/ Retransmit /\ z = CurZone(fleet) /\ Queued(z, fleet.seq)
<1> DEFINE Goal == \/ Dropped(z) \/ Worked(z) \/ Rebooted(z) \/ Beat(z) \/ Took(z)
                   \/ Told /\ z = CurZone(fleet) /\ Queued(z, submits')
                   \/ Retransmit /\ z = CurZone(fleet) /\ Queued(z, fleet.seq)
<1> SUFFICES Goal
  OBVIOUS
<1>0. /\ zn[z] \in Boards /\ down \in [Zones -> Seq(Nat)] /\ up \in Ups
      /\ DOMAIN zn = Zones /\ DOMAIN up = Zones /\ DOMAIN down = Zones
  BY DEF Types, Ups
<1>1. ASSUME UNCHANGED zn, UNCHANGED up, UNCHANGED down
      PROVE  Goal
  BY <1>1 DEF Dropped, Kept
<1>2. ASSUME NEW zs \in ZoneLists, Start(zs)
      PROVE  Goal
  BY <1>1, <1>2 DEF Start, wires
<1>3. CASE Abort \/ TickReads \/ TickEnds \/ DeadlinePasses \/ TrackerFails \/ StreamBreaks
           \/ UNCHANGED vars
  BY <1>1, <1>3 DEF Abort, TickReads, TickEnds, DeadlinePasses, TrackerFails, StreamBreaks,
     vars, wires
<1>4. ASSUME NEW i \in Installers, InstallStart(i) \/ InstallGoesOn(i)
      PROVE  Goal
  BY <1>1, <1>4 DEF InstallStart, InstallGoesOn, wires
<1>5. CASE MasterReset
  <2>1. zn' = zn /\ down' = down /\ up'[z] = NoMsg
    BY <1>5 DEF MasterReset
  <2> QED
    BY <2>1 DEF Dropped, Kept
<1>6. CASE TickStarts
  <2>1. zn' = zn /\ up' = up
    BY <1>6 DEF TickStarts
  <2>2. CASE down' = down
    BY <1>1, <2>1, <2>2
  <2>3. CASE down' # down
    <3>1. submits' = submits + 1 /\ down' = [down EXCEPT ![CurZone(fleet)] = Append(@, submits')]
      BY <1>6, <2>3 DEF TickStarts
    <3>2. CASE z = CurZone(fleet)
      <4>1. ~Began /\ ~SameRun /\ ~Ended
        <5>1. fleet.active /\ fleet.st = "PRECHECK"
          BY <1>6 DEF TickStarts, Verdict
        <5>2. fleet' = NoteSubmitted(fleet, TRUE, submits', node[CurZone(fleet)].fw)
          BY <1>6, <2>3 DEF TickStarts
        <5>3. fleet'.active /\ fleet'.st = "WAIT_ACK"
          BY <5>1, <5>2 DEF NoteSubmitted, Types, RunOK, Run
        <5> QED
          BY <5>1, <5>3 DEF Began, SameRun, Ended
      <4>2. ~NextZone /\ \A y \in Zones : ~Agreed(y)
        <5>1. submits' # submits
          BY <3>1 DEF Types
        <5> QED
          BY <5>1 DEF NextZone, Agreed, TickEnds, Receive
      <4>3. Told
        BY <4>1, <4>2, RunMoves
      <4>4. Queued(z, submits')
        BY <1>0, <2>1, <3>1, <3>2 DEF Queued, Kept
      <4> QED
        BY <3>2, <4>3, <4>4
    <3>3. CASE z # CurZone(fleet)
      <4>1. down'[z] = down[z]
        BY <1>0, <3>1, <3>3
      <4> QED
        BY <2>1, <4>1 DEF Dropped, Kept
    <3> QED
      BY <3>2, <3>3
  <2> QED
    BY <2>2, <2>3
<1>7. CASE Retransmit
  <2>1. zn' = zn /\ up' = up /\ down' = [down EXCEPT ![CurZone(fleet)] = Append(@, fleet.seq)]
    BY <1>7 DEF Retransmit
  <2>2. CASE z = CurZone(fleet)
    BY <1>0, <1>7, <2>1, <2>2 DEF Queued, Kept
  <2>3. CASE z # CurZone(fleet)
    <3>1. down'[z] = down[z]
      BY <1>0, <2>1, <2>3
    <3> QED
      BY <2>1, <3>1 DEF Dropped, Kept
  <2> QED
    BY <2>2, <2>3
<1>8. ASSUME NEW y \in Zones,
             \/ Receive(y) \/ Lose(y) \/ Reset(y) \/ TrialStart(y) \/ TrialPasses(y) \/ TrialFails(y)
             \/ MinutePasses(y) \/ Heartbeat(y) \/ HandleUpdate(y) \/ RebootToRescue(y)
             \/ PullStarts(y) \/ PullFails(y) \/ PullCompletes(y) \/ WriteBreadcrumb(y)
      PROVE  Goal
  <2>1. CASE y # z
    <3>1. zn'[z] = zn[z]
      BY <1>0, <1>8, <2>1 DEF Becomes, Receive, Lose, Reset, TrialStart, TrialPasses, TrialFails,
         MinutePasses, Heartbeat, HandleUpdate, RebootToRescue, PullStarts, PullFails,
         PullCompletes, WriteBreadcrumb
    <3>2. up'[z] = up[z]
      BY <1>0, <1>8, <2>1 DEF Receive, Lose, Reset, TrialStart, TrialPasses, TrialFails,
         MinutePasses, Heartbeat, HandleUpdate, RebootToRescue, PullStarts, PullFails,
         PullCompletes, WriteBreadcrumb, wires
    <3>3. down'[z] = down[z]
      BY <1>0, <1>8, <2>1 DEF Receive, Lose, Reset, TrialStart, TrialPasses, TrialFails,
         MinutePasses, Heartbeat, HandleUpdate, RebootToRescue, PullStarts, PullFails,
         PullCompletes, WriteBreadcrumb, wires
    <3> QED
      BY <3>1, <3>2, <3>3 DEF Dropped, Kept
  <2>2. CASE y = z
    <3>1. CASE Receive(z)
      BY <1>0, <3>1 DEF Receive, Dropped, Kept
    <3>2. CASE Lose(z)
      BY <1>0, <3>2 DEF Lose, master, Dropped, Kept
    <3>3. CASE Reset(z) \/ TrialFails(z)
      <4>1. zn'[z] = Booted(zn[z]) /\ up' = up /\ down'[z] = <<>>
        BY <1>0, <3>3 DEF Reset, TrialFails, Becomes
      <4>2. Booted(zn[z]).mode = "boot"
        BY <1>0, BootedMode
      <4> QED
        BY <4>1, <4>2 DEF Rebooted
    <3>4. CASE RebootToRescue(z)
      <4>1. zn'[z] = Rescued(zn[z]) /\ up' = up /\ down'[z] = <<>> /\ zn[z].mode = "leaving"
        BY <1>0, <3>4 DEF RebootToRescue, Becomes
      <4>2. Rescued(zn[z]).mode \in {"rescue", "manual"}
        BY <1>0, BootedMode
      <4> QED
        BY <4>1, <4>2 DEF Rebooted, InApp
    <3>5. CASE TrialStart(z)
      <4>1. zn[z].mode = "boot" /\ zn'[z].mode = "app" /\ up[z] = NoMsg /\ up' = up /\ down' = down
        BY <1>0, <3>5 DEF TrialStart, Becomes, Boards, wires
      <4> QED
        BY <4>1 DEF Worked
    <3>6. CASE TrialPasses(z) \/ MinutePasses(z)
      <4>1. zn'[z].mode = zn[z].mode /\ up' = up /\ down' = down
        BY <1>0, <3>6 DEF TrialPasses, MinutePasses, Becomes, Boards, wires
      <4> QED
        BY <4>1 DEF Dropped, Kept
    <3>7. CASE Heartbeat(z)
      BY <1>0, <3>7 DEF Heartbeat, Beat, Kept
    <3>8. CASE HandleUpdate(z)
      <4>1. PICK b \in BOOLEAN :
              /\ up' = [up EXCEPT ![z] = [kind |-> "ack", seq |-> Head(down[z]), ok |-> b]]
              /\ IF b THEN Becomes(z, [zn[z] EXCEPT !.hando = TRUE, !.mode = "leaving",
                                                    !.left = Head(down[z])])
                      ELSE zn' = zn
        BY <3>8 DEF HandleUpdate
      <4>2. zn'[z].mode = IF b THEN "leaving" ELSE zn[z].mode
        BY <1>0, <4>1 DEF Becomes, Boards
      <4>3. up'[z] = [kind |-> "ack", seq |-> Head(down[z]), ok |-> b] /\ down'[z] = Tail(down[z])
        BY <1>0, <3>8, <4>1 DEF HandleUpdate
      <4>4. Took(z)
        BY <3>8, <4>2, <4>3 DEF HandleUpdate, Took
      <4> QED
        BY <4>4
    <3>9. CASE PullStarts(z) \/ PullFails(z) \/ PullCompletes(z)
      <4>1. zn[z].mode \in {"rescue", "pull"} /\ up' = up /\ down' = down
        BY <3>9 DEF PullStarts, PullFails, PullCompletes, wires
      <4>2. zn'[z].mode \in {"rescue", "pull", "pulled", "manual"}
        <5>1. Failed(zn[z]).mode \in {"rescue", "manual"}
          BY <1>0 DEF Failed, Boards
        <5>2. CASE PullStarts(z)
          BY <1>0, <5>2 DEF PullStarts, Becomes, Boards
        <5>3. CASE PullFails(z)
          BY <1>0, <5>1, <5>3 DEF PullFails, Becomes
        <5>4. CASE PullCompletes(z)
          <6>1. zn'[z] = Failed(zn[z]) \/ zn'[z].mode = "pulled"
            BY <1>0, <5>4 DEF PullCompletes, Becomes, Boards
          <6> QED
            BY <5>1, <6>1
        <5> QED
          BY <3>9, <5>2, <5>3, <5>4
      <4> QED
        BY <4>1, <4>2 DEF Worked
    <3>10. CASE WriteBreadcrumb(z)
      <4>1. zn[z].mode = "pulled" /\ up' = up /\ down' = down
        BY <3>10 DEF WriteBreadcrumb, wires
      <4>2. zn'[z] = Booted([zn[z] EXCEPT !.crumb = TRUE]) /\ [zn[z] EXCEPT !.crumb = TRUE] \in Boards
        BY <1>0, <3>10 DEF WriteBreadcrumb, Becomes, Boards
      <4>3. zn'[z].mode = "boot"
        BY <4>2, BootedMode
      <4> QED
        BY <4>1, <4>3 DEF Worked
    <3> QED
      BY <1>8, <2>2, <3>1, <3>2, <3>3, <3>4, <3>5, <3>6, <3>7, <3>8, <3>9, <3>10
  <2> QED
    BY <2>1, <2>2
<1> HIDE DEF Goal
<1> QED
  BY <1>2, <1>3, <1>4, <1>5, <1>6, <1>7, <1>8 DEF Next

(* The tick's snapshot and the heartbeat's time.                            *)
LEMMA SnapMoves ==
  ASSUME Types, [Next]_vars, SnapTrue
  PROVE  SnapTrue'
<1> SUFFICES ASSUME snap'.on, fleet'.active
             PROVE  /\ fleet'.st # "WAIT_ACK"
                    /\ fleet'.st = "WAIT_HB" /\ snap'.fresh => node'[CurZone(fleet')].fresh
  BY DEF SnapTrue
<1>1. CASE TickReads
  <2>1. fleet' = fleet /\ node' = node /\ fleet.st # "WAIT_ACK"
    BY <1>1 DEF TickReads
  <2>2. snap'.fresh => node[CurZone(fleet)].fresh
    <3>1. PICK b \in BOOLEAN, o \in BOOLEAN :
            snap' = [on |-> TRUE, ok |-> ImageOk, online |-> o, fw |-> node[CurZone(fleet)].fw,
                     low |-> node[CurZone(fleet)].low,
                     fresh |-> b /\ node[CurZone(fleet)].fresh]
      BY <1>1, Zenon DEF TickReads
    <3> QED
      BY <3>1
  <2> QED
    BY <2>1, <2>2
<1>2. CASE ~TickReads
  <2>1. snap' = snap /\ node' = node /\ ~Told /\ ~NextZone /\ \A z \in Zones : ~Agreed(z)
    <3>1. ~TickStarts /\ ~TickEnds /\ ~MasterReset /\ \A z \in Zones : ~Receive(z)
      <4>1. snap' # NoSnap
        BY DEF NoSnap
      <4>2. ~TickStarts /\ ~TickEnds /\ ~MasterReset
        BY <4>1 DEF TickStarts, TickEnds, MasterReset
      <4>3. \A z \in Zones : ~Receive(z)
        BY DEF Receive
      <4> QED
        BY <4>2, <4>3
    <3>2. snap' = snap /\ node' = node
      <4>1. ASSUME NEW zs \in ZoneLists, Start(zs) PROVE UNCHANGED <<snap, node>>
        BY <4>1 DEF Start
      <4>2. CASE Abort \/ DeadlinePasses \/ Retransmit \/ TrackerFails \/ StreamBreaks
                 \/ UNCHANGED vars
        BY <4>2 DEF Abort, DeadlinePasses, Retransmit, TrackerFails, StreamBreaks, master, vars
      <4>3. ASSUME NEW i \in Installers, InstallStart(i) \/ InstallGoesOn(i)
            PROVE  UNCHANGED <<snap, node>>
        BY <4>3 DEF InstallStart, InstallGoesOn, master
      <4>4. ASSUME NEW z \in Zones,
                   \/ Lose(z) \/ Reset(z) \/ TrialStart(z) \/ TrialPasses(z) \/ TrialFails(z)
                   \/ MinutePasses(z) \/ Heartbeat(z) \/ HandleUpdate(z) \/ RebootToRescue(z)
                   \/ PullStarts(z) \/ PullFails(z) \/ PullCompletes(z) \/ WriteBreadcrumb(z)
            PROVE  UNCHANGED <<snap, node>>
        BY <4>4 DEF Lose, Reset, TrialStart, TrialPasses, TrialFails, MinutePasses, Heartbeat,
           HandleUpdate, RebootToRescue, PullStarts, PullFails, PullCompletes, WriteBreadcrumb,
           master
      <4> QED
        BY <1>2, <3>1, <4>1, <4>2, <4>3, <4>4 DEF Next
    <3> QED
      BY <3>1, <3>2 DEF Told, NextZone, Agreed
  <2>2. CASE SameRun
    BY <2>1, <2>2 DEF SameRun, SnapTrue, CurZone
  <2>3. CASE Began
    BY <2>3 DEF Began
  <2> QED
    BY <2>1, <2>2, <2>3, RunMoves DEF Ended
<1> QED
  BY <1>1, <1>2

(* A heartbeat is fresh because one was, or one arrived.                    *)
LEMMA FreshMoves ==
  ASSUME Types, [Next]_vars, NEW z \in Zones, fleet'.active, node'[z].fresh
  PROVE  node[z].fresh \/ up[z].kind = "hb"
<1>1. ~MasterReset
  BY IdleOK DEF MasterReset
<1>2. CASE node' = node
  BY <1>2
<1>3. ASSUME NEW y \in Zones, Receive(y)
      PROVE  node[z].fresh \/ up[z].kind = "hb"
  BY <1>3 DEF Receive, Types, Nodes
<1>4. ASSUME NEW zs \in ZoneLists, Start(zs) PROVE node' = node
  BY <1>4 DEF Start
<1>5. CASE Abort \/ TickReads \/ TickStarts \/ TickEnds \/ DeadlinePasses \/ Retransmit
           \/ TrackerFails \/ StreamBreaks \/ UNCHANGED vars
  BY <1>2, <1>5 DEF Abort, TickReads, TickStarts, TickEnds, DeadlinePasses, Retransmit,
     TrackerFails, StreamBreaks, master, vars
<1>6. ASSUME NEW i \in Installers, InstallStart(i) \/ InstallGoesOn(i) PROVE node' = node
  BY <1>6 DEF InstallStart, InstallGoesOn, master
<1>7. ASSUME NEW y \in Zones,
             \/ Lose(y) \/ Reset(y) \/ TrialStart(y) \/ TrialPasses(y) \/ TrialFails(y)
             \/ MinutePasses(y) \/ Heartbeat(y) \/ HandleUpdate(y) \/ RebootToRescue(y)
             \/ PullStarts(y) \/ PullFails(y) \/ PullCompletes(y) \/ WriteBreadcrumb(y)
      PROVE  node' = node
  BY <1>7 DEF Lose, Reset, TrialStart, TrialPasses, TrialFails, MinutePasses, Heartbeat,
     HandleUpdate, RebootToRescue, PullStarts, PullFails, PullCompletes, WriteBreadcrumb, master
<1> QED
  BY <1>1, <1>2, <1>3, <1>4, <1>5, <1>6, <1>7 DEF Next

-----------------------------------------------------------------------------
(* Each part of the invariant, by what the step does to the run and to the  *)
(* zone.                                                                    *)

LEMMA ListedStep == ASSUME Types, Listed, [Next]_vars PROVE Listed'
<1>1. ZoneLists' = ZoneLists
  BY DEF ZoneLists
<1> QED
  BY <1>1, RunMoves DEF Listed, Ended, Began, SameRun, Told, SameZone, NextZone, InTurn, Agreed

LEMMA NumberedStep ==
  ASSUME Types, zn \in [Zones -> Boards], Numbered, [Next]_vars
  PROVE  Numbered'
<1> SUFFICES ASSUME NEW z \in Zones
             PROVE  /\ \A i \in DOMAIN down'[z] : down'[z][i] <= submits'
                    /\ up'[z].kind = "ack" => up'[z].seq <= submits'
  BY DEF Numbered
<1>0. submits \in Nat /\ submits' \in Nat /\ submits' >= submits
  BY RunMoves
<1>1. down[z] \in Seq(Nat) /\ \A i \in DOMAIN down[z] : down[z][i] <= submits'
  BY <1>0, ElementOfSeq DEF Numbered, Types
<1>2. up[z].kind = "ack" => up[z].seq <= submits'
  BY <1>0 DEF Numbered, Types, Ups, Message, NoMsg
<1>3. ASSUME down[z] # <<>>
      PROVE  /\ Head(down[z]) <= submits'
             /\ \A i \in DOMAIN Tail(down[z]) : Tail(down[z])[i] <= submits'
  BY <1>1, <1>3, HeadTailProperties
<1>4. ASSUME NEW s \in Nat, s <= submits', Queued(z, s)
      PROVE  \A i \in DOMAIN down'[z] : down'[z][i] <= submits'
  BY <1>1, <1>4, AppendProperties DEF Queued
<1>5. CASE Dropped(z)
  <2>1. \A i \in DOMAIN down'[z] : down'[z][i] <= submits'
    <3>1. CASE down'[z] = down[z]
      BY <1>1, <3>1
    <3>2. CASE down[z] # <<>> /\ down'[z] = Tail(down[z])
      BY <1>3, <3>2
    <3> QED
      BY <1>5, <3>1, <3>2 DEF Dropped
  <2>2. up'[z].kind = "ack" => up'[z].seq <= submits'
    BY <1>2, <1>5 DEF Dropped, NoMsg
  <2> QED
    BY <2>1, <2>2
<1>6. CASE Worked(z)
  BY <1>1, <1>2, <1>6 DEF Worked
<1>7. CASE Rebooted(z)
  BY <1>2, <1>7 DEF Rebooted
<1>8. CASE Beat(z)
  BY <1>1, <1>8 DEF Beat
<1>9. CASE Took(z)
  BY <1>3, <1>9 DEF Took
<1>10. CASE Told /\ Queued(z, submits')
  BY <1>0, <1>2, <1>4, <1>10 DEF Queued
<1>11. CASE Retransmit /\ Queued(z, fleet.seq)
  <2>1. fleet.seq \in Nat /\ fleet.seq <= submits'
    BY <1>0, <1>11 DEF Retransmit, Pending, AckIsMine
  <2> QED
    BY <1>2, <1>4, <1>11, <2>1 DEF Queued
<1> QED
  BY <1>5, <1>6, <1>7, <1>8, <1>9, <1>10, <1>11, ZoneMoves

LEMMA BeatsTrueStep ==
  ASSUME Types, zn \in [Zones -> Boards], BeatsTrue, [Next]_vars
  PROVE  BeatsTrue'
<1> SUFFICES ASSUME NEW z \in Zones, up'[z].kind = "hb"
             PROVE  zn'[z].mode \in {"boot", "app"}
  BY DEF BeatsTrue, InApp
<1>1. CASE Beat(z)
  BY <1>1 DEF Beat, Kept
<1>2. CASE ~Beat(z)
  <2>1. up'[z] = up[z]
    BY <1>2, ZoneMoves DEF Dropped, Worked, Rebooted, Took, Queued, NoMsg
  <2>2. zn[z].mode \in {"boot", "app"}
    BY <2>1 DEF BeatsTrue, InApp
  <2> QED
    BY <1>2, <2>1, <2>2, ZoneMoves DEF Dropped, Worked, Rebooted, Took, Queued, Kept, InApp
<1> QED
  BY <1>1, <1>2

LEMMA AddressedStep ==
  ASSUME Types, zn \in [Zones -> Boards], Numbered, Addressed, [Next]_vars
  PROVE  Addressed'
<1> SUFFICES ASSUME fleet'.active, fleet'.st = "WAIT_ACK"
             PROVE  /\ fleet'.seq <= submits'
                    /\ \A z \in Zones \ {CurZone(fleet')} :
                         /\ ~(up'[z].kind = "ack" /\ up'[z].seq = fleet'.seq)
                         /\ \A i \in DOMAIN down'[z] : down'[z][i] # fleet'.seq
  BY DEF Addressed, InTurn, AckOf
<1>0. submits \in Nat /\ submits' \in Nat /\ submits' >= submits /\ fleet \in Run
  BY RunMoves DEF Types, RunOK
<1>1. SameRun \/ Told
  BY RunMoves DEF Ended, Began, NextZone, Agreed
<1>2. CASE SameRun
  <2>1. InTurn("WAIT_ACK") /\ fleet'.seq = fleet.seq /\ CurZone(fleet') = CurZone(fleet) /\ ~Told
    BY <1>2 DEF SameRun, InTurn, CurZone, Told
  <2>2. fleet.seq \in Nat /\ fleet.seq <= submits
    BY <1>0, <2>1 DEF Addressed, Run
  <2>3. ASSUME NEW z \in Zones \ {CurZone(fleet)}
        PROVE  /\ ~(up'[z].kind = "ack" /\ up'[z].seq = fleet.seq)
               /\ \A i \in DOMAIN down'[z] : down'[z][i] # fleet.seq
    <3>1. down[z] \in Seq(Nat) /\ \A i \in DOMAIN down[z] : down[z][i] # fleet.seq
      BY <2>1 DEF Addressed, Types
    <3>2. ~(up[z].kind = "ack" /\ up[z].seq = fleet.seq)
      BY <2>1 DEF Addressed, AckOf
    <3>3. down[z] # <<>> => /\ Head(down[z]) # fleet.seq
                            /\ \A i \in DOMAIN Tail(down[z]) : Tail(down[z])[i] # fleet.seq
      BY <3>1, HeadTailProperties
    <3>4. CASE Dropped(z)
      <4>1. \A i \in DOMAIN down'[z] : down'[z][i] # fleet.seq
        <5>1. CASE down'[z] = down[z]
          BY <3>1, <5>1
        <5>2. CASE down[z] # <<>> /\ down'[z] = Tail(down[z])
          BY <3>3, <5>2
        <5> QED
          BY <3>4, <5>1, <5>2 DEF Dropped
      <4>2. ~(up'[z].kind = "ack" /\ up'[z].seq = fleet.seq)
        BY <3>2, <3>4 DEF Dropped, NoMsg
      <4> QED
        BY <4>1, <4>2
    <3>5. CASE Worked(z)
      BY <3>1, <3>2, <3>5 DEF Worked
    <3>6. CASE Rebooted(z)
      BY <3>2, <3>6 DEF Rebooted
    <3>7. CASE Beat(z)
      BY <3>1, <3>7 DEF Beat
    <3>8. CASE Took(z)
      BY <3>3, <3>8 DEF Took
    <3> QED
      BY <2>1, <3>4, <3>5, <3>6, <3>7, <3>8, ZoneMoves
  <2> QED
    BY <1>0, <2>1, <2>2, <2>3
<1>3. CASE Told
  <2>1. fleet'.seq = submits + 1 /\ submits' = submits + 1 /\ up' = up
    BY <1>3 DEF Told, TickStarts
  <2>2. ASSUME NEW z \in Zones \ {CurZone(fleet')}
        PROVE  /\ ~(up'[z].kind = "ack" /\ up'[z].seq = fleet'.seq)
               /\ \A i \in DOMAIN down'[z] : down'[z][i] # fleet'.seq
    <3>1. z # CurZone(fleet) /\ down'[z] = down[z]
      BY <1>3 DEF Told, SameZone, CurZone, Types
    <3>2. down[z] \in Seq(Nat) /\ \A i \in DOMAIN down[z] : down[z][i] \in Nat /\ down[z][i] <= submits
      BY ElementOfSeq DEF Numbered, Types
    <3>3. up[z].kind = "ack" => up[z].seq \in Nat /\ up[z].seq <= submits
      BY DEF Numbered, Types, Ups, Message, NoMsg
    <3> QED
      BY <1>0, <2>1, <3>1, <3>2, <3>3
  <2> QED
    BY <1>0, <2>1, <2>2
<1> QED
  BY <1>1, <1>2, <1>3

LEMMA AcceptedStep ==
  ASSUME Types, zn \in [Zones -> Boards], Numbered, Accepted, [Next]_vars
  PROVE  Accepted'
<1> SUFFICES ASSUME fleet'.active, fleet'.st = "WAIT_ACK", NEW z \in Zones,
                    up'[z].kind = "ack", up'[z].seq = fleet'.seq, up'[z].ok
             PROVE  zn'[z].mode # "app" /\ (zn'[z].mode # "leaving" => down'[z] = <<>>)
  BY DEF Accepted, InTurn, AckOf, Emptied
<1>0. SameRun \/ Told
  BY RunMoves DEF Ended, Began, NextZone, Agreed
<1>1. CASE SameRun
  <2>1. InTurn("WAIT_ACK") /\ fleet'.seq = fleet.seq /\ ~Told
    BY <1>1 DEF SameRun, InTurn, Told
  <2>2. CASE Took(z)
    BY <2>2 DEF Took
  <2>3. CASE ~Took(z)
    <3>1. up'[z] = up[z]
      BY <2>1, <2>3, ZoneMoves DEF Dropped, Worked, Rebooted, Beat, Queued, NoMsg
    <3>2. zn[z].mode # "app" /\ Emptied(z)
      BY <2>1, <3>1 DEF Accepted, AckOf
    <3>3. CASE Dropped(z)
      BY <3>2, <3>3 DEF Dropped, Kept, Emptied
    <3>4. CASE Worked(z)
      BY <3>1, <3>2, <3>4 DEF Worked, Emptied, NoMsg
    <3>5. CASE Rebooted(z)
      BY <3>5 DEF Rebooted
    <3>6. CASE Retransmit /\ z = CurZone(fleet) /\ Queued(z, fleet.seq)
      <4>1. zn[z].mode \in {"app", "leaving"}
        BY <3>6 DEF Retransmit
      <4> QED
        BY <3>2, <3>6, <4>1 DEF Queued, Kept
    <3>7. ~Beat(z)
      BY DEF Beat
    <3> QED
      BY <2>1, <2>3, <3>3, <3>4, <3>5, <3>6, <3>7, ZoneMoves
  <2> QED
    BY <2>2, <2>3
<1>2. CASE Told
  <2>1. up' = up /\ fleet'.seq = submits + 1 /\ submits \in Nat
    BY <1>2 DEF Told, TickStarts, Types
  <2>2. up[z].seq \in Nat /\ up[z].seq <= submits
    BY <2>1 DEF Numbered, Types, Ups, Message, NoMsg
  <2> QED
    BY <2>1, <2>2
<1> QED
  BY <1>0, <1>1, <1>2

(* A zone stays in service unless it is asked to leave.                     *)
LEMMA ServedKept ==
  ASSUME Types, zn \in [Zones -> Boards], [Next]_vars, NEW z \in Zones, Served(z),
         z = CurZone(fleet) => ~Told /\ ~Retransmit
  PROVE  zn'[z].mode \in {"boot", "app"} /\ down'[z] = <<>>
<1>1. zn[z].mode \in {"boot", "app"} /\ down[z] = <<>>
  BY DEF Served, InApp
<1>2. CASE Dropped(z)
  BY <1>1, <1>2 DEF Dropped, Kept
<1>3. CASE Worked(z)
  BY <1>1, <1>3 DEF Worked
<1>4. CASE Rebooted(z)
  BY <1>1, <1>4 DEF Rebooted, InApp
<1>5. CASE Beat(z)
  BY <1>1, <1>5 DEF Beat, Kept
<1>6. ~Took(z)
  BY <1>1 DEF Took
<1> QED
  BY <1>2, <1>3, <1>4, <1>5, <1>6, ZoneMoves

LEMMA UnderwayStep ==
  ASSUME Types, zn \in [Zones -> Boards], Addressed, BeatsTrue, Accepted, Underway, [Next]_vars
  PROVE  Underway'
<1> DEFINE z == CurZone(fleet)
<1> SUFFICES ASSUME fleet'.active, fleet'.st = "WAIT_HB"
             PROVE  /\ CurZone(fleet') = z
                    /\ zn'[z].mode # "leaving" => down'[z] = <<>>
                    /\ node'[z].fresh => zn'[z].mode \in {"boot", "app"}
  BY DEF Underway, InTurn, Emptied, InApp
<1>0. SameRun \/ \E y \in Zones : Agreed(y)
  BY RunMoves DEF Ended, Began, Told, NextZone
<1>1. fleet.active /\ CurZone(fleet') = z /\ z \in Zones
  <2>1. fleet.active /\ fleet'.zones = fleet.zones /\ fleet'.idx = fleet.idx
    BY <1>0 DEF SameRun, Agreed, SameZone
  <2>2. fleet.zones \in Seq(Zones) /\ fleet.idx \in Nat \ {0} /\ fleet.idx <= Len(fleet.zones)
    BY <2>1 DEF Types, RunOK, Run
  <2>3. fleet.idx \in 1 .. Len(fleet.zones)
    BY <2>2, LenProperties
  <2>4. fleet.zones[fleet.idx] \in Zones
    BY <2>2, <2>3, ElementOfSeq
  <2> QED
    BY <2>1, <2>4 DEF CurZone
<1> HIDE DEF z
<1>2. CASE SameRun
  <2>1. InTurn("WAIT_HB") /\ ~Told /\ ~Retransmit
    BY <1>1, <1>2 DEF SameRun, InTurn, Told, Retransmit, Pending, AckIsMine
  <2>2. Emptied(z) /\ (node[z].fresh => InApp(z))
    BY <2>1 DEF Underway, z
  <2>3. zn'[z].mode # "leaving" => down'[z] = <<>>
    <3>1. CASE Dropped(z)
      BY <2>2, <3>1 DEF Dropped, Kept, Emptied
    <3>2. CASE Worked(z)
      BY <2>2, <3>2 DEF Worked, Emptied
    <3>3. CASE Rebooted(z)
      BY <3>3 DEF Rebooted
    <3>4. CASE Beat(z)
      BY <2>2, <3>4 DEF Beat, Emptied
    <3>5. ~Took(z)
      BY <2>2 DEF Took, Emptied
    <3> QED
      BY <1>1, <2>1, <3>1, <3>2, <3>3, <3>4, <3>5, ZoneMoves
  <2>4. ASSUME node'[z].fresh
        PROVE  zn'[z].mode \in {"boot", "app"}
    <3>1. InApp(z)
      BY <1>1, <2>2, <2>4, FreshMoves DEF BeatsTrue
    <3>2. Served(z)
      BY <2>2, <3>1 DEF Served, Emptied, InApp
    <3> QED
      BY <1>1, <2>1, <3>2, ServedKept
  <2> QED
    BY <1>1, <2>3, <2>4
<1>3. ASSUME NEW y \in Zones, Agreed(y)
      PROVE  /\ zn'[z].mode # "leaving" => down'[z] = <<>>
             /\ node'[z].fresh => zn'[z].mode \in {"boot", "app"}
  <2>1. InTurn("WAIT_ACK") /\ AckOf(y, fleet.seq) /\ up[y].ok /\ node'[y].fresh = FALSE
    BY <1>3 DEF Agreed, SameZone, InTurn
  <2>2. y = z
    BY <2>1 DEF Addressed, z
  <2>3. Emptied(z)
    BY <2>1, <2>2 DEF Accepted
  <2>4. zn' = zn /\ down' = down
    BY <1>3 DEF Agreed, Receive
  <2> QED
    BY <2>1, <2>2, <2>3, <2>4 DEF Emptied
<1> QED
  BY <1>0, <1>1, <1>2, <1>3

LEMMA BackInServiceStep ==
  ASSUME Types, zn \in [Zones -> Boards], Listed, Underway, SnapTrue, BackInService, [Next]_vars
  PROVE  BackInService'
<1> SUFFICES ASSUME fleet'.active, NEW k \in 1 .. fleet'.idx - 1
             PROVE  /\ zn'[fleet'.zones[k]].mode \in {"boot", "app"}
                    /\ down'[fleet'.zones[k]] = <<>>
  BY DEF BackInService, Served, InApp
<1>1. ~Began /\ ~Ended
  BY DEF Began, Ended
<1>2. fleet.active /\ fleet'.zones = fleet.zones /\ (fleet'.idx = fleet.idx \/ NextZone)
  BY <1>1, RunMoves DEF SameRun, Told, NextZone, Agreed, SameZone, InTurn
<1>3. /\ fleet.zones \in ZoneLists /\ fleet.zones \in Seq(Zones)
      /\ fleet.idx \in Nat \ {0} /\ fleet.idx <= Len(fleet.zones)
  BY <1>2 DEF Listed, Types, RunOK, Run
<1>4. k \in 1 .. fleet.idx /\ k \in 1 .. Len(fleet.zones) /\ (k = fleet.idx => NextZone)
  BY <1>2, <1>3, LenProperties DEF NextZone
<1> DEFINE z == fleet.zones[k]
<1>5. z \in Zones
  BY <1>3, <1>4, ElementOfSeq
<1>6. CASE k = fleet.idx
  <2>1. NextZone /\ z = CurZone(fleet)
    BY <1>4, <1>6 DEF CurZone
  <2>2. Served(z)
    BY <2>1 DEF NextZone, SnapTrue, Underway, InTurn, Served, Emptied, InApp
  <2>3. zn' = zn /\ down' = down
    BY <2>1 DEF NextZone, TickEnds, wires
  <2> QED
    BY <1>2, <2>2, <2>3 DEF Served, InApp
<1>7. CASE k # fleet.idx
  <2>1. Served(z)
    BY <1>2, <1>3, <1>4, <1>7 DEF BackInService
  <2>2. z # CurZone(fleet)
    BY <1>3, <1>4, <1>7, NoZoneTwice DEF CurZone
  <2> HIDE DEF z
  <2>3. zn'[z].mode \in {"boot", "app"} /\ down'[z] = <<>>
    BY <1>5, <2>1, <2>2, ServedKept
  <2> QED
    BY <1>2, <2>3 DEF z
<1> QED
  BY <1>6, <1>7

LEMMA TurnsStep == FleetInv /\ Turns /\ [Next]_vars => Turns'
<1> SUFFICES ASSUME FleetInv, Turns, [Next]_vars PROVE Turns'
  OBVIOUS
<1>1. Types /\ zn \in [Zones -> Boards]
  BY DEF FleetInv, BoardsStand
<1> QED
  BY <1>1, ListedStep, NumberedStep, AddressedStep, BeatsTrueStep, AcceptedStep, UnderwayStep,
     SnapMoves, BackInServiceStep DEF Turns

(* A run takes its zones out of service one at a time (fleet_seq.c 36-40,   *)
(* 61-72), for any number of zones and runs, whatever is lost, reset or     *)
(* left over from an earlier run: a zone it has done with runs an app, and  *)
(* no request is left that would make it leave.                             *)
THEOREM OneAtATimeHolds == Spec => []OneAtATime
<1>1. Init => FleetInv /\ Turns
  BY FwInitInv, TypesInit, BoardsInit, TurnsInit DEF Init, FleetInv
<1>2. FleetInv /\ [Next]_vars => FleetInv'
  BY FleetInvTypes, StepImplements, FwStepInv, TypesStep, BoardsStep DEF FleetInv, FwInv
<1>3. Turns => OneAtATime
  BY DEF Turns, BackInService, Served, InApp, OneAtATime
<1> QED
  BY <1>1, <1>2, <1>3, TurnsStep, PTL DEF Spec
=============================================================================
