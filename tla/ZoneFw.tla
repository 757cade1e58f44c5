------------------------------- MODULE ZoneFw -------------------------------
(***************************************************************************)
(* The firmware image the master keeps for its zones: the one install path *)
(* (panel_svc/psvc_fw.c with the zone_fw sink), the zone_fw partition, the  *)
(* cached verdict on it, and the server that streams it to zones in rescue *)
(* (fw_srv.c).                                                             *)
(*                                                                         *)
(* An installer is a task that may call psvc_fw_install().  The httpd task *)
(* installs web uploads and is also the one task that serves the image, so *)
(* it does one thing at a time; the panel's worker runs beside it (P4).    *)
(* A step is one flash operation or one critical section.                  *)
(***************************************************************************)
EXTENDS Integers

CONSTANTS
  Installers,   \* tasks that install: {"httpd"}, or with "panel" on the P4
  Images,       \* whole zone images
  Stored,       \* what the partition holds at first
  Blank,        \* flash that is not one whole image (or not a good header)
  ZONES         \* zones are numbered 1 .. ZONES: the clients of the server

ASSUME ZoneFwAssumption ==
  /\ Installers \subseteq {"httpd", "panel"}
  /\ Blank \notin Images
  /\ Stored \in Images \cup {Blank}
  /\ ZONES \in Nat \ {0}

VARIABLES
  busy,     \* the one install claim (psvc_fw_env.c s_busy)
  inst,     \* per installer: where it is in psvc_fw_install, and for what image
  hdr,      \* the header sector: the image its length and CRC describe
  body,     \* the rest of the partition
  img_ok,   \* the cached verdict (s_img_ok, s_img_len)
  writer,   \* the writer claim (s_writer)
  stream    \* the transfer the httpd task is in (s_streaming), and what it reads

fwVars == <<busy, inst, hdr, body, img_ok, writer, stream>>

Zones   == 1 .. ZONES
Content == Images \cup {Blank}

NotInstalling == [pc |-> "idle", kind |-> "zone", img |-> Blank]
NoStream      == [to |-> 0, img |-> Blank]

(* validate_image: the header is good and the CRC of the body is its CRC.   *)
Valid == hdr \in Images /\ body = hdr

(* Mutant: the verdict alone, whoever is writing. *)
ImageOkCached == img_ok

(* fw_srv_image_ok: never while a writer holds the claim. *)
ImageOk == img_ok /\ ~writer

At(i, pc)    == inst[i].pc = pc
Goto(i, pc)  == inst' = [inst EXCEPT ![i].pc = pc]
HttpdFree    == stream = NoStream /\ \A i \in Installers : i = "httpd" => At(i, "idle")

(* The boot-time validation runs before the server is up. *)
FwInit ==
  /\ busy = FALSE
  /\ inst = [i \in Installers |-> NotInstalling]
  /\ hdr = Stored
  /\ body = Stored
  /\ img_ok = Valid
  /\ writer = FALSE
  /\ stream = NoStream

-----------------------------------------------------------------------------
(* psvc_fw_install_with: the claim, then the guards, then the file.         *)

Claim(i, kind, img) ==
  /\ At(i, "idle")
  /\ i = "httpd" => stream = NoStream
  /\ ~busy
  /\ busy' = TRUE
  /\ inst' = [inst EXCEPT ![i] = [pc |-> "guards", kind |-> kind, img |-> img]]
  /\ UNCHANGED <<hdr, body, img_ok, writer, stream>>

(* The fleet is idle, and so say the sink, the heap and the size. *)
PassGuards(i, fleetIdle) ==
  /\ At(i, "guards")
  /\ fleetIdle
  /\ Goto(i, "identify")
  /\ UNCHANGED <<busy, hdr, body, img_ok, writer, stream>>

(* Mutant: the refusal keeps the claim. *)
FailGuardsKeeping(i) ==
  /\ At(i, "guards")
  /\ inst' = [inst EXCEPT ![i] = NotInstalling]
  /\ UNCHANGED <<busy, hdr, body, img_ok, writer, stream>>

FailGuards(i) ==
  /\ At(i, "guards")
  /\ inst' = [inst EXCEPT ![i] = NotInstalling]
  /\ busy' = FALSE
  /\ UNCHANGED <<hdr, body, img_ok, writer, stream>>

(* The file is not an image for this board, or its source fails first. *)
Rejected(i) ==
  /\ At(i, "identify")
  /\ Goto(i, "free")
  /\ UNCHANGED <<busy, hdr, body, img_ok, writer, stream>>

(* A master image goes to the master's own spare slot. *)
IdentifyMaster(i) ==
  /\ At(i, "identify")
  /\ inst[i].kind = "master"
  /\ Goto(i, "slot")
  /\ UNCHANGED <<busy, hdr, body, img_ok, writer, stream>>

(* Written, or given up; either way the fleet's image is not touched. *)
MasterWritten(i) ==
  /\ At(i, "slot")
  /\ Goto(i, "free")
  /\ UNCHANGED <<busy, hdr, body, img_ok, writer, stream>>

(* Mutant: fw_srv_writer_claim, blind to a transfer in progress. *)
MayWriteAnyTime == ~writer

MayWrite == ~writer /\ stream = NoStream

(* fw_srv_writer_claim: granted only while nothing streams. *)
ClaimWriter(i) ==
  /\ At(i, "identify")
  /\ inst[i].kind = "zone"
  /\ IF MayWrite THEN writer' = TRUE /\ Goto(i, "erase")
                 ELSE writer' = writer /\ Goto(i, "free")
  /\ UNCHANGED <<busy, hdr, body, img_ok, stream>>

-----------------------------------------------------------------------------
(* fw_sink_zone.c: header erased first, written last.                       *)

EraseHeader(i) ==
  /\ At(i, "erase")
  /\ hdr' = Blank
  /\ Goto(i, "drop")
  /\ UNCHANGED <<busy, body, img_ok, writer, stream>>

(* The revalidation that follows an erase publishes "no image". *)
DropVerdict(i) ==
  /\ \/ At(i, "drop") /\ Goto(i, "bulk")
     \/ At(i, "cancel_drop") /\ Goto(i, "unclaim")
  /\ img_ok' = Valid
  /\ UNCHANGED <<busy, hdr, body, writer, stream>>

EraseBody(i) ==
  /\ At(i, "bulk")
  /\ body' = Blank
  /\ Goto(i, "write")
  /\ UNCHANGED <<busy, hdr, img_ok, writer, stream>>

(* begin() failed: nothing is cancelled, since it never completed. *)
BeginFails(i) ==
  /\ \/ At(i, "erase") /\ body' = body
     \/ At(i, "bulk") /\ body' \in {body, Blank}
  /\ Goto(i, "unclaim")
  /\ UNCHANGED <<busy, hdr, img_ok, writer, stream>>

(* What lands in flash may differ from what was sent to it. *)
WriteBody(i) ==
  /\ At(i, "write")
  /\ body' \in {inst[i].img, Blank}
  /\ Goto(i, "header")
  /\ UNCHANGED <<busy, hdr, img_ok, writer, stream>>

WriteHeader(i) ==
  /\ At(i, "header")
  /\ hdr' = inst[i].img
  /\ Goto(i, "verify")
  /\ UNCHANGED <<busy, body, img_ok, writer, stream>>

(* The source stalls or fails, or a flash write does. *)
WriteFails(i) ==
  /\ At(i, "write") \/ At(i, "header")
  /\ Goto(i, "cancel")
  /\ UNCHANGED <<busy, hdr, body, img_ok, writer, stream>>

(* fw_srv_revalidate on the image as it reads back. *)
Verify(i) ==
  /\ At(i, "verify")
  /\ img_ok' = Valid
  /\ Goto(i, IF Valid THEN "unclaim" ELSE "cancel")
  /\ UNCHANGED <<busy, hdr, body, writer, stream>>

(* zone_cancel: erase the header again; a failed erase is not revalidated. *)
Cancel(i) ==
  /\ At(i, "cancel")
  /\ \/ hdr' = Blank /\ Goto(i, "cancel_drop")
     \/ hdr' = hdr /\ Goto(i, "unclaim")
  /\ UNCHANGED <<busy, body, img_ok, writer, stream>>

ReleaseWriter(i) ==
  /\ At(i, "unclaim")
  /\ writer' = FALSE
  /\ Goto(i, "free")
  /\ UNCHANGED <<busy, hdr, body, img_ok, stream>>

Release(i) ==
  /\ At(i, "free")
  /\ busy' = FALSE
  /\ inst' = [inst EXCEPT ![i] = NotInstalling]
  /\ UNCHANGED <<hdr, body, img_ok, writer, stream>>

(* From a claim that passed its guards to the end of the install. *)
InstallStep(i) ==
  \/ Rejected(i) \/ IdentifyMaster(i) \/ MasterWritten(i) \/ ClaimWriter(i)
  \/ EraseHeader(i) \/ DropVerdict(i) \/ EraseBody(i) \/ BeginFails(i)
  \/ WriteBody(i) \/ WriteHeader(i) \/ WriteFails(i) \/ Verify(i) \/ Cancel(i)
  \/ ReleaseWriter(i) \/ Release(i)

-----------------------------------------------------------------------------
(* zone_bin_get, on the httpd task.                                         *)

StreamStart(z) ==
  /\ HttpdFree
  /\ ImageOk
  /\ stream' = [to |-> z, img |-> body]
  /\ UNCHANGED <<busy, inst, hdr, body, img_ok, writer>>

StreamEnd ==
  /\ stream # NoStream
  /\ stream' = NoStream
  /\ UNCHANGED <<busy, inst, hdr, body, img_ok, writer>>

(* The master restarts: its RAM is gone, flash is as the cut left it.       *)
FwReset ==
  /\ busy' = FALSE
  /\ inst' = [i \in Installers |-> NotInstalling]
  /\ img_ok' = Valid
  /\ writer' = FALSE
  /\ stream' = NoStream
  /\ UNCHANGED <<hdr, body>>

-----------------------------------------------------------------------------
(* The image server and the installers on their own, where the fleet may be *)
(* idle at any time.                                                        *)

FwNext ==
  \/ \E i \in Installers :
       \/ \E kind \in {"zone", "master"}, img \in Images : Claim(i, kind, img)
       \/ PassGuards(i, TRUE)
       \/ FailGuards(i)
       \/ InstallStep(i)
  \/ \E z \in Zones : StreamStart(z)
  \/ StreamEnd
  \/ FwReset

FwSpec == FwInit /\ [][FwNext]_fwVars

Phases == {"idle", "guards", "identify", "slot", "erase", "drop", "bulk", "write", "header",
           "verify", "cancel", "cancel_drop", "unclaim", "free"}

(* The values the variables take. *)
FwTypeOK ==
  /\ {busy, img_ok, writer} \subseteq BOOLEAN
  /\ inst \in [Installers -> [pc : Phases, kind : {"zone", "master"}, img : Content]]
  /\ {hdr, body} \subseteq Content
  /\ stream \in [to : Zones \cup {0}, img : Content]

(* A transfer and a writer never share the partition (fw_srv.c 158-164,    *)
(* 237-244): what a zone is being sent stays, to the last chunk, the whole *)
(* image the transfer began with, and no writer holds the claim.           *)
NoTornPull == stream # NoStream => ~writer /\ stream.img \in Images /\ body = stream.img

(* A verdict that is given out is true of the flash at that moment          *)
(* (fw_sink_zone.c 19-32): whatever install, failed step or power cut came *)
(* before, "there is an image" means header and body are one whole image.  *)
VerdictGenuine == ImageOk => Valid
=============================================================================
