---------------------------- MODULE EditorsProofs ----------------------------
(***************************************************************************)
(* More of what holds of the operator's side: a guarded command runs in its *)
(* window only, the line that runs is the line that was shown, and the      *)
(* panel's editors lose no value, show none wrong, and change the access    *)
(* point only when asked.                                                   *)
(***************************************************************************)
EXTENDS FrontsProofs

-----------------------------------------------------------------------------
(* Commands and CliLine, of five and four slots.                            *)

LEMMA LineStarts == Cli!Init => Cli!LineInv
<1> SUFFICES ASSUME Cli!Init PROVE Cli!LineInv
  OBVIOUS
<1>1. PICK echo \in BOOLEAN : now = Cli!Fresh(echo)
  BY DEF Cli!Init
<1>2. ses = <<>> /\ clock = [line |-> <<>>, shown |-> <<>>]
  BY DEF Cli!Init
<1>3. DOMAIN now = DOMAIN Cli!Fresh(TRUE) /\ now.buf = <<>>
  BY <1>1 DEF Cli!Fresh
<1> QED  BY <1>2, <1>3 DEF Cli!LineInv, Cli!RunsWhatWasSeen

(* A step that runs no line, and after which the terminal shows the buffer.  *)
LEMMA LineSeen ==
  ASSUME Cli!LineInv, DOMAIN now' = DOMAIN now, now'.echo = now.echo, clock' = clock,
         now.echo => ses' = now'.buf
  PROVE  Cli!LineInv'
BY DEF Cli!LineInv, Cli!RunsWhatWasSeen

LEMMA LineSteps == Cli!LineInv /\ (Cli!Next \/ UNCHANGED <<now, ses, clock>>) => Cli!LineInv'
<1> SUFFICES ASSUME Cli!LineInv, Cli!Next \/ UNCHANGED <<now, ses, clock>> PROVE Cli!LineInv'
  OBVIOUS
<1>1. DOMAIN now = {"buf", "hist", "saved", "browsing", "pos", "overflow", "esc", "cr", "echo"}
  BY DEF Cli!LineInv, Cli!Fresh
<1>2. now.echo => ses = now.buf /\ clock.line = clock.shown
  BY DEF Cli!LineInv, Cli!RunsWhatWasSeen
<1>3. CASE Cli!Escape \/ Cli!Bracket \/ Cli!NotASequence
  <2>1. DOMAIN now' = DOMAIN now /\ now'.echo = now.echo /\ now'.buf = now.buf /\ ses' = ses /\ clock' = clock
    BY <1>1, <1>3 DEF Cli!Escape, Cli!Bracket, Cli!NotASequence
  <2> QED  BY <1>2, <2>1, LineSeen
<1>4. CASE Cli!HistUp
  <2>1. \A pos : /\ DOMAIN Cli!Recalled(pos) = DOMAIN now /\ Cli!Recalled(pos).echo = now.echo
    BY <1>1 DEF Cli!Recalled
  <2>2. DOMAIN now' = DOMAIN now /\ now'.echo = now.echo
    BY <1>1, <1>4, <2>1 DEF Cli!HistUp
  <2>3. clock' = clock /\ (now.echo => ses' = now'.buf)
    BY <1>4 DEF Cli!HistUp, Cli!Shows
  <2> QED  BY <2>2, <2>3, LineSeen
<1>5. CASE Cli!HistDown
  <2>1. \A pos : /\ DOMAIN Cli!Recalled(pos) = DOMAIN now /\ Cli!Recalled(pos).echo = now.echo
    BY <1>1 DEF Cli!Recalled
  <2>2. DOMAIN now' = DOMAIN now /\ now'.echo = now.echo
    BY <1>1, <1>5, <2>1 DEF Cli!HistDown
  <2>3. clock' = clock /\ (now.echo => ses' = now'.buf)
    BY <1>5 DEF Cli!HistDown, Cli!Shows
  <2> QED  BY <2>2, <2>3, LineSeen
<1>6. ASSUME NEW ch \in CHARS, Cli!Printable(ch) PROVE Cli!LineInv'
  <2>1. CASE Len(now.buf) = CLI_LINE_MAX - 1
    <3>1. DOMAIN now' = DOMAIN now /\ now'.echo = now.echo /\ now'.buf = now.buf /\ clock' = clock
      BY <1>1, <1>6, <2>1 DEF Cli!Printable, Cli!Editing, Cli!Byte
    <3>2. now.echo => ses' = ses
      BY <1>6, <2>1 DEF Cli!Printable, Cli!Shows
    <3> QED  BY <1>2, <3>1, <3>2, LineSeen
  <2>2. CASE Len(now.buf) # CLI_LINE_MAX - 1
    <3>1. /\ DOMAIN now' = DOMAIN now /\ now'.echo = now.echo /\ clock' = clock
          /\ now'.buf = Append(now.buf, ch)
      BY <1>1, <1>6, <2>2 DEF Cli!Printable, Cli!Editing, Cli!Byte
    <3>2. now.echo => ses' = Append(ses, ch)
      BY <1>6, <2>2 DEF Cli!Printable, Cli!Shows
    <3> QED  BY <1>2, <3>1, <3>2, LineSeen
  <2> QED  BY <2>1, <2>2
<1>7. CASE Cli!Backspace
  <2>1. CASE now.buf = <<>>
    <3>1. DOMAIN now' = DOMAIN now /\ now'.echo = now.echo /\ now'.buf = now.buf /\ clock' = clock
      BY <1>1, <1>7, <2>1 DEF Cli!Backspace, Cli!Editing, Cli!Byte
    <3>2. now.echo => ses' = ses
      BY <1>7, <2>1 DEF Cli!Backspace, Cli!Shows
    <3> QED  BY <1>2, <3>1, <3>2, LineSeen
  <2>2. CASE now.buf # <<>>
    <3>1. /\ DOMAIN now' = DOMAIN now /\ now'.echo = now.echo /\ clock' = clock
          /\ now'.buf = Cli!Front(now.buf)
      BY <1>1, <1>7, <2>2 DEF Cli!Backspace, Cli!Editing, Cli!Byte
    <3>2. now.echo => ses' = Cli!Front(ses)
      BY <1>7, <2>2 DEF Cli!Backspace, Cli!Shows
    <3> QED  BY <1>2, <3>1, <3>2, LineSeen
  <2> QED  BY <2>1, <2>2
<1>8. CASE Cli!CtrlC
  <2>1. DOMAIN now' = DOMAIN now /\ now'.echo = now.echo /\ now'.buf = <<>> /\ clock' = clock
    BY <1>1, <1>8 DEF Cli!CtrlC, Cli!Editing, Cli!Byte
  <2>2. now.echo => ses' = <<>>
    BY <1>8 DEF Cli!CtrlC, Cli!Shows
  <2> QED  BY <2>1, <2>2, LineSeen
<1>9. CASE Cli!LineFeed
  <2>1. DOMAIN now' = DOMAIN now /\ now'.echo = now.echo /\ now'.buf = now.buf /\ clock' = clock /\ ses' = ses
    BY <1>1, <1>9 DEF Cli!LineFeed, Cli!Editing, Cli!Byte
  <2> QED  BY <1>2, <2>1, LineSeen
<1>10. CASE Cli!Stale
  <2>1. DOMAIN now' = DOMAIN now /\ ~ now.echo /\ ~ now'.echo
    BY <1>1, <1>10 DEF Cli!Stale
  <2> QED  BY <2>1 DEF Cli!LineInv, Cli!RunsWhatWasSeen
<1>11. ASSUME NEW cr \in BOOLEAN, Cli!Enter(cr) PROVE Cli!LineInv'
  <2>1. DOMAIN now' = DOMAIN now /\ now'.echo = now.echo /\ now'.buf = <<>>
    BY <1>1, <1>11 DEF Cli!Enter
  <2>2. now.echo => ses' = <<>>
    BY <1>11 DEF Cli!Enter, Cli!Shows
  <2>3. now.echo => clock'.line = clock'.shown
    BY <1>2, <1>11 DEF Cli!Enter
  <2> QED  BY <1>1, <2>1, <2>2, <2>3 DEF Cli!LineInv, Cli!RunsWhatWasSeen
<1>12. CASE UNCHANGED <<now, ses, clock>>
  BY <1>12 DEF Cli!LineInv, Cli!RunsWhatWasSeen
<1> QED
  BY <1>3, <1>4, <1>5, <1>6, <1>7, <1>8, <1>9, <1>10, <1>11, <1>12 DEF Cli!Next

LEMMA SessionNames ==
  /\ Nodes = {"master", "zone"} /\ "ring" \in Sessions /\ PLACES \subseteq Sessions
  /\ \A s \in Sessions : NodeOf(s) \in Nodes
  /\ \A n \in Nodes : External(n) \in {"NTP", "RING"}
  /\ CMD_UNLOCK \in Nat /\ CMD_UNLOCK > 0
BY UnlockBounds DEF Nodes, Sessions, NodeOf, External

(* With the window shut, no line finds a guarded row.                        *)
LEMMA ShutFindsNone ==
  ASSUME NEW n, NEW s, NEW w,
         Parsed(n, s, w, FALSE).err = "", Parsed(n, s, w, FALSE).row # 0
  PROVE  "UNLOCK" \notin Table[n][Parsed(n, s, w, FALSE).row].flags
<1> DEFINE v    == IF w[1] \in {"SET", "GET"} THEN w[1] ELSE "BARE"
           hit  == Find(Table[n], v, w)
           row  == Table[n][hit.row]
           errs == [i \in DOMAIN hit.args |-> ArgError(row.args[i], hit.args[i])]
           bad  == First({i \in DOMAIN hit.args : errs[i] # ""})
           many == Len(hit.args) \notin Needed(row, v) .. Taken(row, v)
           fine == IF bad = 0 THEN "" ELSE errs[bad]
           err  == CASE "MASTER" \in row.flags /\ n # "master" -> "MASTER_ONLY"
                     [] "ZONE" \in row.flags /\ n # "zone"     -> "ZONE_ONLY"
                     [] "SESSION" \in row.flags /\ s = "web"   -> "NOT_LOCAL"
                     [] "UNLOCK" \in row.flags /\ ~FALSE -> "LOCKED"
                     [] many -> "BAD_ARGS"
                     [] OTHER -> fine
           p    == Parsed(n, s, w, FALSE)
<1>1. p = IF w = <<>> THEN Refused("EMPTY")
          ELSE IF w[Len(w)] = "HELP" THEN Refused(HelpReply(n, SubSeq(w, 1, Len(w) - 1)))
          ELSE IF Len(w) < Len(Prefix(v)) + 1 \/ hit.row = 0 THEN Refused("UNKNOWN_CMD")
          ELSE [err |-> err, row |-> hit.row, verb |-> v, args |-> hit.args]
  BY Zenon DEF Parsed
<1>2. \A e : Refused(e).row = 0
  BY DEF Refused
<1> HIDE DEF hit, fine, many
<1>3. "UNLOCK" \in row.flags => err # ""
  BY DEF err
<1> HIDE DEF err, row, p, v
<1>4. p.row # 0 => p.err = err /\ p.row = hit.row
  BY <1>1, <1>2
<1> QED  BY <1>3, <1>4 DEF p, row

(* What a line is understood as: where it goes, and what it finds there.     *)
LEMMA UnderstoodSound ==
  ASSUME NEW s \in PLACES, NEW x
  PROVE  LET to == Understood(s, x)
         IN  /\ to.ses \in Sessions /\ to.node = NodeOf(to.ses)
             /\ to.shut.err = "" /\ to.shut.row # 0 => "UNLOCK" \notin Table[to.node][to.shut.row].flags
<1> DEFINE to == Addressed(s, x.words)
           at == Ran(s, to.away)
           shut == IF to.err # "" THEN Refused(to.err) ELSE Parsed(NodeOf(at), at, to.words, FALSE)
           u == Understood(s, x)
<1>1. at \in Sessions
  BY SessionNames DEF Ran
<1>2. u.node = NodeOf(at) /\ u.ses = at /\ u.shut = shut
  BY DEF Understood
<1>3. shut.err = "" /\ shut.row # 0 => "UNLOCK" \notin Table[NodeOf(at)][shut.row].flags
  <2>1. CASE to.err # ""
    BY <2>1 DEF Refused
  <2>2. CASE to.err = ""
    <3>1. shut = Parsed(NodeOf(at), at, to.words, FALSE)
      BY <2>2
    <3> HIDE DEF shut, at, to
    <3> QED  BY <3>1, ShutFindsNone
  <2> QED  BY <2>1, <2>2
<1> HIDE DEF u, shut, at
<1> QED  BY <1>1, <1>2, <1>3 DEF u

(* What the handlers that move a window may answer.                          *)
LEMMA WindowAnswers ==
  ASSUME NEW s, NEW p
  PROVE  LET does == Table[NodeOf(s)][p.row].does
         IN  /\ does = "debug_disable" => HandlerAnswers(s, p) = {""}
             /\ does = "notify" /\ p.verb = "SET" /\ "" \in HandlerAnswers(s, p) =>
                  p.args[1] \in NtfTypes \cup {"ALL"}
<1> DEFINE does == Table[NodeOf(s)][p.row].does
<1>1. does = "debug_disable" => HandlerAnswers(s, p) = SessionAnswers(p.verb, does, p.args)
  BY DEF HandlerAnswers
<1>2. does = "notify" => HandlerAnswers(s, p) = SessionAnswers(p.verb, does, p.args)
  BY DEF HandlerAnswers
<1> HIDE DEF does
<1>3. does = "debug_disable" => SessionAnswers(p.verb, does, p.args) = {""}
  BY DEF SessionAnswers
<1>4. does = "notify" /\ p.verb = "SET" /\ p.args[1] \notin NtfTypes \cup {"ALL"} =>
        SessionAnswers(p.verb, does, p.args) = {"BAD_ARGS"}
  BY DEF SessionAnswers
<1> QED  BY <1>1, <1>2, <1>3, <1>4 DEF does

LEMMA UnlockLength == CMD_UNLOCK \in Nat /\ CMD_UNLOCK > 0
BY UnlockBounds

LEMMA StoredTypes ==
  ASSUME Stored
  PROVE  /\ now \in Nat /\ now > 0
         /\ ses \in [Sessions -> [echo : BOOLEAN, notify : SUBSET NtfTypes, unlock_until : Nat]]
         /\ \A s \in Sessions : ses[s] \in [echo : BOOLEAN, notify : SUBSET NtfTypes, unlock_until : Nat]
         /\ \A s \in Sessions : ses[s].unlock_until \in Nat
         /\ DOMAIN seen = {"key", "idle", "setter", "typed"}
         /\ seen.key \in [Sessions -> BOOLEAN]
         /\ seen.idle \in [Sessions -> 0 .. CMD_UNLOCK]
         /\ seen.setter \in [Nodes -> {"NONE", "SET", "NTP", "RING"}]
         /\ seen.typed \in Nat
         /\ \A s \in Sessions : seen.key[s] \in BOOLEAN
         /\ clock \in [Nodes -> [set : 0 .. now, ext : 0 .. now]] /\ now \in 0 .. now
         /\ \A n \in Nodes : clock[n].ext \in 0 .. now /\ clock[n].set \in 0 .. now
<1>1. now \in Nat /\ now > 0
  BY DEF Stored
<1>2. ses \in [Sessions -> [echo : BOOLEAN, notify : SUBSET NtfTypes, unlock_until : Nat]]
  BY DEF Stored
<1>3. \A s \in Sessions : ses[s] \in [echo : BOOLEAN, notify : SUBSET NtfTypes, unlock_until : Nat]
  BY <1>2, Zenon
<1>4. \A s \in Sessions : ses[s].unlock_until \in Nat
  BY <1>3
<1>5. seen \in [key : [Sessions -> BOOLEAN], idle : [Sessions -> 0 .. CMD_UNLOCK],
                setter : [Nodes -> {"NONE", "SET", "NTP", "RING"}], typed : Nat]
  BY DEF Stored
<1>6. seen.key \in [Sessions -> BOOLEAN]
  BY <1>5
<1>7. seen.idle \in [Sessions -> 0 .. CMD_UNLOCK]
  BY <1>5
<1>8. seen.setter \in [Nodes -> {"NONE", "SET", "NTP", "RING"}]
  BY <1>5
<1>9. seen.typed \in Nat
  BY <1>5
<1>10. DOMAIN seen = {"key", "idle", "setter", "typed"}
  BY <1>5
<1>11. \A s \in Sessions : seen.key[s] \in BOOLEAN
  BY <1>6, Zenon
<1>12. clock \in [Nodes -> [set : 0 .. now, ext : 0 .. now]]
  BY DEF Stored
<1>13. now \in 0 .. now
  BY <1>1
<1>14. \A n \in Nodes : clock[n].ext \in 0 .. now /\ clock[n].set \in 0 .. now
  BY <1>12
<1> QED  BY <1>1, <1>2, <1>3, <1>4, <1>6, <1>7, <1>8, <1>9, <1>10, <1>11, <1>12, <1>13, <1>14, Zenon

(* A line that reaches its handler, and a handler that may answer OK.        *)
Runs(p) == p.err = "" /\ p.row # 0
MayAccept(s, p) == "" \in HandlerAnswers(s, p)

(* What a handler makes of its session.                                      *)
LEMMA HandledSession ==
  ASSUME Stored, NEW s \in Sessions, NEW p, MayAccept(s, p)
  PROVE  LET does == Table[NodeOf(s)][p.row].does
             x == Handled(s, p)
         IN  /\ x \in [echo : BOOLEAN, notify : SUBSET NtfTypes, unlock_until : Nat]
             /\ does = "debug_enable" => x.unlock_until = now + CMD_UNLOCK
             /\ does = "debug_disable" => x.unlock_until = 0
             /\ does \notin {"debug_enable", "debug_disable"} => x.unlock_until = ses[s].unlock_until
<1> DEFINE does == Table[NodeOf(s)][p.row].does
           x == Handled(s, p)
           types == IF p.args[1] = "ALL" THEN NtfTypes ELSE {p.args[1]}
           on(i) == EnumIndex(OffOn.enums, p.args[i]) = 1
           Kind == [echo : BOOLEAN, notify : SUBSET NtfTypes, unlock_until : Nat]
           noted == IF on(2) THEN ses[s].notify \cup types ELSE ses[s].notify \ types
           on1 == on(1)
<1>1. ses[s] \in Kind
  BY StoredTypes
<1>0. now + CMD_UNLOCK \in Nat
  <2>1. now \in Nat
    BY StoredTypes
  <2> QED  BY <2>1, UnlockLength
<1>2. does = "notify" /\ p.verb = "SET" => types \subseteq NtfTypes
  BY WindowAnswers DEF MayAccept
<1>3. does = "notify" /\ p.verb = "SET" => noted \in SUBSET NtfTypes
  BY <1>1, <1>2
<1>4. on1 \in BOOLEAN
  BY Zenon
<1>5. x = CASE does = "echo" /\ p.verb = "SET"   -> [ses[s] EXCEPT !.echo = on1]
            [] does = "notify" /\ p.verb = "SET" -> [ses[s] EXCEPT !.notify = noted]
            [] does = "debug_enable"             -> [ses[s] EXCEPT !.unlock_until = now + CMD_UNLOCK]
            [] does = "debug_disable"            -> [ses[s] EXCEPT !.unlock_until = 0]
            [] OTHER                             -> ses[s]
  BY DEF Handled
<1> HIDE DEF does, noted, types, on1, x
<1>6. CASE does = "echo" /\ p.verb = "SET"
  <2>1. x = [ses[s] EXCEPT !.echo = on1]
    BY <1>5, <1>6
  <2> QED  BY <1>1, <1>4, <1>6, <2>1 DEF x, does
<1>7. CASE does = "notify" /\ p.verb = "SET"
  <2>1. x = [ses[s] EXCEPT !.notify = noted]
    BY <1>5, <1>7
  <2> QED  BY <1>1, <1>3, <1>7, <2>1 DEF x, does
<1>8. CASE does = "debug_enable"
  <2>1. x = [ses[s] EXCEPT !.unlock_until = now + CMD_UNLOCK]
    BY <1>5, <1>8
  <2> QED  BY <1>0, <1>1, <1>8, <2>1 DEF x, does
<1>9. CASE does = "debug_disable"
  <2>1. x = [ses[s] EXCEPT !.unlock_until = 0]
    BY <1>5, <1>9
  <2>2. x \in Kind /\ x.unlock_until = 0
    BY <1>1, <2>1
  <2> QED  BY <1>9, <2>2 DEF x, does
<1>10. CASE /\ ~ (does = "echo" /\ p.verb = "SET") /\ ~ (does = "notify" /\ p.verb = "SET")
            /\ does \notin {"debug_enable", "debug_disable"}
  <2>1. x = ses[s]
    BY <1>5, <1>10
  <2> QED  BY <1>1, <1>10, <2>1 DEF x, does
<1> QED  BY <1>6, <1>7, <1>8, <1>9, <1>10 DEF x, does

LEMMA RenewedSession ==
  ASSUME NEW t \in Nat, t = now, NEW x \in [echo : BOOLEAN, notify : SUBSET NtfTypes, unlock_until : Nat]
  PROVE  /\ Renewed(x) \in [echo : BOOLEAN, notify : SUBSET NtfTypes, unlock_until : Nat]
         /\ x.unlock_until > now => Renewed(x).unlock_until = now + CMD_UNLOCK
         /\ x.unlock_until <= now => Renewed(x).unlock_until = x.unlock_until
<1>1. now + CMD_UNLOCK \in Nat /\ x.unlock_until \in Nat
  BY SessionNames
<1>2. CASE x.unlock_until > now
  <2>1. Renewed(x) = [x EXCEPT !.unlock_until = now + CMD_UNLOCK]
    BY <1>2 DEF Renewed
  <2> QED  BY <1>1, <1>2, <2>1
<1>3. CASE ~ (x.unlock_until > now)
  <2>1. Renewed(x) = x
    BY <1>3 DEF Renewed
  <2> QED  BY <1>1, <1>3, <2>1
<1> QED  BY <1>2, <1>3

-----------------------------------------------------------------------------
(* Commands: a row that destroys is found only by a line that says CONFIRM.  *)
(* Every row of the tables that destroys has CONFIRM as its last argument    *)
(* and must be given all of them; a word for that argument is the word       *)
(* itself; and no step from the line to the arguments makes a word.          *)

(* A sequence, whatever its elements; and these.                            *)
SomeSeq(w) == \E S : w \in Seq(S)
Words(w) == {w[i] : i \in 1 .. Len(w)}

LEMMA SeqShape ==
  ASSUME NEW w, SomeSeq(w)
  PROVE  Len(w) \in Nat /\ DOMAIN w = 1 .. Len(w) /\ \A i \in 1 .. Len(w) : w[i] \in Words(w)
<1>1. PICK S : w \in Seq(S)
  BY DEF SomeSeq
<1> QED  BY <1>1, LenProperties DEF Words

LEMMA Joined ==
  ASSUME NEW a, NEW b, SomeSeq(a), SomeSeq(b)
  PROVE  SomeSeq(a \o b) /\ Words(a \o b) \subseteq Words(a) \cup Words(b)
<1>1. PICK S : a \in Seq(S)
  BY DEF SomeSeq
<1>2. PICK T : b \in Seq(T)
  BY DEF SomeSeq
<1> DEFINE U == S \cup T
<1>3. a \in Seq(U) /\ b \in Seq(U)
  BY <1>1, <1>2, SeqMonotonic
<1> HIDE DEF U
<1>4. /\ a \o b \in Seq(U) /\ Len(a \o b) = Len(a) + Len(b) /\ Len(a) \in Nat /\ Len(b) \in Nat
      /\ \A i \in 1 .. Len(a) + Len(b) : (a \o b)[i] = IF i <= Len(a) THEN a[i] ELSE b[i - Len(a)]
  BY <1>3, ConcatProperties, LenProperties
<1>5. SomeSeq(a \o b)
  BY <1>4 DEF SomeSeq
<1>6. ASSUME NEW i \in 1 .. Len(a) + Len(b) PROVE (a \o b)[i] \in Words(a) \cup Words(b)
  <2>1. CASE i <= Len(a)
    <3>1. i \in 1 .. Len(a) /\ (a \o b)[i] = a[i]
      BY <1>4, <2>1
    <3> QED  BY <3>1 DEF Words
  <2>2. CASE ~ (i <= Len(a))
    <3>1. i - Len(a) \in 1 .. Len(b) /\ (a \o b)[i] = b[i - Len(a)]
      BY <1>4, <2>2
    <3> QED  BY <3>1 DEF Words
  <2> QED  BY <2>1, <2>2
<1> QED  BY <1>4, <1>5, <1>6 DEF Words

LEMMA Cut ==
  ASSUME NEW w, SomeSeq(w), NEW m \in Nat \ {0}, NEW n \in Int, n <= Len(w)
  PROVE  SomeSeq(SubSeq(w, m, n)) /\ Words(SubSeq(w, m, n)) \subseteq Words(w)
<1>1. Len(w) \in Nat /\ \A i \in 1 .. Len(w) : w[i] \in Words(w)
  BY SeqShape
<1>2. \A i \in m .. n : w[i] \in Words(w)
  BY <1>1
<1>3. SubSeq(w, m, n) \in Seq(Words(w))
  BY <1>2, SubSeqProperties
<1>4. SomeSeq(SubSeq(w, m, n))
  BY <1>3 DEF SomeSeq
<1> DEFINE t == SubSeq(w, m, n)
<1>5. \A i \in 1 .. Len(t) : t[i] \in Words(w)
  BY <1>3, ElementOfSeq
<1> HIDE DEF t
<1>6. Words(t) \subseteq Words(w)
  BY <1>5 DEF Words
<1> QED  BY <1>4, <1>6 DEF t

LEMMA OneWordSeq == \A x : SomeSeq(<<x>>) /\ Words(<<x>>) = {x}
<1> TAKE x
<1>1. <<x>> \in Seq({x}) /\ Len(<<x>>) = 1 /\ <<x>>[1] = x
  OBVIOUS
<1> DEFINE t == <<x>>
<1>2. \A i \in 1 .. Len(t) : t[i] = x
  BY <1>1
<1>3. 1 \in 1 .. Len(t) /\ t[1] = x
  BY <1>1
<1>4. SomeSeq(t)
  BY <1>1 DEF SomeSeq
<1> HIDE DEF t
<1>5. Words(t) = {x}
  BY <1>2, <1>3 DEF Words
<1> QED  BY <1>4, <1>5 DEF t

LEMMA NoWordSeq == SomeSeq(<<>>) /\ Words(<<>>) = {}
<1>1. <<>> \in Seq({}) /\ Len(<<>>) = 0
  OBVIOUS
<1> QED  BY <1>1 DEF SomeSeq, Words

(* What is left of a line of the words of w.                                 *)
Remains(to, w) ==
  DOMAIN to = {"away", "words", "err"} /\ SomeSeq(to.words) /\ Words(to.words) \subseteq Words(w)

LEMMA UnprefixedRemains ==
  ASSUME NEW s, NEW to, NEW w, Remains(to, w)
  PROVE  Remains(Unprefixed(s, to), w)
<1> DEFINE u    == to.words
           rest == Rest(u, 4)
           cut  == <<u[1]>> \o rest
           tail == [to EXCEPT !.words = cut]
           far  == [tail EXCEPT !.away = TRUE]
           Fail(e) == [to EXCEPT !.err = e]
<1>1. SomeSeq(u) /\ Words(u) \subseteq Words(w) /\ Len(u) \in Nat
  BY SeqShape DEF Remains
<1>2. \A e : Remains(Fail(e), w)
  BY DEF Remains
<1>3. CASE Len(u) >= 4
  <2>1. SomeSeq(rest) /\ Words(rest) \subseteq Words(u)
    BY <1>1, Cut DEF Rest
  <2>2. u[1] \in Words(u)
    BY <1>1, <1>3 DEF Words
  <2> HIDE DEF rest
  <2>3. SomeSeq(cut) /\ Words(cut) \subseteq Words(w)
    BY <1>1, <2>1, <2>2, Joined, OneWordSeq
  <2> HIDE DEF cut, u
  <2>4. Remains(tail, w) /\ Remains(far, w)
    BY <2>3 DEF Remains
  <2> HIDE DEF tail, far, Fail
  <2>5. Unprefixed(s, to) \in {to, tail, far} \cup {Fail(e) : e \in {"BAD_ARGS", "OUT_OF_RANGE", "ZONE_UNKNOWN", "WRONG_ZONE"}}
    BY Zenon DEF Unprefixed, tail, far, Fail, cut, rest, u
  <2> QED  BY <1>2, <2>4, <2>5
<1>4. CASE ~ (Len(u) >= 4)
  <2>1. Len(u) < 4
    BY <1>1, <1>4
  <2> HIDE DEF tail, Fail
  <2>2. Unprefixed(s, to) \in {to} \cup {Fail(e) : e \in {"BAD_ARGS", "OUT_OF_RANGE"}}
    BY <2>1, Zenon DEF Unprefixed, tail, far, Fail, cut, rest, u
  <2> QED  BY <1>2, <2>2
<1> QED  BY <1>3, <1>4

LEMMA LeastNat ==
  ASSUME NEW T \in SUBSET Nat, T # {}
  PROVE  \E n \in T : \A k \in T : n <= k
<1> DEFINE R == {pair \in Nat \X Nat : pair[1] < pair[2]}
<1>1. IsWellFoundedOn(R, Nat)
  BY NatLessThanWellFounded DEF OpToRel
<1>2. \A k, n \in Nat : k < n => <<k, n>> \in R
  OBVIOUS
<1> HIDE DEF R
<1>3. PICK n \in T : \A k \in T : <<k, n>> \notin R
  BY <1>1, WFMin
<1>4. ASSUME NEW k \in T PROVE n <= k
  <2>1. k \in Nat /\ n \in Nat /\ ~ (k < n)
    BY <1>2, <1>3
  <2> QED  BY <2>1
<1> QED  BY <1>4

(* The chain of what prefixes leave of a line exists, and every link of it   *)
(* remains of that line.                                                     *)
LEMMA AddressedRemains ==
  ASSUME NEW s, NEW w, SomeSeq(w)
  PROVE  Remains(Addressed(s, w), w)
<1> DEFINE start == [away |-> FALSE, words |-> w, err |-> ""]
           Chain(f, m) == f = [k \in 0 .. m |-> IF k = 0 THEN start ELSE Unprefixed(s, f[k - 1])]
           Short == {m \in Nat : ~ \E f : Chain(f, m)}
<1>1. \E f : Chain(f, 0)
  <2>1. Chain([k \in 0 .. 0 |-> start], 0)
    OBVIOUS
  <2> QED  BY <2>1
<1>2. ASSUME NEW m \in Nat, NEW f, Chain(f, m) PROVE \E g : Chain(g, m + 1)
  <2> DEFINE g == [k \in 0 .. m + 1 |-> IF k = m + 1 THEN Unprefixed(s, f[m]) ELSE f[k]]
  <2> HIDE DEF start
  <2>1. \A k \in 0 .. m : f[k] = IF k = 0 THEN start ELSE Unprefixed(s, f[k - 1])
    BY <1>2
  <2>2. ASSUME NEW k \in 0 .. m + 1 PROVE g[k] = IF k = 0 THEN start ELSE Unprefixed(s, g[k - 1])
    <3>1. CASE k = m + 1
      BY <3>1
    <3>2. CASE k = 0
      BY <2>1, <3>2
    <3>3. CASE k # 0 /\ k # m + 1
      <4>1. k \in 0 .. m /\ k - 1 \in 0 .. m /\ k - 1 # m + 1
        BY <3>3
      <4> QED  BY <2>1, <3>3, <4>1
    <3> QED  BY <3>1, <3>2, <3>3
  <2>3. DOMAIN g = 0 .. m + 1
    OBVIOUS
  <2>4. g = [k \in 0 .. m + 1 |-> g[k]]
    OBVIOUS
  <2> HIDE DEF g
  <2>5. Chain(g, m + 1)
    BY <2>2, <2>4
  <2> QED  BY <2>5
<1>3. Short = {}
  <2> SUFFICES ASSUME Short # {} PROVE FALSE
    OBVIOUS
  <2> HIDE DEF Chain
  <2>1. PICK m \in Short : \A k \in Short : m <= k
    BY LeastNat
  <2>2. m # 0 /\ m \in Nat
    BY <1>1, <2>1
  <2>3. m - 1 \in Nat /\ m - 1 \notin Short
    BY <2>1, <2>2
  <2>4. PICK f : Chain(f, m - 1)
    BY <2>3
  <2>5. \E g : Chain(g, m)
    BY <1>2, <2>2, <2>3, <2>4
  <2> QED  BY <2>1, <2>5
<1> DEFINE hops == CHOOSE f : Chain(f, Len(w))
<1>4. Len(w) \in Nat
  BY SeqShape
<1>5. Chain(hops, Len(w))
  <2>1. \E f : Chain(f, Len(w))
    BY <1>3, <1>4
  <2> HIDE DEF Chain
  <2> QED  BY <2>1
<1>6. Addressed(s, w) = hops[Len(w)]
  BY DEF Addressed
<1> DEFINE Lost == {k \in 0 .. Len(w) : ~ Remains(hops[k], w)}
<1> HIDE DEF hops
<1>7. \A k \in 0 .. Len(w) : hops[k] = IF k = 0 THEN start ELSE Unprefixed(s, hops[k - 1])
  <2> HIDE DEF start
  <2> QED  BY <1>5
<1>8. Remains(start, w)
  BY DEF Remains
<1> HIDE DEF start
<1>9. Lost = {}
  <2> SUFFICES ASSUME Lost # {} PROVE FALSE
    OBVIOUS
  <2>1. Lost \in SUBSET Nat
    BY <1>4
  <2>2. PICK k \in Lost : \A j \in Lost : k <= j
    BY <2>1, LeastNat
  <2>3. k # 0
    BY <1>7, <1>8, <2>2
  <2>4. k - 1 \in 0 .. Len(w) /\ k - 1 \notin Lost
    BY <1>4, <2>2, <2>3
  <2>5. Remains(hops[k - 1], w)
    BY <2>4
  <2>6. hops[k] = Unprefixed(s, hops[k - 1])
    BY <1>7, <2>2, <2>3
  <2> QED  BY <2>2, <2>5, <2>6, UnprefixedRemains
<1> QED  BY <1>4, <1>6, <1>9

(* The first of a set of places, if there is one.                            *)
LEMMA FirstFound ==
  ASSUME NEW hits \in SUBSET Nat
  PROVE  hits # {} => First(hits) \in hits
<1> SUFFICES ASSUME hits # {} PROVE First(hits) \in hits
  OBVIOUS
<1>1. \E i \in hits : \A j \in hits : i <= j
  BY LeastNat
<1> QED  BY <1>1 DEF First

LEMMA EnumOfOne == \A w : EnumIndex(<<"CONFIRM">>, w) \in Int /\ EnumIndex(<<"CONFIRM">>, w) >= 0 => w = "CONFIRM"
<1> TAKE w
<1> DEFINE e == <<"CONFIRM">>
<1>1. DOMAIN e = {1} /\ e[1] = "CONFIRM" /\ Len(e) = 1
  OBVIOUS
<1> HIDE DEF e
<1>2. ~ (Len(e) > 1)
  BY <1>1
<1>3. CASE \E i \in DOMAIN e : e[i] = w
  BY <1>1, <1>3
<1>4. CASE ~ \E i \in DOMAIN e : e[i] = w
  <2>1. EnumIndex(e, w) = -1
    BY <1>2, <1>4 DEF EnumIndex
  <2> QED  BY <2>1 DEF e
<1> QED  BY <1>3, <1>4

LEMMA ConfirmedWord == \A w : ArgError(Confirm, w) = "" => w = "CONFIRM"
<1> TAKE w
<1>1. Confirm.type = "enum" /\ Confirm.enums = <<"CONFIRM">>
  BY DEF Confirm, Enum, Arg
<1>2. CASE w = "CONFIRM"
  BY <1>2
<1>3. CASE w # "CONFIRM"
  <2> DEFINE c == Confirm
  <2>1. EnumIndex(c.enums, w) = -1
    <3> DEFINE e == <<"CONFIRM">>
    <3>1. DOMAIN e = {1} /\ e[1] = "CONFIRM" /\ Len(e) = 1
      OBVIOUS
    <3> HIDE DEF e
    <3>2. ~ (Len(e) > 1) /\ ~ \E i \in DOMAIN e : e[i] = w
      BY <1>3, <3>1
    <3>3. EnumIndex(e, w) = -1
      BY <3>2 DEF EnumIndex
    <3> QED  BY <1>1, <3>3 DEF e
  <2>2. EnumIndex(c.enums, w) < 0
    BY <2>1
  <2> HIDE DEF c
  <2>3. c.type = "enum"
    BY <1>1 DEF c
  <2>4. ArgError(c, w) = "BAD_ARGS"
    BY <2>2, <2>3, Zenon DEF ArgError
  <2> QED  BY <2>4 DEF c
<1> QED  BY <1>2, <1>3

LEMMA MatchSound ==
  ASSUME NEW t, NEW v, NEW noun1, NEW noun2, DOMAIN t \in SUBSET (Nat \ {0}), Match(t, v, noun1, noun2) # 0
  PROVE  Match(t, v, noun1, noun2) \in DOMAIN t /\ v \in t[Match(t, v, noun1, noun2)].verbs
<1> DEFINE hits == {i \in DOMAIN t : v \in t[i].verbs /\ t[i].noun1 = noun1 /\ t[i].noun2 = noun2}
<1>1. hits \in SUBSET Nat
  OBVIOUS
<1>2. Match(t, v, noun1, noun2) = First(hits)
  BY DEF Match
<1> HIDE DEF hits
<1>3. hits # {}
  BY <1>2 DEF First
<1>4. First(hits) \in hits
  BY <1>1, <1>3, FirstFound
<1> QED  BY <1>2, <1>4 DEF hits

LEMMA PrefixLength == \A v : Len(Prefix(v)) \in {0, 1}
BY DEF Prefix

LEMMA FindSound ==
  ASSUME NEW t, NEW v, NEW w, SomeSeq(w), DOMAIN t \in SUBSET (Nat \ {0}), Find(t, v, w).row # 0,
         Len(w) >= Len(Prefix(v)) + 1
  PROVE  /\ Find(t, v, w).row \in DOMAIN t /\ v \in t[Find(t, v, w).row].verbs
         /\ SomeSeq(Find(t, v, w).args) /\ Words(Find(t, v, w).args) \subseteq Words(w)
<1> DEFINE at       == Len(Prefix(v)) + 1
           adjacent == IF Len(w) > at THEN Match(t, v, w[at], w[at + 1]) ELSE 0
           split    == IF Len(w) > at + 1 THEN Match(t, v, w[at], w[at + 2]) ELSE 0
           one      == Match(t, v, w[at], "")
           a        == [row |-> adjacent, args |-> Rest(w, at + 2)]
           b        == [row |-> split, args |-> <<w[at + 1]>> \o Rest(w, at + 3)]
           c        == [row |-> one, args |-> Rest(w, at + 1)]
           Good(f)  == /\ f.row \in DOMAIN t /\ v \in t[f.row].verbs
                       /\ SomeSeq(f.args) /\ Words(f.args) \subseteq Words(w)
<1>1. at \in {1, 2} /\ Len(w) \in Nat
  <2>1. Len(w) \in Nat
    BY SeqShape
  <2>2. Len(Prefix(v)) \in {0, 1}
    BY PrefixLength
  <2>3. \A k \in {0, 1} : k + 1 \in {1, 2}
    OBVIOUS
  <2> QED  BY <2>1, <2>2, <2>3, Zenon
<1>2. Find(t, v, w) = IF adjacent # 0 THEN a ELSE IF split # 0 THEN b ELSE c
  BY Zenon DEF Find
<1> HIDE DEF at
<1>3. \A k \in 1 .. 3 : SomeSeq(Rest(w, at + k)) /\ Words(Rest(w, at + k)) \subseteq Words(w)
  BY <1>1, Cut DEF Rest
<1>4. ASSUME adjacent # 0 PROVE Good(a)
  <2>1. adjacent = Match(t, v, w[at], w[at + 1])
    BY <1>4
  <2>2. adjacent \in DOMAIN t /\ v \in t[adjacent].verbs
    BY <1>4, <2>1, MatchSound
  <2> HIDE DEF adjacent
  <2> QED  BY <1>1, <1>3, <2>2
<1>5. ASSUME split # 0 PROVE Good(b)
  <2>1. split = Match(t, v, w[at], w[at + 2]) /\ Len(w) > at + 1
    BY <1>5
  <2>2. split \in DOMAIN t /\ v \in t[split].verbs
    BY <1>5, <2>1, MatchSound
  <2>3. w[at + 1] \in Words(w)
    BY <1>1, <2>1 DEF Words
  <2> DEFINE rest == Rest(w, at + 3)
             args == <<w[at + 1]>> \o rest
  <2>4. SomeSeq(rest) /\ Words(rest) \subseteq Words(w)
    BY <1>3
  <2> HIDE DEF split, rest
  <2>5. SomeSeq(args) /\ Words(args) \subseteq Words(w)
    BY <2>3, <2>4, OneWordSeq, Joined
  <2> HIDE DEF args
  <2>6. b = [row |-> split, args |-> args]
    BY DEF args, rest
  <2> HIDE DEF b
  <2> QED  BY <2>2, <2>5, <2>6
<1>6. ASSUME one # 0 PROVE Good(c)
  <2>1. one \in DOMAIN t /\ v \in t[one].verbs
    BY <1>6, MatchSound
  <2> HIDE DEF one
  <2> QED  BY <1>1, <1>3, <2>1
<1>7. c.row = one
  OBVIOUS
<1> HIDE DEF a, b, c, adjacent, split, one
<1>8. one # 0 \/ adjacent # 0 \/ split # 0
  BY <1>2, <1>7
<1>9. Good(Find(t, v, w))
  BY <1>2, <1>4, <1>5, <1>6, <1>7, <1>8
<1> QED  BY <1>9

Confirming(row) ==
  /\ row.n_key \in Nat /\ row.min_args \in Nat /\ Len(row.args) \in Nat
  /\ row.does \in Destructive =>
       /\ "GET" \notin row.verbs /\ row.min_args = Len(row.args) /\ Len(row.args) > 0
       /\ row.args[Len(row.args)] = Confirm

LEMMA EntryHarmless ==
  ASSUME NEW verbs, NEW noun1, NEW noun2, NEW args, NEW n_key \in Nat, NEW min_args \in Nat, NEW flags, NEW does,
         Len(args) \in Nat, does \notin Destructive
  PROVE  Confirming(Entry(verbs, noun1, noun2, args, n_key, min_args, flags, does))
BY DEF Confirming, Entry

LEMMA EntryConfirms ==
  ASSUME NEW verbs, NEW noun1, NEW noun2, NEW args, NEW n_key \in Nat, NEW min_args \in Nat, NEW flags, NEW does,
         Len(args) \in Nat \ {0}, "GET" \notin verbs, min_args = Len(args), args[Len(args)] = Confirm
  PROVE  Confirming(Entry(verbs, noun1, noun2, args, n_key, min_args, flags, does))
BY DEF Confirming, Entry

LEMMA LastArgs ==
  /\ Len(<<Confirm>>) = 1 /\ <<Confirm>>[1] = Confirm
  /\ Len(<<Zone, Confirm>>) = 2 /\ <<Zone, Confirm>>[2] = Confirm
  /\ Len(<<Shelf, Enum(<<"A", "B">>), Enum(<<"DRY", "WET">>), Num(0, 3300)>>) = 4
  /\ "GET" \notin {"SET"} /\ "GET" \notin {"BARE"}
OBVIOUS

LEMMA TrialRows == \A i \in DOMAIN OTA_TRIAL_ROWS : Confirming(OTA_TRIAL_ROWS[i])
<1>1. Confirming(OTA_TRIAL_ROWS[1])
  <2> DEFINE r == OTA_TRIAL_ROWS[1]
  <2>1. r.n_key = 0 /\ r.min_args = 1 /\ r.args = <<Confirm>> /\ r.verbs = {"SET"}
    BY DEF OTA_TRIAL_ROWS, Entry
  <2> HIDE DEF r
  <2> QED  BY <2>1, LastArgs DEF Confirming, Destructive, r
<1>2. DOMAIN OTA_TRIAL_ROWS = 1 .. 1
  BY DEF OTA_TRIAL_ROWS
<1> QED  BY <1>1, <1>2

LEMMA PanelRows == \A i \in DOMAIN PANEL_CMD_ROWS : Confirming(PANEL_CMD_ROWS[i])
<1>1. Confirming(PANEL_CMD_ROWS[1])
  <2> DEFINE r == PANEL_CMD_ROWS[1]
  <2>1. r.n_key = 0 /\ r.min_args = 1 /\ r.args = <<Confirm>> /\ r.verbs = {"BARE"}
    BY DEF PANEL_CMD_ROWS, Entry
  <2> HIDE DEF r
  <2> QED  BY <2>1, LastArgs DEF Confirming, Destructive, r
<1>2. DOMAIN PANEL_CMD_ROWS = 1 .. 1
  BY DEF PANEL_CMD_ROWS
<1> QED  BY <1>1, <1>2

LEMMA CommonRows == \A i \in DOMAIN CMD_COMMON_ROWS : Confirming(CMD_COMMON_ROWS[i])
<1>1. Confirming(CMD_COMMON_ROWS[1]) /\ Confirming(CMD_COMMON_ROWS[2])
  BY DEF CMD_COMMON_ROWS, Confirming, Entry, Destructive
<1>2. Confirming(CMD_COMMON_ROWS[3]) /\ Confirming(CMD_COMMON_ROWS[4])
  BY DEF CMD_COMMON_ROWS, Confirming, Entry, Destructive
<1>3. Confirming(CMD_COMMON_ROWS[5]) /\ Confirming(CMD_COMMON_ROWS[6])
  BY DEF CMD_COMMON_ROWS, Confirming, Entry, Destructive
<1>4. Confirming(CMD_COMMON_ROWS[7]) /\ Confirming(CMD_COMMON_ROWS[8])
  BY DEF CMD_COMMON_ROWS, Confirming, Entry, Destructive
<1>5. Confirming(CMD_COMMON_ROWS[9]) /\ Confirming(CMD_COMMON_ROWS[10])
  BY DEF CMD_COMMON_ROWS, Confirming, Entry, Destructive
<1>6. Confirming(CMD_COMMON_ROWS[11]) /\ Confirming(CMD_COMMON_ROWS[12])
  BY DEF CMD_COMMON_ROWS, Confirming, Entry, Destructive
<1>7. Confirming(CMD_COMMON_ROWS[15]) /\ Confirming(CMD_COMMON_ROWS[17])
  BY DEF CMD_COMMON_ROWS, Confirming, Entry, Destructive
<1>8. Confirming(CMD_COMMON_ROWS[13])
  <2> DEFINE r == CMD_COMMON_ROWS[13]
  <2>1. r.n_key = 0 /\ r.min_args = 1 /\ r.args = <<Confirm>> /\ r.verbs = {"BARE"}
    BY DEF CMD_COMMON_ROWS, Entry
  <2> HIDE DEF r
  <2> QED  BY <2>1, LastArgs DEF Confirming, Destructive, r
<1>9. Confirming(CMD_COMMON_ROWS[14])
  <2> DEFINE r == CMD_COMMON_ROWS[14]
  <2>1. r.n_key = 0 /\ r.min_args = 1 /\ r.args = <<Confirm>> /\ r.verbs = {"BARE"}
    BY DEF CMD_COMMON_ROWS, Entry
  <2> HIDE DEF r
  <2> QED  BY <2>1, LastArgs DEF Confirming, Destructive, r
<1>10. Confirming(CMD_COMMON_ROWS[16])
  <2> DEFINE r == CMD_COMMON_ROWS[16]
  <2>1. r.n_key = 0 /\ r.min_args = 1 /\ r.args = <<Confirm>> /\ r.verbs = {"SET"}
    BY DEF CMD_COMMON_ROWS, Entry
  <2> HIDE DEF r
  <2> QED  BY <2>1, LastArgs DEF Confirming, Destructive, r
<1>11. DOMAIN CMD_COMMON_ROWS = 1 .. 17
  BY DEF CMD_COMMON_ROWS
<1> QED  BY <1>1, <1>2, <1>3, <1>4, <1>5, <1>6, <1>7, <1>8, <1>9, <1>10, <1>11

LEMMA MasterRows == \A i \in DOMAIN MASTER_CMD_ROWS : Confirming(MASTER_CMD_ROWS[i])
<1>1. Confirming(MASTER_CMD_ROWS[1]) /\ Confirming(MASTER_CMD_ROWS[2])
  BY DEF MASTER_CMD_ROWS, Confirming, Entry, Destructive
<1>2. Confirming(MASTER_CMD_ROWS[3]) /\ Confirming(MASTER_CMD_ROWS[4])
  BY DEF MASTER_CMD_ROWS, Confirming, Entry, Destructive
<1>3. Confirming(MASTER_CMD_ROWS[5]) /\ Confirming(MASTER_CMD_ROWS[7])
  BY DEF MASTER_CMD_ROWS, Confirming, Entry, Destructive
<1>4. Confirming(MASTER_CMD_ROWS[8]) /\ Confirming(MASTER_CMD_ROWS[9])
  BY DEF MASTER_CMD_ROWS, Confirming, Entry, Destructive
<1>5. Confirming(MASTER_CMD_ROWS[11]) /\ Confirming(MASTER_CMD_ROWS[12])
  BY DEF MASTER_CMD_ROWS, Confirming, Entry, Destructive
<1>6. Confirming(MASTER_CMD_ROWS[13]) /\ Confirming(MASTER_CMD_ROWS[14])
  BY DEF MASTER_CMD_ROWS, Confirming, Entry, Destructive
<1>7. Confirming(MASTER_CMD_ROWS[15]) /\ Confirming(MASTER_CMD_ROWS[16])
  BY DEF MASTER_CMD_ROWS, Confirming, Entry, Destructive
<1>8. Confirming(MASTER_CMD_ROWS[17])
  BY DEF MASTER_CMD_ROWS, Confirming, Entry, Destructive
<1>9. Confirming(MASTER_CMD_ROWS[6])
  <2> DEFINE r == MASTER_CMD_ROWS[6]
  <2>1. r.n_key = 0 /\ r.min_args = 2 /\ r.args = <<Zone, Confirm>> /\ r.verbs = {"BARE"}
    BY DEF MASTER_CMD_ROWS, Entry
  <2> HIDE DEF r
  <2> QED  BY <2>1, LastArgs DEF Confirming, Destructive, r
<1>10. Confirming(MASTER_CMD_ROWS[10])
  <2> DEFINE r == MASTER_CMD_ROWS[10]
  <2>1. r.n_key = 0 /\ r.min_args = 1 /\ r.args = <<Confirm>> /\ r.verbs = {"SET"}
    BY DEF MASTER_CMD_ROWS, Entry
  <2> HIDE DEF r
  <2> QED  BY <2>1, LastArgs DEF Confirming, Destructive, r
<1>11. DOMAIN MASTER_CMD_ROWS = 1 .. 17
  BY DEF MASTER_CMD_ROWS
<1> QED  BY <1>1, <1>2, <1>3, <1>4, <1>5, <1>6, <1>7, <1>8, <1>9, <1>10, <1>11

LEMMA ZoneRows == \A i \in DOMAIN ZONE_CMD_ROWS : Confirming(ZONE_CMD_ROWS[i])
<1>1. Confirming(ZONE_CMD_ROWS[1]) /\ Confirming(ZONE_CMD_ROWS[2])
  BY DEF ZONE_CMD_ROWS, Confirming, Entry, Destructive, Keyed
<1>2. Confirming(ZONE_CMD_ROWS[3]) /\ Confirming(ZONE_CMD_ROWS[4])
  BY DEF ZONE_CMD_ROWS, Confirming, Entry, Destructive, Keyed
<1>3. Confirming(ZONE_CMD_ROWS[5]) /\ Confirming(ZONE_CMD_ROWS[6])
  BY DEF ZONE_CMD_ROWS, Confirming, Entry, Destructive, Keyed
<1>4. Confirming(ZONE_CMD_ROWS[7]) /\ Confirming(ZONE_CMD_ROWS[8])
  BY DEF ZONE_CMD_ROWS, Confirming, Entry, Destructive, Keyed
<1>5. Confirming(ZONE_CMD_ROWS[9]) /\ Confirming(ZONE_CMD_ROWS[10])
  BY DEF ZONE_CMD_ROWS, Confirming, Entry, Destructive, Keyed
<1>6. Confirming(ZONE_CMD_ROWS[11]) /\ Confirming(ZONE_CMD_ROWS[12])
  BY DEF ZONE_CMD_ROWS, Confirming, Entry, Destructive, Keyed
<1>7. Confirming(ZONE_CMD_ROWS[14])
  BY DEF ZONE_CMD_ROWS, Confirming, Entry, Destructive, Keyed
<1>8. Confirming(ZONE_CMD_ROWS[13])
  <2> DEFINE r == ZONE_CMD_ROWS[13]
  <2>1. /\ r.n_key = 1 /\ r.min_args = 4 /\ r.does = "cal"
        /\ r.args = <<Shelf, Enum(<<"A", "B">>), Enum(<<"DRY", "WET">>), Num(0, 3300)>>
    BY DEF ZONE_CMD_ROWS, Entry
  <2> HIDE DEF r
  <2> QED  BY <2>1, LastArgs DEF Confirming, Destructive, r
<1>9. DOMAIN ZONE_CMD_ROWS = 1 .. 14
  BY DEF ZONE_CMD_ROWS
<1> QED  BY <1>1, <1>2, <1>3, <1>4, <1>5, <1>6, <1>7, <1>8, <1>9

AllConfirming(t) == SomeSeq(t) /\ \A row \in Words(t) : Confirming(row)

LEMMA RowsJoined ==
  ASSUME NEW a, NEW b, AllConfirming(a), AllConfirming(b)
  PROVE  AllConfirming(a \o b)
<1>1. SomeSeq(a) /\ SomeSeq(b)
  BY DEF AllConfirming
<1>2. SomeSeq(a \o b) /\ Words(a \o b) \subseteq Words(a) \cup Words(b)
  BY <1>1, Joined
<1> QED  BY <1>2 DEF AllConfirming

LEMMA FunctionSeq ==
  ASSUME NEW n \in Nat, NEW t, DOMAIN t = 1 .. n, t = [i \in DOMAIN t |-> t[i]]
  PROVE  SomeSeq(t)
<1> DEFINE S == {t[i] : i \in 1 .. n}
<1>1. t \in [1 .. n -> S]
  OBVIOUS
<1> HIDE DEF S
<1>2. t \in Seq(S)
  BY <1>1
<1> QED  BY <1>2 DEF SomeSeq

LEMMA RowSequences ==
  /\ SomeSeq(CMD_COMMON_ROWS) /\ SomeSeq(MASTER_CMD_ROWS) /\ SomeSeq(ZONE_CMD_ROWS)
  /\ SomeSeq(OTA_TRIAL_ROWS) /\ SomeSeq(PANEL_CMD_ROWS)
<1>1. SomeSeq(CMD_COMMON_ROWS)
  <2>1. DOMAIN CMD_COMMON_ROWS = 1 .. 17 /\ CMD_COMMON_ROWS = [i \in DOMAIN CMD_COMMON_ROWS |-> CMD_COMMON_ROWS[i]]
    BY DEF CMD_COMMON_ROWS
  <2> QED  BY <2>1, FunctionSeq
<1>2. SomeSeq(MASTER_CMD_ROWS)
  <2>1. DOMAIN MASTER_CMD_ROWS = 1 .. 17 /\ MASTER_CMD_ROWS = [i \in DOMAIN MASTER_CMD_ROWS |-> MASTER_CMD_ROWS[i]]
    BY DEF MASTER_CMD_ROWS
  <2> QED  BY <2>1, FunctionSeq
<1>3. SomeSeq(ZONE_CMD_ROWS)
  <2>1. DOMAIN ZONE_CMD_ROWS = 1 .. 14 /\ ZONE_CMD_ROWS = [i \in DOMAIN ZONE_CMD_ROWS |-> ZONE_CMD_ROWS[i]]
    BY DEF ZONE_CMD_ROWS
  <2> QED  BY <2>1, FunctionSeq
<1>4. SomeSeq(OTA_TRIAL_ROWS)
  BY OneWordSeq DEF OTA_TRIAL_ROWS
<1>5. SomeSeq(PANEL_CMD_ROWS)
  BY OneWordSeq DEF PANEL_CMD_ROWS
<1> QED  BY <1>1, <1>2, <1>3, <1>4, <1>5

LEMMA RowsOf ==
  ASSUME NEW t, SomeSeq(t), \A i \in DOMAIN t : Confirming(t[i])
  PROVE  AllConfirming(t)
BY SeqShape DEF AllConfirming, Words

LEMMA TablesConfirm == \A n \in Nodes : AllConfirming(Table[n])
<1> SUFFICES ASSUME NEW n \in Nodes PROVE AllConfirming(Table[n])
  OBVIOUS
<1>1. /\ AllConfirming(CMD_COMMON_ROWS) /\ AllConfirming(MASTER_CMD_ROWS) /\ AllConfirming(ZONE_CMD_ROWS)
      /\ AllConfirming(OTA_TRIAL_ROWS) /\ AllConfirming(PANEL_CMD_ROWS)
  BY RowSequences, RowsOf, CommonRows, MasterRows, ZoneRows, TrialRows, PanelRows
<1>2. AllConfirming(CMD_COMMON_ROWS \o MASTER_CMD_ROWS \o OTA_TRIAL_ROWS \o PANEL_CMD_ROWS)
  BY <1>1, RowsJoined
<1>3. AllConfirming(CMD_COMMON_ROWS \o ZONE_CMD_ROWS \o OTA_TRIAL_ROWS)
  BY <1>1, RowsJoined
<1>4. Table[n] \in {CMD_COMMON_ROWS \o MASTER_CMD_ROWS \o OTA_TRIAL_ROWS \o PANEL_CMD_ROWS,
                    CMD_COMMON_ROWS \o ZONE_CMD_ROWS \o OTA_TRIAL_ROWS}
  BY Zenon DEF Table
<1> QED  BY <1>2, <1>3, <1>4

(* A destructive row that is found is given CONFIRM as its last argument.    *)
LEMMA ConfirmFound ==
  ASSUME NEW n \in Nodes, NEW s, NEW w, SomeSeq(w), NEW open,
         Runs(Parsed(n, s, w, open)),
         Table[n][Parsed(n, s, w, open).row].does \in Destructive
  PROVE  "CONFIRM" \in Words(w)
<1> DEFINE v    == IF w[1] \in {"SET", "GET"} THEN w[1] ELSE "BARE"
           hit  == Find(Table[n], v, w)
           row  == Table[n][hit.row]
           errs == [i \in DOMAIN hit.args |-> ArgError(row.args[i], hit.args[i])]
           bad  == First({i \in DOMAIN hit.args : errs[i] # ""})
           many == Len(hit.args) \notin Needed(row, v) .. Taken(row, v)
           fine == IF bad = 0 THEN "" ELSE errs[bad]
           err  == CASE "MASTER" \in row.flags /\ n # "master" -> "MASTER_ONLY"
                     [] "ZONE" \in row.flags /\ n # "zone"     -> "ZONE_ONLY"
                     [] "SESSION" \in row.flags /\ s = "web"   -> "NOT_LOCAL"
                     [] "UNLOCK" \in row.flags /\ ~open -> "LOCKED"
                     [] many -> "BAD_ARGS"
                     [] OTHER -> fine
           p    == Parsed(n, s, w, open)
           short == Len(w) < Len(Prefix(v)) + 1
<1>1. p = IF w = <<>> THEN Refused("EMPTY")
          ELSE IF w[Len(w)] = "HELP" THEN Refused(HelpReply(n, SubSeq(w, 1, Len(w) - 1)))
          ELSE IF short \/ hit.row = 0 THEN Refused("UNKNOWN_CMD")
          ELSE [err |-> err, row |-> hit.row, verb |-> v, args |-> hit.args]
  BY Zenon DEF Parsed
<1>2. \A e : Refused(e).row = 0
  BY DEF Refused
<1> HIDE DEF hit, fine, many, v
<1>3. err = "" => ~ many /\ fine = ""
  BY DEF err
<1> HIDE DEF err, row, p, short
<1>4. p.err = err /\ p.row = hit.row /\ ~ short /\ hit.row # 0
  <2>1. p.row # 0
    BY DEF p, Runs
  <2>2. p = [err |-> err, row |-> hit.row, verb |-> v, args |-> hit.args] /\ ~ short /\ hit.row # 0
    BY <1>1, <1>2, <2>1, Zenon
  <2> QED  BY <2>2
<1>5. err = "" /\ row.does \in Destructive
  BY <1>4 DEF p, row, Runs
<1>6. Len(w) \in Nat
  BY SeqShape
<1>7. Len(w) >= Len(Prefix(v)) + 1
  <2> DEFINE one == Len(Prefix(v))
  <2>1. one \in {0, 1}
    BY PrefixLength
  <2>2. ~ (Len(w) < one + 1)
    BY <1>4 DEF short
  <2> HIDE DEF one
  <2>3. Len(w) >= one + 1
    BY <1>6, <2>1, <2>2
  <2> QED  BY <2>3 DEF one
<1>8. AllConfirming(Table[n])
  BY TablesConfirm
<1>9. DOMAIN Table[n] \in SUBSET (Nat \ {0}) /\ \A i \in DOMAIN Table[n] : Confirming(Table[n][i])
  <2> DEFINE t == Table[n]
  <2>1. SomeSeq(t) /\ \A r \in Words(t) : Confirming(r)
    BY <1>8 DEF AllConfirming
  <2> HIDE DEF t
  <2>2. DOMAIN t = 1 .. Len(t) /\ Len(t) \in Nat
    BY <2>1, SeqShape
  <2>3. DOMAIN t \in SUBSET (Nat \ {0})
    BY <2>2
  <2>4. \A i \in DOMAIN t : Confirming(t[i])
    BY <2>1, <2>2 DEF Words
  <2> QED  BY <2>3, <2>4 DEF t
<1>10. hit.row \in DOMAIN Table[n] /\ v \in row.verbs /\ SomeSeq(hit.args) /\ Words(hit.args) \subseteq Words(w)
  BY <1>4, <1>7, <1>9, FindSound DEF hit, row
<1>11. Confirming(row)
  BY <1>9, <1>10 DEF row
<1> DEFINE args == hit.args
           k    == Len(row.args)
<1>12. v # "GET" /\ row.min_args = k /\ k \in Nat /\ k > 0 /\ row.args[k] = Confirm
  BY <1>5, <1>10, <1>11 DEF Confirming
<1>13. Needed(row, v) = k /\ Taken(row, v) = k
  BY <1>12 DEF Needed, Taken
<1>14. Len(args) = k
  <2>1. Len(args) \in Needed(row, v) .. Taken(row, v)
    BY <1>3, <1>5 DEF many
  <2> HIDE DEF k, args
  <2>2. Len(args) \in k .. k
    BY <1>13, <2>1, Zenon
  <2> QED  BY <1>12, <2>2
<1>15. DOMAIN args = 1 .. k
  BY <1>10, <1>14, SeqShape
<1> HIDE DEF args, k
<1>16. errs[k] = ArgError(Confirm, args[k]) /\ k \in DOMAIN args
  <2>1. k \in DOMAIN args
    BY <1>12, <1>15
  <2>2. errs[k] = ArgError(row.args[k], args[k])
    BY <2>1 DEF args
  <2> QED  BY <1>12, <2>1, <2>2
<1> DEFINE faults == {i \in DOMAIN hit.args : errs[i] # ""}
<1>17. faults \in SUBSET Nat /\ 0 \notin faults
  <2>1. faults \in SUBSET DOMAIN args
    BY DEF args
  <2> HIDE DEF faults
  <2> QED  BY <1>12, <1>15, <2>1
<1> HIDE DEF errs
<1>18. faults = {}
  <2> SUFFICES ASSUME faults # {} PROVE FALSE
    OBVIOUS
  <2>1. First(faults) \in faults
    BY <1>17, FirstFound
  <2> HIDE DEF faults
  <2>2. bad = First(faults)
    BY DEF faults
  <2> HIDE DEF bad
  <2>3. fine = errs[bad]
    BY <1>17, <2>1, <2>2 DEF fine
  <2>4. errs[bad] # ""
    BY <2>1, <2>2 DEF faults
  <2> QED  BY <1>3, <1>5, <2>3, <2>4
<1>19. errs[k] = ""
  BY <1>16, <1>18 DEF args
<1>20. args[k] = "CONFIRM"
  BY <1>16, <1>19, ConfirmedWord
<1>21. args[k] \in Words(args)
  <2>1. k \in 1 .. Len(args)
    BY <1>12, <1>14
  <2> QED  BY <2>1 DEF Words
<1> QED  BY <1>10, <1>20, <1>21 DEF args

LEMMA Appended == \A w, x : SomeSeq(w) => SomeSeq(Append(w, x))
<1> SUFFICES ASSUME NEW w, NEW x, SomeSeq(w) PROVE SomeSeq(Append(w, x))
  OBVIOUS
<1>1. PICK S : w \in Seq(S)
  BY DEF SomeSeq
<1>2. w \in Seq(S \cup {x})
  BY <1>1, SeqMonotonic
<1>3. Append(w, x) \in Seq(S \cup {x})
  BY <1>2, AppendProperties
<1> QED  BY <1>3 DEF SomeSeq

LEMMA UsageSeq ==
  ASSUME NEW row, NEW v, NEW args, SomeSeq(args), row.n_key \in Nat
  PROVE  SomeSeq(Usage(row, v, args))
<1> DEFINE keys == IF OneWord(row) THEN 0 ELSE IF row.n_key < Len(args) THEN row.n_key ELSE Len(args)
           mid  == SubSeq(args, 1, keys)
           noun == IF OneWord(row) THEN <<>> ELSE <<row.noun2>>
           last_ == Rest(args, keys + 1)
<1>1. Len(args) \in Nat
  BY SeqShape
<1>2. keys \in Nat /\ keys <= Len(args)
  <2> DEFINE one == OneWord(row)
  <2> HIDE DEF one
  <2>1. (IF one THEN 0 ELSE IF row.n_key < Len(args) THEN row.n_key ELSE Len(args)) \in 0 .. Len(args)
    BY <1>1
  <2>2. keys \in 0 .. Len(args)
    BY <2>1 DEF one
  <2> HIDE DEF keys
  <2> QED  BY <1>1, <2>2
<1> HIDE DEF keys
<1>3. SomeSeq(mid) /\ SomeSeq(last_)
  BY <1>1, <1>2, Cut DEF Rest
<1>4. SomeSeq(Prefix(v)) /\ SomeSeq(noun) /\ SomeSeq(<<row.noun1>>)
  BY OneWordSeq, NoWordSeq, Zenon DEF Prefix
<1>5. Usage(row, v, args) = Prefix(v) \o <<row.noun1>> \o mid \o noun \o last_
  BY Zenon DEF Usage, keys
<1> DEFINE head == <<row.noun1>>
<1> HIDE DEF mid, noun, last_, head
<1>6. SomeSeq(Prefix(v) \o head)
  BY <1>4, Joined DEF head
<1>7. SomeSeq(Prefix(v) \o head \o mid)
  BY <1>3, <1>6, Joined
<1>8. SomeSeq(Prefix(v) \o head \o mid \o noun)
  BY <1>4, <1>7, Joined
<1>9. SomeSeq(Prefix(v) \o head \o mid \o noun \o last_)
  BY <1>3, <1>8, Joined
<1> QED  BY <1>5, <1>9 DEF head

LEMMA ShownSeq == \A n \in Nodes : \A l \in Shown(n) : SomeSeq(l.words)
<1> SUFFICES ASSUME NEW n \in Nodes, NEW l \in Shown(n) PROVE SomeSeq(l.words)
  OBVIOUS
<1>1. PICK i \in DOMAIN Table[n] : \E w \in UNION {Fills(Table[n][i], v) : v \in Table[n][i].verbs} : l = Line(w, n, i)
  BY Zenon DEF Shown
<1>2. PICK w \in UNION {Fills(Table[n][i], v) : v \in Table[n][i].verbs} : l = Line(w, n, i)
  BY <1>1
<1> DEFINE row == Table[n][i]
<1>3. PICK v \in row.verbs : w \in Fills(row, v)
  BY <1>2
<1>4. Confirming(row)
  <2> DEFINE t == Table[n]
  <2>1. SomeSeq(t) /\ \A r \in Words(t) : Confirming(r)
    BY TablesConfirm DEF AllConfirming
  <2> HIDE DEF t
  <2>2. DOMAIN t = 1 .. Len(t)
    BY <2>1, SeqShape
  <2>3. \A j \in DOMAIN t : Confirming(t[j])
    BY <2>1, <2>2 DEF Words
  <2> QED  BY <2>3 DEF t
<1> HIDE DEF row
<1>5. PICK k \in Needed(row, v) .. Taken(row, v) :
        w \in {Usage(row, v, a) : a \in {x \in [1 .. k -> UNION {ArgWords(row.args[j]) : j \in 1 .. k}] :
                                     \A j \in 1 .. k : x[j] \in ArgWords(row.args[j])}}
  BY <1>3, Zenon DEF Fills
<1>6. PICK a \in [1 .. k -> UNION {ArgWords(row.args[j]) : j \in 1 .. k}] : w = Usage(row, v, a)
  BY <1>5, Zenon
<1>7. row.n_key \in Nat /\ row.min_args \in Nat /\ Len(row.args) \in Nat
  BY <1>4 DEF Confirming
<1>8. k \in Nat
  <2>1. Needed(row, v) \in Nat /\ Taken(row, v) \in Nat
    BY <1>7 DEF Needed, Taken
  <2> QED  BY <2>1
<1>9. SomeSeq(a)
  <2>1. DOMAIN a = 1 .. k /\ a = [j \in DOMAIN a |-> a[j]]
    OBVIOUS
  <2> QED  BY <1>8, <2>1, FunctionSeq
<1>10. SomeSeq(w)
  BY <1>6, <1>7, <1>9, UsageSeq
<1>11. l.words = w
  BY <1>2 DEF Line
<1> QED  BY <1>10, <1>11

LEMMA LinesSeq == \A n \in Nodes : \A l \in Lines[n] : SomeSeq(l.words)
<1> SUFFICES ASSUME NEW n \in Nodes, NEW l \in Lines[n] PROVE SomeSeq(l.words)
  OBVIOUS
<1>1. \A w, m, i : Line(w, m, i).words = w
  BY DEF Line
<1>2. \A w : SomeSeq(w) => \A x \in Mangled(w) : SomeSeq(x)
  <2> SUFFICES ASSUME NEW w, SomeSeq(w), NEW x \in Mangled(w) PROVE SomeSeq(x)
    OBVIOUS
  <2> DEFINE front == SubSeq(w, 1, Len(w) - 1)
  <2>1. Len(w) \in Nat
    BY SeqShape
  <2>2. SomeSeq(front)
    BY <2>1, Cut
  <2> HIDE DEF front
  <2>3. x \in {front, Append(front, "0"), Append(front, "overlong"), Append(w, "1"), Append(w, "HELP")}
    BY DEF Mangled, front
  <2> QED  BY <2>2, <2>3, Appended
<1>3. \A z, k, m, i : SomeSeq(k.words) => SomeSeq(To(z, k, m, i).words)
  <2> SUFFICES ASSUME NEW z, NEW k, NEW m, NEW i, SomeSeq(k.words) PROVE SomeSeq(To(z, k, m, i).words)
    OBVIOUS
  <2> DEFINE rest == Rest(k.words, 2)
             head == <<k.words[1], "ZONE", z>>
  <2>1. Len(k.words) \in Nat
    BY SeqShape
  <2>2. SomeSeq(rest)
    BY <2>1, Cut DEF Rest
  <2>3. DOMAIN head = 1 .. 3 /\ head = [j \in DOMAIN head |-> head[j]]
    OBVIOUS
  <2> HIDE DEF rest, head
  <2>4. SomeSeq(head)
    BY <2>3, FunctionSeq
  <2>5. To(z, k, m, i).words = head \o rest
    BY <1>1 DEF To, head, rest
  <2> QED  BY <2>2, <2>4, <2>5, Joined
<1>4. \/ l \in Shown(n)
      \/ \E w \in {<<>>} \cup UNION {Mangled(k.words) : k \in Shown(n)} : l = Line(w, n, 0)
      \/ \E k \in Shown(n) : \E z, i : l = To(z, k, n, i)
      \/ \E k \in Shown("zone") : \E i : l = To("1", k, "zone", i)
  <2> DEFINE A == {Line(w, n, 0) : w \in {<<>>} \cup UNION {Mangled(k.words) : k \in Shown(n)}}
             B(k) == {To("0", k, n, IF Len(k.words) > 1 THEN k.row ELSE 0), To("3", k, n, 0), To("9", k, n, 0),
                      To("x", k, n, 0)}
             C(k) == To("1", k, "zone", IF Len(k.words) > 1 THEN k.row ELSE 0)
  <2>1. Lines[n] = Shown(n) \cup A \cup (UNION {B(k) : k \in Shown(n)}) \cup {C(k) : k \in Shown("zone")}
    BY Zenon DEF Lines
  <2>2. \A k : \A b \in B(k) : \E z, i : b = To(z, k, n, i)
    OBVIOUS
  <2>3. \A k : \E i : C(k) = To("1", k, "zone", i)
    OBVIOUS
  <2>4. \A a \in A : \E w \in {<<>>} \cup UNION {Mangled(k.words) : k \in Shown(n)} : a = Line(w, n, 0)
    OBVIOUS
  <2> HIDE DEF A, B, C
  <2>5. l \in Shown(n) \/ l \in A \/ l \in UNION {B(k) : k \in Shown(n)} \/ l \in {C(k) : k \in Shown("zone")}
    <3> DEFINE D == UNION {B(k) : k \in Shown(n)}
               E == {C(k) : k \in Shown("zone")}
               all == Lines[n]
    <3>1. l \in all
      OBVIOUS
    <3>2. all = Shown(n) \cup A \cup D \cup E
      BY <2>1, Zenon
    <3> HIDE DEF D, E, all
    <3>3. l \in Shown(n) \/ l \in A \/ l \in D \/ l \in E
      BY <3>1, <3>2
    <3> QED  BY <3>3, Zenon DEF D, E
  <2>6. ASSUME l \in UNION {B(k) : k \in Shown(n)} PROVE \E k \in Shown(n) : \E z, i : l = To(z, k, n, i)
    <3>1. PICK k \in Shown(n) : l \in B(k)
      BY <2>6, Zenon
    <3> QED  BY <2>2, <3>1, Zenon
  <2>7. ASSUME l \in {C(k) : k \in Shown("zone")} PROVE \E k \in Shown("zone") : \E i : l = To("1", k, "zone", i)
    <3>1. PICK k \in Shown("zone") : l = C(k)
      BY <2>7, Zenon
    <3> QED  BY <2>3, <3>1, Zenon
  <2>8. l \in A => \E w \in {<<>>} \cup UNION {Mangled(k.words) : k \in Shown(n)} : l = Line(w, n, 0)
    BY <2>4, Zenon
  <2> QED  BY <2>5, <2>6, <2>7, <2>8, Zenon
<1>5. CASE l \in Shown(n)
  BY <1>5, ShownSeq
<1>6. ASSUME NEW w \in {<<>>} \cup UNION {Mangled(k.words) : k \in Shown(n)}, l = Line(w, n, 0) PROVE SomeSeq(l.words)
  <2>1. SomeSeq(w)
    BY <1>2, <1>6, NoWordSeq, ShownSeq
  <2> QED  BY <1>1, <1>6, <2>1
<1>7. ASSUME NEW k \in Shown(n), NEW z, NEW i, l = To(z, k, n, i) PROVE SomeSeq(l.words)
  BY <1>3, <1>7, ShownSeq
<1>8. ASSUME NEW k \in Shown("zone"), NEW i, l = To("1", k, "zone", i) PROVE SomeSeq(l.words)
  BY <1>3, <1>8, ShownSeq DEF Nodes
<1> QED  BY <1>4, <1>5, <1>6, <1>7, <1>8

(* What a line is understood as runs no destructive row unless CONFIRM is    *)
(* one of its words.                                                         *)
Sparing(to) ==
  \A p \in {to.shut, to.open} : Runs(p) /\ Table[to.node][p.row].does \in Destructive => to.confirms

LEMMA UnderstoodConfirms ==
  ASSUME NEW s \in PLACES, NEW x, SomeSeq(x.words)
  PROVE  Sparing(Understood(s, x))
<1> DEFINE to == Addressed(s, x.words)
           at == Ran(s, to.away)
           Found(open) == IF to.err # "" THEN Refused(to.err) ELSE Parsed(NodeOf(at), at, to.words, open)
           u == Understood(s, x)
<1>1. NodeOf(at) \in Nodes
  BY SessionNames DEF Ran
<1>2. u.node = NodeOf(at) /\ u.shut = Found(FALSE) /\ u.open = Found(TRUE)
  BY DEF Understood
<1>3. u.confirms <=> "CONFIRM" \in Words(x.words)
  <2>1. DOMAIN x.words = 1 .. Len(x.words)
    BY SeqShape
  <2> DEFINE c == "CONFIRM" \in {x.words[i] : i \in DOMAIN x.words}
  <2>2. u.confirms = c
    BY DEF Understood
  <2>3. c <=> "CONFIRM" \in Words(x.words)
    BY <2>1 DEF Words
  <2> QED  BY <2>2, <2>3, Zenon
<1>4. SomeSeq(to.words) /\ Words(to.words) \subseteq Words(x.words)
  BY AddressedRemains DEF Remains
<1> HIDE DEF to, at, u
<1>5. ASSUME NEW open, Runs(Found(open)), Table[NodeOf(at)][Found(open).row].does \in Destructive
      PROVE  "CONFIRM" \in Words(x.words)
  <2>1. to.err = ""
    BY <1>5 DEF Runs, Refused
  <2>2. Found(open) = Parsed(NodeOf(at), at, to.words, open)
    BY <2>1, Zenon
  <2> HIDE DEF Found
  <2> QED  BY <1>1, <1>4, <1>5, <2>2, ConfirmFound
<1> QED  BY <1>2, <1>3, <1>5 DEF u, Sparing

-----------------------------------------------------------------------------
(* Commands: the sessions and the clocks.                                    *)

(* A command leaves every window as its user has earned it, and every clock  *)
(* with the source that set it last; no guarded row has run without the key. *)
LEMMA CommandSessions ==
  ASSUME SessionsInv, NEW to, to.ses \in Sessions, to.node = NodeOf(to.ses),
         Runs(to.shut) => "UNLOCK" \notin Table[to.node][to.shut.row].flags,
         Sparing(to), Command(to), UNCHANGED now
  PROVE  SessionsInv'
<1> DEFINE t   == to.ses
           n   == to.node
           p   == IF ses[t].unlock_until > now THEN to.open ELSE to.shut
           ran == Runs(p)
           row == Table[n][p.row]
           Kind == [echo : BOOLEAN, notify : SUBSET NtfTypes, unlock_until : Nat]
<1>1. PICK answer \in IF ran THEN HandlerAnswers(t, p) ELSE {p.err} :
        LET ok   == ran /\ answer = ""
            sets == ok /\ row.does = "time" /\ p.verb = "SET"
        IN  /\ ses' = [ses EXCEPT ![t] = IF ran THEN Renewed(IF ok THEN Handled(t, p) ELSE @) ELSE @]
            /\ clock' = IF sets THEN [clock EXCEPT ![n].set = now] ELSE clock
            /\ last' = [meant   |-> to.meant,
                        got     |-> <<n, IF p.err \in {"", "LOCKED", "NOT_LOCAL"} THEN p.row ELSE 0>>,
                        rash    |-> ran /\ row.does \in Destructive /\ ~to.confirms,
                        locked  |-> ran /\ "UNLOCK" \in row.flags /\ ~seen.key[t],
                        said    |-> CASE ran /\ row.does = "time" /\ p.verb = "GET" -> <<"TIME", SourceToken(n)>>
                                      [] ran /\ row.does = "debug_get" -> <<"DEBUG", Remaining(t)>>
                                      [] ok    -> <<"OK", "">>
                                      [] OTHER -> <<"ERR", answer>>]
            /\ seen' = [seen EXCEPT
                 !.key[t] = IF ok /\ row.does = "debug_enable" THEN TRUE
                            ELSE @ /\ ~(ran /\ row.does = "debug_disable"),
                 !.idle[t] = IF ran THEN 0 ELSE @,
                 !.setter[n] = IF sets THEN "SET" ELSE @,
                 !.typed = @ + 1]
  BY Zenon DEF Command, Runs
<1> DEFINE ok   == ran /\ answer = ""
           sets == ok /\ row.does = "time" /\ p.verb = "SET"
           does == row.does
           key  == IF ok /\ does = "debug_enable" THEN TRUE ELSE seen.key[t] /\ ~(ran /\ does = "debug_disable")
           idle == IF ran THEN 0 ELSE seen.idle[t]
           mark == IF sets THEN "SET" ELSE seen.setter[n]
           h    == IF ok THEN Handled(t, p) ELSE ses[t]
           x    == IF ran THEN Renewed(h) ELSE ses[t]
           held == seen.key[t]
           past == seen.idle[t]
           ends == ses[t].unlock_until
<1>2. t \in Sessions /\ n \in Nodes /\ n = NodeOf(t)
  BY SessionNames
<1>3. now \in Nat /\ now > 0 /\ now' = now
  BY StoredTypes DEF SessionsInv
<1>4. ses \in [Sessions -> Kind]
  BY StoredTypes, Zenon DEF SessionsInv
<1>5. ses[t] \in Kind
  BY <1>2, <1>4, Zenon
<1>6. ends \in Nat
  BY <1>2, StoredTypes DEF SessionsInv
<1>7. DOMAIN seen = {"key", "idle", "setter", "typed"}
  BY StoredTypes DEF SessionsInv
<1>8. seen.key \in [Sessions -> BOOLEAN] /\ held \in BOOLEAN
  BY <1>2, StoredTypes, Zenon DEF SessionsInv
<1>9. seen.idle \in [Sessions -> 0 .. CMD_UNLOCK] /\ past \in 0 .. CMD_UNLOCK /\ past \in Nat
  <2>1. seen.idle \in [Sessions -> 0 .. CMD_UNLOCK]
    BY StoredTypes DEF SessionsInv
  <2>2. past \in 0 .. CMD_UNLOCK
    BY <1>2, <2>1
  <2>3. past \in Nat
    BY <2>2, UnlockLength
  <2> QED  BY <2>1, <2>2, <2>3
<1>10. seen.setter \in [Nodes -> {"NONE", "SET", "NTP", "RING"}] /\ seen.typed \in Nat
  BY StoredTypes DEF SessionsInv
<1>11. clock \in [Nodes -> [set : 0 .. now, ext : 0 .. now]] /\ now \in 0 .. now
  BY StoredTypes DEF SessionsInv
<1>12. IF held THEN past < CMD_UNLOCK /\ ends = now + CMD_UNLOCK - past ELSE ends <= now
  BY <1>2 DEF SessionsInv, Windows
<1>13. ses' = [ses EXCEPT ![t] = x] /\ clock' = IF sets THEN [clock EXCEPT ![n].set = now] ELSE clock
  BY <1>1, Zenon
<1>14. seen' = [seen EXCEPT !.key[t] = key, !.idle[t] = idle, !.setter[n] = mark, !.typed = @ + 1]
  BY <1>1, Zenon
<1>15. last'.locked = (ran /\ "UNLOCK" \in row.flags /\ ~held)
  <2> DEFINE locked == ran /\ "UNLOCK" \in row.flags /\ ~held
  <2>1. \E a, b, c, d : last' = [meant |-> a, got |-> b, rash |-> c, locked |-> locked, said |-> d]
    BY <1>1, Zenon
  <2> HIDE DEF locked
  <2>2. last'.locked = locked
    BY <2>1
  <2> QED  BY <2>2, Zenon DEF locked
<1>36. ~ last'.rash
  <2> DEFINE rash == ran /\ row.does \in Destructive /\ ~to.confirms
  <2>1. \E a, b, c, d : last' = [meant |-> a, got |-> b, rash |-> rash, locked |-> c, said |-> d]
    BY <1>1, Zenon
  <2>2. ~ rash
    <3>1. p \in {to.shut, to.open}
      OBVIOUS
    <3> HIDE DEF p
    <3> QED  BY <3>1, Zenon DEF Sparing
  <2> HIDE DEF rash
  <2>3. last'.rash = rash
    BY <2>1
  <2> QED  BY <2>2, <2>3
<1>16. ran => answer \in HandlerAnswers(t, p) /\ (ok => MayAccept(t, p))
  BY <1>1, Zenon DEF MayAccept
<1>17. does = Table[NodeOf(t)][p.row].does
  BY <1>2, Zenon
<1>18. /\ does = "debug_disable" => HandlerAnswers(t, p) = {""}
       /\ MayAccept(t, p) =>
            /\ Handled(t, p) \in Kind
            /\ does = "debug_enable" => Handled(t, p).unlock_until = now + CMD_UNLOCK
            /\ does = "debug_disable" => Handled(t, p).unlock_until = 0
            /\ does \notin {"debug_enable", "debug_disable"} => Handled(t, p).unlock_until = ends
  <2>1. Stored
    BY DEF SessionsInv
  <2> HIDE DEF p, row, does, t
  <2> QED  BY <1>2, <1>17, <2>1, HandledSession, WindowAnswers, Zenon
<1> HIDE DEF p, row, does, t, n
<1>19. ran /\ does = "debug_disable" => ok
  BY <1>16, <1>18
<1>20. h \in Kind /\ x \in Kind
  <2>1. h \in Kind
    BY <1>5, <1>16, <1>18, Zenon
  <2> HIDE DEF h
  <2>2. x \in Kind
    BY <1>3, <1>5, <2>1, RenewedSession, Zenon
  <2> QED  BY <2>1, <2>2
<1>21. /\ h.unlock_until = IF ok /\ does = "debug_enable" THEN now + CMD_UNLOCK
                           ELSE IF ok /\ does = "debug_disable" THEN 0 ELSE ends
       /\ h.unlock_until \in Nat
  BY <1>2, <1>3, <1>6, <1>16, <1>18
<1>22. /\ ran => /\ h.unlock_until > now => x.unlock_until = now + CMD_UNLOCK
                 /\ h.unlock_until <= now => x.unlock_until = h.unlock_until
       /\ ~ ran => x.unlock_until = ends
  <2>1. ran => x = Renewed(h)
    BY Zenon
  <2>2. ~ ran => x = ses[t]
    BY Zenon
  <2> HIDE DEF h, x
  <2>3. ran => /\ h.unlock_until > now => x.unlock_until = now + CMD_UNLOCK
               /\ h.unlock_until <= now => x.unlock_until = h.unlock_until
    BY <1>3, <1>20, <2>1, RenewedSession, Zenon
  <2>4. ~ ran => x.unlock_until = ends
    BY <2>2, Zenon
  <2> QED  BY <2>3, <2>4
<1>23. (ok => ran) /\ (ran => idle = 0) /\ (~ ran => idle = past) /\ idle \in 0 .. CMD_UNLOCK
  <2>1. ok => ran
    BY Zenon
  <2>2. (ran => idle = 0) /\ (~ ran => idle = past) /\ ran \in BOOLEAN
    BY Zenon DEF Runs
  <2> HIDE DEF ran, idle, ok, past
  <2>3. 0 \in 0 .. CMD_UNLOCK
    BY UnlockLength
  <2> QED  BY <1>9, <2>1, <2>2, <2>3, Zenon
<1>24. key <=> (ok /\ does = "debug_enable") \/ (held /\ ~ (ran /\ does = "debug_disable"))
  BY Zenon
<1> HIDE DEF h, x, key, idle, ok, ran, held, past, ends
<1>25. IF key THEN idle < CMD_UNLOCK /\ x.unlock_until = now + CMD_UNLOCK - idle ELSE x.unlock_until <= now
  <2>1. CASE ~ ran
    BY <1>12, <1>22, <1>23, <1>24, <2>1
  <2>2. CASE ran /\ ok /\ does = "debug_enable"
    BY <1>3, <1>21, <1>22, <1>23, <1>24, <2>2, UnlockLength
  <2>3. CASE ran /\ does = "debug_disable"
    BY <1>3, <1>19, <1>21, <1>22, <1>23, <1>24, <2>3, UnlockLength
  <2>4. CASE ran /\ ~ (ok /\ does = "debug_enable") /\ does # "debug_disable"
    BY <1>3, <1>6, <1>9, <1>12, <1>21, <1>22, <1>23, <1>24, <2>4, UnlockLength
  <2> QED  BY <2>1, <2>2, <2>3, <2>4
<1>26. ~ last'.locked
  <2>1. CASE held
    BY <1>15, <2>1
  <2>2. CASE ~ held
    <3>1. ~ (ends > now)
      <4>1. ends <= now
        BY <1>12, <2>2, Zenon
      <4> QED  BY <1>3, <1>6, <4>1
    <3>2. p = to.shut
      BY <3>1, Zenon DEF p, ends, t
    <3>3. ran => "UNLOCK" \notin row.flags
      BY <3>2, Zenon DEF row, ran, n
    <3> QED  BY <1>15, <3>3
  <2> QED  BY <2>1, <2>2
<1>27. /\ clock' \in [Nodes -> [set : 0 .. now, ext : 0 .. now]]
       /\ \A m \in Nodes : m # n => clock'[m] = clock[m]
       /\ sets => clock'[n].set = now /\ clock'[n].ext = clock[n].ext
       /\ ~ sets => clock'[n] = clock[n]
  <2>0. sets \in BOOLEAN
    BY Zenon
  <2> HIDE DEF sets
  <2>1. CASE sets
    <3>1. clock' = [clock EXCEPT ![n].set = now]
      BY <1>13, <2>1
    <3>2. [clock[n] EXCEPT !.set = now] \in [set : 0 .. now, ext : 0 .. now]
      BY <1>2, <1>11
    <3> QED  BY <1>2, <1>11, <2>1, <3>1, <3>2
  <2>2. CASE ~ sets
    BY <1>13, <1>11, <2>2
  <2> QED  BY <2>1, <2>2
<1>28. (sets => mark = "SET") /\ (~ sets => mark = seen.setter[n]) /\ mark \in {"NONE", "SET", "NTP", "RING"}
  <2>1. seen.setter[n] \in {"NONE", "SET", "NTP", "RING"}
    BY <1>2, <1>10
  <2> QED  BY <2>1
<1> HIDE DEF sets, mark
<1>29. /\ seen'.key = [seen.key EXCEPT ![t] = key] /\ seen'.idle = [seen.idle EXCEPT ![t] = idle]
       /\ seen'.setter = [seen.setter EXCEPT ![n] = mark] /\ seen'.typed = seen.typed + 1
       /\ DOMAIN seen' = {"key", "idle", "setter", "typed"}
  BY <1>7, <1>14
<1>30. seen' = [key |-> seen'.key, idle |-> seen'.idle, setter |-> seen'.setter, typed |-> seen'.typed]
  BY <1>7, <1>14
<1>31. seen'.key \in [Sessions -> BOOLEAN]
  <2>1. key \in BOOLEAN
    BY Zenon DEF key
  <2> QED  BY <1>8, <1>29, <2>1, Zenon
<1>32. seen' \in [key : [Sessions -> BOOLEAN], idle : [Sessions -> 0 .. CMD_UNLOCK],
              setter : [Nodes -> {"NONE", "SET", "NTP", "RING"}], typed : Nat]
  <2>1. seen'.idle \in [Sessions -> 0 .. CMD_UNLOCK]
    BY <1>9, <1>23, <1>29, UnlockLength
  <2>3. seen'.setter \in [Nodes -> {"NONE", "SET", "NTP", "RING"}]
    BY <1>10, <1>28, <1>29
  <2>4. seen.typed \in Nat /\ seen'.typed = seen.typed + 1
    BY <1>10, <1>29, Zenon
  <2>5. seen'.typed \in Nat
    BY <2>4
  <2>2. seen'.setter \in [Nodes -> {"NONE", "SET", "NTP", "RING"}] /\ seen'.typed \in Nat
    BY <2>3, <2>5, Zenon
  <2> DEFINE a == seen'.key  b == seen'.idle  c == seen'.setter  d == seen'.typed
  <2> HIDE DEF a, b, c, d
  <2> QED  BY <1>30, <1>31, <2>1, <2>2, Zenon DEF a, b, c, d
<1>33. Stored'
  <2>1. ses' \in [Sessions -> Kind]
    BY <1>4, <1>13, <1>20, Zenon
  <2>2. clock' \in [Nodes -> [set : 0 .. now', ext : 0 .. now']]
    BY <1>3, <1>27
  <2> QED  BY <1>3, <1>32, <2>1, <2>2, Zenon DEF Stored
<1>34. Windows'
  <2> SUFFICES ASSUME NEW s \in Sessions
               PROVE  IF seen'.key[s] THEN seen'.idle[s] < CMD_UNLOCK /\ ses'[s].unlock_until = now + CMD_UNLOCK - seen'.idle[s]
                      ELSE ses'[s].unlock_until <= now
    BY <1>3 DEF Windows
  <2>1. CASE s = t
    <3>1. seen'.key[s] = key
      BY <1>2, <1>8, <1>29, <2>1, Zenon
    <3>2. seen'.idle[s] = idle
      BY <1>2, <1>9, <1>29, <2>1
    <3>3. ses'[s] = x
      BY <1>2, <1>4, <1>13, <2>1, Zenon
    <3> QED  BY <1>25, <3>1, <3>2, <3>3
  <2>2. CASE s # t
    <3>1. seen'.key[s] = seen.key[s]
      BY <1>2, <1>8, <1>29, <2>2, Zenon
    <3>2. seen'.idle[s] = seen.idle[s]
      BY <1>2, <1>9, <1>29, <2>2
    <3>3. ses'[s] = ses[s]
      BY <1>2, <1>4, <1>13, <2>2, Zenon
    <3> QED  BY <3>1, <3>2, <3>3 DEF SessionsInv, Windows
  <2> QED  BY <2>1, <2>2
<1>35. Setters'
  <2> SUFFICES ASSUME NEW m \in Nodes
               PROVE  /\ seen'.setter[m] = "NONE" => clock'[m].set = 0 /\ clock'[m].ext = 0
                      /\ seen'.setter[m] = "SET" => clock'[m].set > 0 /\ clock'[m].set >= clock'[m].ext
                      /\ seen'.setter[m] \notin {"NONE", "SET"} =>
                           seen'.setter[m] = External(m) /\ clock'[m].ext > 0 /\ clock'[m].ext >= clock'[m].set
    BY DEF Setters
  <2>1. CASE m = n /\ sets
    <3>1. seen'.setter[m] = "SET"
      BY <1>2, <1>10, <1>28, <1>29, <2>1
    <3>2. clock'[m].set = now /\ clock'[m].ext \in 0 .. now
      BY <1>2, <1>11, <1>27, <2>1
    <3> QED  BY <1>3, <3>1, <3>2
  <2>2. CASE ~ (m = n /\ sets)
    <3>1. seen'.setter[m] = seen.setter[m] /\ clock'[m] = clock[m]
      BY <1>2, <1>10, <1>27, <1>28, <1>29, <2>2
    <3> QED  BY <3>1 DEF SessionsInv, Setters
  <2> QED  BY <2>1, <2>2
<1> QED  BY <1>26, <1>33, <1>34, <1>35, <1>36 DEF SessionsInv

LEMMA SessionsStart == Init => SessionsInv
<1> SUFFICES ASSUME Init PROVE SessionsInv
  OBVIOUS
<1>1. now = 1 /\ now \in Nat /\ now > 0
  <2>1. now = 1
    BY Zenon DEF Init
  <2> QED  BY <2>1
<1>2. ses \in [Sessions -> [echo : BOOLEAN, notify : SUBSET NtfTypes, unlock_until : Nat]]
  <2>1. [echo |-> FALSE, notify |-> {"ALARM"}, unlock_until |-> 0] \in [echo : BOOLEAN, notify : SUBSET NtfTypes, unlock_until : Nat]
    BY DEF NtfTypes
  <2> QED  BY <2>1, Zenon DEF Init
<1>3. clock \in [Nodes -> [set : 0 .. now, ext : 0 .. now]]
  <2>1. clock = [n \in Nodes |-> [set |-> 0, ext |-> 0]]
    BY Zenon DEF Init
  <2> QED  BY <1>1, <2>1
<1>4. seen \in [key : [Sessions -> BOOLEAN], idle : [Sessions -> 0 .. CMD_UNLOCK],
              setter : [Nodes -> {"NONE", "SET", "NTP", "RING"}], typed : Nat]
  <2>1. [s \in Sessions |-> FALSE] \in [Sessions -> BOOLEAN]
    BY Zenon
  <2>2. [s \in Sessions |-> 0] \in [Sessions -> 0 .. CMD_UNLOCK]
    BY UnlockLength
  <2>3. [n \in Nodes |-> "NONE"] \in [Nodes -> {"NONE", "SET", "NTP", "RING"}]
    OBVIOUS
  <2>4. 0 \in Nat
    OBVIOUS
  <2>5. seen = [key |-> [s \in Sessions |-> FALSE], idle |-> [s \in Sessions |-> 0],
                setter |-> [n \in Nodes |-> "NONE"], typed |-> 0]
    BY Zenon DEF Init
  <2> QED  BY <2>1, <2>2, <2>3, <2>4, <2>5, Zenon
<1>5. Stored
  BY <1>1, <1>2, <1>3, <1>4, Zenon DEF Stored
<1>6. Windows
  <2>1. \A s \in Sessions : seen.key[s] = FALSE
    BY Zenon DEF Init
  <2>2. \A s \in Sessions : ses[s].unlock_until = 0
    BY DEF Init
  <2> QED  BY <1>1, <2>1, <2>2 DEF Windows
<1>7. Setters
  <2>1. \A n \in Nodes : seen.setter[n] = "NONE" /\ clock[n].set = 0 /\ clock[n].ext = 0
    BY DEF Init
  <2> QED  BY <2>1 DEF Setters
<1>8. ~last.locked /\ ~last.rash
  BY Zenon DEF Init
<1> QED  BY <1>5, <1>6, <1>7, <1>8 DEF SessionsInv

LEMMA SyncSessions ==
  ASSUME SessionsInv, NEW n \in Nodes, TimeSync(n)
  PROVE  SessionsInv'
<1>1. /\ now' = now /\ ses' = ses /\ last' = last /\ clock' = [clock EXCEPT ![n].ext = now]
      /\ seen' = [seen EXCEPT !.setter[n] = External(n)]
  BY DEF TimeSync
<1>2. clock \in [Nodes -> [set : 0 .. now, ext : 0 .. now]] /\ now \in 0 .. now /\ now \in Nat /\ now > 0
  BY StoredTypes DEF SessionsInv
<1>3. DOMAIN seen = {"key", "idle", "setter", "typed"}
  BY StoredTypes DEF SessionsInv
<1>4. seen.setter \in [Nodes -> {"NONE", "SET", "NTP", "RING"}] /\ External(n) \in {"NTP", "RING"}
  BY StoredTypes, SessionNames DEF SessionsInv
<1>5. seen'.key = seen.key /\ seen'.idle = seen.idle /\ seen'.typed = seen.typed
      /\ seen'.setter = [seen.setter EXCEPT ![n] = External(n)]
  BY <1>1, <1>3
<1>6. seen' = [key |-> seen'.key, idle |-> seen'.idle, setter |-> seen'.setter, typed |-> seen'.typed]
  BY <1>1, <1>3
<1>7. /\ clock' \in [Nodes -> [set : 0 .. now, ext : 0 .. now]]
      /\ \A m \in Nodes : m # n => clock'[m] = clock[m]
      /\ clock'[n].ext = now /\ clock'[n].set = clock[n].set /\ clock[n].set \in 0 .. now
  <2>1. [clock[n] EXCEPT !.ext = now] \in [set : 0 .. now, ext : 0 .. now]
    BY <1>2
  <2> QED  BY <1>1, <1>2, <2>1
<1>8. Stored'
  <2>1. seen'.key \in [Sessions -> BOOLEAN]
    BY <1>5, StoredTypes, Zenon DEF SessionsInv
  <2>2. seen'.idle \in [Sessions -> 0 .. CMD_UNLOCK] /\ seen'.typed \in Nat
    BY <1>5, StoredTypes, Zenon DEF SessionsInv
  <2>3. seen'.setter \in [Nodes -> {"NONE", "SET", "NTP", "RING"}]
    BY <1>4, <1>5
  <2> DEFINE a == seen'.key  b == seen'.idle  c == seen'.setter  d == seen'.typed
  <2> HIDE DEF a, b, c, d
  <2>4. seen' \in [key : [Sessions -> BOOLEAN], idle : [Sessions -> 0 .. CMD_UNLOCK],
              setter : [Nodes -> {"NONE", "SET", "NTP", "RING"}], typed : Nat]
    BY <1>6, <2>1, <2>2, <2>3, Zenon DEF a, b, c, d
  <2>5. ses' \in [Sessions -> [echo : BOOLEAN, notify : SUBSET NtfTypes, unlock_until : Nat]]
    BY <1>1, StoredTypes, Zenon DEF SessionsInv
  <2>6. clock' \in [Nodes -> [set : 0 .. now', ext : 0 .. now']] /\ now' \in Nat /\ now' > 0
    BY <1>1, <1>2, <1>7
  <2> QED  BY <2>4, <2>5, <2>6, Zenon DEF Stored
<1>9. Windows'
  BY <1>1, <1>5 DEF SessionsInv, Windows
<1>10. Setters'
  <2> SUFFICES ASSUME NEW m \in Nodes
               PROVE  /\ seen'.setter[m] = "NONE" => clock'[m].set = 0 /\ clock'[m].ext = 0
                      /\ seen'.setter[m] = "SET" => clock'[m].set > 0 /\ clock'[m].set >= clock'[m].ext
                      /\ seen'.setter[m] \notin {"NONE", "SET"} =>
                           seen'.setter[m] = External(m) /\ clock'[m].ext > 0 /\ clock'[m].ext >= clock'[m].set
    BY DEF Setters
  <2>1. CASE m = n
    <3>1. seen'.setter[m] = External(m) /\ seen'.setter[m] \in {"NTP", "RING"}
      BY <1>4, <1>5, <2>1
    <3>2. clock'[m].ext = now /\ clock'[m].set \in 0 .. now
      BY <1>7, <2>1
    <3> QED  BY <1>2, <3>1, <3>2
  <2>2. CASE m # n
    <3>1. seen'.setter[m] = seen.setter[m] /\ clock'[m] = clock[m]
      BY <1>4, <1>5, <1>7, <2>2
    <3> QED  BY <3>1 DEF SessionsInv, Setters
  <2> QED  BY <2>1, <2>2
<1> QED  BY <1>1, <1>8, <1>9, <1>10, Zenon DEF SessionsInv

LEMMA TickSessions ==
  ASSUME SessionsInv, Tick
  PROVE  SessionsInv'
<1> DEFINE key  == [s \in Sessions |-> seen.key[s] /\ seen.idle[s] + 1 < CMD_UNLOCK]
           idle == [s \in Sessions |-> IF seen.idle[s] < CMD_UNLOCK THEN seen.idle[s] + 1 ELSE seen.idle[s]]
<1>1. now' = now + 1 /\ ses' = ses /\ clock' = clock /\ last' = last
  BY DEF Tick
<1>2. DOMAIN seen = {"key", "idle", "setter", "typed"}
  BY StoredTypes DEF SessionsInv
<1>3. seen.key \in [Sessions -> BOOLEAN]
  BY StoredTypes, Zenon DEF SessionsInv
<1>4. seen.idle \in [Sessions -> 0 .. CMD_UNLOCK]
  BY StoredTypes, Zenon DEF SessionsInv
<1>5. DOMAIN seen.key = Sessions /\ DOMAIN seen.idle = Sessions
  BY <1>3, <1>4, Zenon
<1>6. seen' = [seen EXCEPT !.key = key, !.idle = idle]
  BY <1>5, Zenon DEF Tick
<1>7. \A s \in Sessions : key[s] <=> seen.key[s] /\ seen.idle[s] + 1 < CMD_UNLOCK
  BY Zenon
<1>8. \A s \in Sessions : idle[s] = IF seen.idle[s] < CMD_UNLOCK THEN seen.idle[s] + 1 ELSE seen.idle[s]
  BY Zenon
<1>9. key \in [Sessions -> BOOLEAN]
  BY Zenon
<1>10. idle \in [Sessions -> 0 .. CMD_UNLOCK]
  <2>1. \A s \in Sessions : (IF seen.idle[s] < CMD_UNLOCK THEN seen.idle[s] + 1 ELSE seen.idle[s]) \in 0 .. CMD_UNLOCK
    BY <1>4, UnlockLength
  <2> QED  BY <2>1
<1> HIDE DEF key, idle
<1>11. /\ seen'.key = key /\ seen'.idle = idle /\ seen'.setter = seen.setter /\ seen'.typed = seen.typed
       /\ seen' = [key |-> seen'.key, idle |-> seen'.idle, setter |-> seen'.setter, typed |-> seen'.typed]
  BY <1>2, <1>6
<1>12. now \in Nat /\ now > 0 /\ clock \in [Nodes -> [set : 0 .. now, ext : 0 .. now]]
  BY StoredTypes DEF SessionsInv
<1>13. Stored'
  <2>1. seen'.setter \in [Nodes -> {"NONE", "SET", "NTP", "RING"}] /\ seen'.typed \in Nat
    BY <1>11, StoredTypes, Zenon DEF SessionsInv
  <2>2. seen'.key \in [Sessions -> BOOLEAN] /\ seen'.idle \in [Sessions -> 0 .. CMD_UNLOCK]
    BY <1>9, <1>10, <1>11, Zenon
  <2>3. seen' = [key |-> seen'.key, idle |-> seen'.idle, setter |-> seen'.setter, typed |-> seen'.typed]
    BY <1>11, Zenon
  <2> DEFINE a == seen'.key  b == seen'.idle  c == seen'.setter  d == seen'.typed
  <2> HIDE DEF a, b, c, d
  <2>4. seen' \in [key : [Sessions -> BOOLEAN], idle : [Sessions -> 0 .. CMD_UNLOCK],
              setter : [Nodes -> {"NONE", "SET", "NTP", "RING"}], typed : Nat]
    BY <2>1, <2>2, <2>3, Zenon DEF a, b, c, d
  <2>5. ses' \in [Sessions -> [echo : BOOLEAN, notify : SUBSET NtfTypes, unlock_until : Nat]]
    BY <1>1, StoredTypes, Zenon DEF SessionsInv
  <2>6. now' \in Nat /\ now' > 0
    BY <1>1, <1>12
  <2>7. clock' \in [Nodes -> [set : 0 .. now', ext : 0 .. now']]
    BY <1>1, <1>12
  <2> QED  BY <2>4, <2>5, <2>6, <2>7, Zenon DEF Stored
<1>14. Windows'
  <2> SUFFICES ASSUME NEW s \in Sessions
               PROVE  IF seen'.key[s] THEN seen'.idle[s] < CMD_UNLOCK /\ ses'[s].unlock_until = now' + CMD_UNLOCK - seen'.idle[s]
                      ELSE ses'[s].unlock_until <= now'
    BY DEF Windows
  <2> DEFINE past == seen.idle[s]  ends == ses[s].unlock_until
  <2>1. seen'.idle[s] = IF past < CMD_UNLOCK THEN past + 1 ELSE past
    BY <1>8, <1>11, Zenon
  <2>2. seen'.key[s] <=> seen.key[s] /\ past + 1 < CMD_UNLOCK
    BY <1>7, <1>11, Zenon
  <2>3. ses'[s].unlock_until = ends
    BY <1>1, Zenon
  <2>4. past \in Nat
    <3>1. past \in 0 .. CMD_UNLOCK
      BY <1>4
    <3> QED  BY <3>1, UnlockLength
  <2>5. ends \in Nat
    BY StoredTypes DEF SessionsInv
  <2>6. IF seen.key[s] THEN past < CMD_UNLOCK /\ ends = now + CMD_UNLOCK - past ELSE ends <= now
    BY Zenon DEF SessionsInv, Windows
  <2> HIDE DEF past, ends
  <2>7. CASE seen.key[s] /\ past + 1 < CMD_UNLOCK
    BY <1>1, <1>12, <2>1, <2>2, <2>3, <2>4, <2>5, <2>6, <2>7, UnlockLength
  <2>8. CASE seen.key[s] /\ ~ (past + 1 < CMD_UNLOCK)
    BY <1>1, <1>12, <2>1, <2>2, <2>3, <2>4, <2>5, <2>6, <2>8, UnlockLength
  <2>9. CASE ~ seen.key[s]
    BY <1>1, <1>12, <2>1, <2>2, <2>3, <2>4, <2>5, <2>6, <2>9, UnlockLength
  <2> QED  BY <2>7, <2>8, <2>9
<1>15. Setters'
  BY <1>1, <1>11 DEF SessionsInv, Setters
<1> QED  BY <1>1, <1>13, <1>14, <1>15, Zenon DEF SessionsInv

LEMMA SessionsStep == SessionsInv /\ (Next \/ UNCHANGED vars) => SessionsInv'
<1> SUFFICES ASSUME SessionsInv, Next \/ UNCHANGED vars PROVE SessionsInv'
  OBVIOUS
<1>1. CASE Type
  <2>1. PICK s \in PLACES : \E l \in IF seen.typed = 0 THEN FirstTyped[s] ELSE LaterTyped[s] : Command(l)
    BY <1>1, Zenon DEF Type
  <2>2. PICK to \in IF seen.typed = 0 THEN FirstTyped[s] ELSE LaterTyped[s] : Command(to)
    BY <2>1, Zenon
  <2>3. \E x : to = Understood(s, x)
    BY <2>2, Zenon DEF FirstTyped, LaterTyped
  <2>4. /\ to.ses \in Sessions /\ to.node = NodeOf(to.ses)
        /\ Runs(to.shut) => "UNLOCK" \notin Table[to.node][to.shut.row].flags
    BY <2>3, UnderstoodSound, Zenon DEF Runs
  <2>5. Sparing(to)
    <3>1. LaterLines[NodeOf(s)] \subseteq Lines[NodeOf(s)] /\ NodeOf(s) \in Nodes
      BY SessionNames DEF LaterLines
    <3>2. \E x \in Lines[NodeOf(s)] : to = Understood(s, x)
      BY <2>2, <3>1, Zenon DEF FirstTyped, LaterTyped
    <3>3. PICK x \in Lines[NodeOf(s)] : to = Understood(s, x)
      BY <3>2
    <3>4. SomeSeq(x.words)
      BY <3>1, LinesSeq
    <3> QED  BY <3>3, <3>4, UnderstoodConfirms, Zenon
  <2>6. UNCHANGED now
    BY <1>1, Zenon DEF Type
  <2> QED  BY <2>2, <2>4, <2>5, <2>6, CommandSessions, Zenon
<1>2. CASE Tick
  BY <1>2, TickSessions
<1>3. ASSUME NEW n \in Nodes, TimeSync(n) PROVE SessionsInv'
  BY <1>3, SyncSessions
<1>4. CASE UNCHANGED vars
  BY <1>4 DEF vars, SessionsInv, Stored, Windows, Setters
<1> QED  BY <1>1, <1>2, <1>3, <1>4, Zenon DEF Next

LEMMA SessionsMean == SessionsInv => ConfirmIsTyped /\ WindowHonoured /\ LastSetterNamed
<1> SUFFICES ASSUME SessionsInv PROVE ConfirmIsTyped /\ WindowHonoured /\ LastSetterNamed
  OBVIOUS
<1>1. now \in Nat
  BY StoredTypes DEF SessionsInv
<1>2. ASSUME NEW s \in Sessions PROVE seen.key[s] <=> Remaining(s) > 0
  <2> DEFINE past == seen.idle[s]  ends == ses[s].unlock_until
  <2>1. past \in Nat
    <3>1. past \in 0 .. CMD_UNLOCK
      BY StoredTypes DEF SessionsInv
    <3> QED  BY <3>1, UnlockLength
  <2>2. ends \in Nat
    BY StoredTypes DEF SessionsInv
  <2>3. IF seen.key[s] THEN past < CMD_UNLOCK /\ ends = now + CMD_UNLOCK - past ELSE ends <= now
    BY Zenon DEF SessionsInv, Windows
  <2>4. Remaining(s) = IF ends > now THEN ends - now ELSE 0
    BY Zenon DEF Remaining
  <2>5. seen.key[s] \in BOOLEAN
    BY StoredTypes, Zenon DEF SessionsInv
  <2> HIDE DEF past, ends
  <2>6. CASE seen.key[s]
    BY <1>1, <2>1, <2>2, <2>3, <2>4, <2>6, UnlockLength
  <2>7. CASE ~ seen.key[s]
    BY <1>1, <2>1, <2>2, <2>3, <2>4, <2>7, UnlockLength
  <2> QED  BY <2>5, <2>6, <2>7
<1>3. ASSUME NEW n \in Nodes PROVE SourceToken(n) = seen.setter[n] \/ clock[n].set = clock[n].ext
  <2>1. clock[n].ext \in 0 .. now /\ clock[n].set \in 0 .. now
    BY StoredTypes DEF SessionsInv
  <2>2. seen.setter[n] \in {"NONE", "SET", "NTP", "RING"}
    BY StoredTypes DEF SessionsInv
  <2>3. CASE seen.setter[n] = "NONE"
    BY <1>1, <2>1, <2>3 DEF SessionsInv, Setters, SourceToken
  <2>4. CASE seen.setter[n] = "SET"
    BY <1>1, <2>1, <2>4 DEF SessionsInv, Setters, SourceToken
  <2>5. CASE seen.setter[n] \notin {"NONE", "SET"}
    BY <1>1, <2>1, <2>5 DEF SessionsInv, Setters, SourceToken
  <2> QED  BY <2>3, <2>4, <2>5
<1> QED  BY <1>2, <1>3 DEF ConfirmIsTyped, WindowHonoured, LastSetterNamed, SessionsInv

(* The other two invariants of these proofs, of sessions and of the line.    *)
SeenInv == (part = "command" => SessionsInv) /\ (part = "line" => Cli!LineInv)

(* cmd_dispatch.c and cmd_session: a row that destroys runs only from a line *)
(* that says CONFIRM, a guarded row only with the key, and                   *)
(* within the window's length of the last command that ran; hg_app_time.c:   *)
(* the clock names the source that set it last; cli_line.c: the line that runs *)
(* is the line on the terminal.                                              *)
THEOREM SessionsHold == FrontsSpec => []SessionsTrue
<1>1. FrontsInit => SeenInv
  BY SessionsStart, LineStarts DEF FrontsInit, SeenInv
<1>2. SeenInv /\ [FrontsNext]_<<part, slots>> => SeenInv'
  <2> SUFFICES ASSUME SeenInv, [FrontsNext]_<<part, slots>> PROVE SeenInv'
    OBVIOUS
  <2>1. part' = part
    BY DEF FrontsNext
  <2>2. part = "command" => Next \/ UNCHANGED vars
    BY DEF FrontsNext, slots, vars
  <2>3. part = "line" => Cli!Next \/ UNCHANGED <<now, ses, clock>>
    BY DEF FrontsNext, slots
  <2> QED  BY <2>1, <2>2, <2>3, SessionsStep, LineSteps DEF SeenInv
<1>3. SeenInv => SessionsTrue
  BY SessionsMean DEF SeenInv, SessionsTrue, Cli!LineInv
<1> QED  BY <1>1, <1>2, <1>3, PTL DEF FrontsSpec

-----------------------------------------------------------------------------
(* MasterEdit again: what is saved was agreed to.                           *)

LEMMA ConsentForms ==
  MEditor!ConsentInv => /\ s7 \in Seq(MEditor!Jobs) /\ Len(s7) \in Nat /\ DOMAIN s7 = 1 .. Len(s7)
                        /\ \A i \in MEditor!SaveJobs : i \in DOMAIN s7 /\ s7[i].kind = "save"
BY DEF MEditor!ConsentInv, MEditor!EditInv, MEditor!Formed, MEditor!SaveJobs

LEMMA ConsentStarts == MEditor!Init => MEditor!ConsentInv
<1> SUFFICES ASSUME MEditor!Init PROVE MEditor!ConsentInv
  OBVIOUS
<1>1. MEditor!SaveJobs = {}
  BY DEF MEditor!Init, MEditor!SaveJobs
<1> QED  BY <1>1, EditStarts DEF MEditor!ConsentInv, MEditor!OneSave, MEditor!AskedFirst

(* No new save, and none whose set is changed.                               *)
LEMMA ConsentCarries ==
  ASSUME MEditor!ConsentInv, NEW d \in {0, 1}, \A i \in MEditor!SaveJobs' : i \in Int /\ i + d \in MEditor!SaveJobs,
         s6.saving => s6'.saving /\ clock' = clock /\ (s12' = s12 \/ s12' = clock)
  PROVE  MEditor!OneSave' /\ MEditor!AskedFirst'
<1>1. MEditor!OneSave'
  <2> SUFFICES ASSUME NEW i \in MEditor!SaveJobs', NEW k \in MEditor!SaveJobs' PROVE i = k
    BY DEF MEditor!OneSave
  <2>1. i + d = k + d /\ i \in Int /\ k \in Int
    BY DEF MEditor!ConsentInv, MEditor!OneSave
  <2> QED  BY <2>1
<1>2. MEditor!AskedFirst'
  BY DEF MEditor!ConsentInv, MEditor!AskedFirst
<1> QED  BY <1>1, <1>2

LEMMA ConsentSame ==
  ASSUME MEditor!ConsentInv, UNCHANGED s7,
         s6.saving => s6'.saving /\ clock' = clock /\ (s12' = s12 \/ s12' = clock)
  PROVE  MEditor!OneSave' /\ MEditor!AskedFirst'
<1>1. MEditor!SaveJobs' = MEditor!SaveJobs
  BY DEF MEditor!SaveJobs
<1>2. \A i \in MEditor!SaveJobs' : i \in Int /\ i + 0 \in MEditor!SaveJobs
  BY <1>1, ConsentForms
<1> QED  BY <1>2, ConsentCarries

LEMMA ConsentFreed ==
  ASSUME MEditor!SaveJobs' = {} PROVE MEditor!OneSave' /\ MEditor!AskedFirst'
BY DEF MEditor!OneSave, MEditor!AskedFirst

LEMMA ConsentAppends ==
  ASSUME MEditor!ConsentInv, NEW k \in {"save", "import"},
         s7' = Append(s7, [kind |-> k, live |-> TRUE, ran |-> FALSE, ok |-> FALSE])
  PROVE  /\ k = "import" => \A i \in MEditor!SaveJobs' : i \in Int /\ i + 0 \in MEditor!SaveJobs
         /\ k = "save" => \A i \in MEditor!SaveJobs' : i = Len(s7) + 1 \/ i \in MEditor!SaveJobs
<1> DEFINE j == [kind |-> k, live |-> TRUE, ran |-> FALSE, ok |-> FALSE]
<1>1. j \in MEditor!Jobs /\ j.kind = k
  BY DEF MEditor!Jobs
<1>2. s7 \in Seq(MEditor!Jobs) /\ s7' = Append(s7, j)
  BY ConsentForms
<1> HIDE DEF j
<1>3. /\ DOMAIN s7' = 1 .. Len(s7) + 1 /\ s7'[Len(s7) + 1] = j
      /\ DOMAIN s7 = 1 .. Len(s7) /\ Len(s7) \in Nat /\ \A i \in DOMAIN s7 : s7'[i] = s7[i]
  BY <1>1, <1>2
<1>4. ASSUME NEW i \in MEditor!SaveJobs' PROVE i \in Int /\ (i = Len(s7) + 1 \/ i \in DOMAIN s7) /\ s7'[i].kind = "save"
  BY <1>3 DEF MEditor!SaveJobs
<1> QED  BY <1>1, <1>3, <1>4 DEF MEditor!SaveJobs

(* A save starts: there is no other.                                         *)
LEMMA ConsentSubmits ==
  ASSUME MEditor!ConsentInv, ~ s6.saving, MEditor!Submit, clock'["pass"] = 0 \/ s12' = clock'
  PROVE  MEditor!OneSave' /\ MEditor!AskedFirst'
<1>1. MEditor!SaveJobs = {}
  BY DEF MEditor!ConsentInv, MEditor!AskedFirst
<1>2. \A i \in MEditor!SaveJobs' : i = Len(s7) + 1
  BY <1>1, ConsentAppends DEF MEditor!Submit
<1>3. s6'.saving
  BY DEF MEditor!Submit
<1> QED  BY <1>2, <1>3 DEF MEditor!OneSave, MEditor!AskedFirst

LEMMA ConsentCloses ==
  ASSUME MEditor!ConsentInv, MEditor!Close, UNCHANGED <<s6, s12>>
  PROVE  MEditor!OneSave' /\ MEditor!AskedFirst'
<1>1. s7' = [i \in DOMAIN s7 |-> [s7[i] EXCEPT !.live = FALSE]]
      /\ clock' = IF seen THEN MEditor!Cancelled ELSE clock
  BY DEF MEditor!Close
<1>2. \A j \in MEditor!Jobs : [j EXCEPT !.live = FALSE].kind = j.kind
  BY DEF MEditor!Jobs
<1>3. DOMAIN s7 = 1 .. Len(s7) /\ \A i \in DOMAIN s7 : s7[i] \in MEditor!Jobs
  BY ConsentForms
<1>4. DOMAIN s7' = DOMAIN s7 /\ \A i \in DOMAIN s7 : s7'[i].kind = s7[i].kind
  BY <1>1, <1>2, <1>3
<1>5. \A i \in MEditor!SaveJobs' : i \in Int /\ i + 0 \in MEditor!SaveJobs
  BY <1>3, <1>4 DEF MEditor!SaveJobs
<1>6. s6.saving => clock' = clock
  BY <1>1 DEF MEditor!Cancelled
<1> QED  BY <1>5, <1>6, ConsentCarries

LEMMA ConsentOperates ==
  ASSUME MEditor!ConsentInv, MEditor!Operator
  PROVE  MEditor!OneSave' /\ MEditor!AskedFirst'
<1>1. s6 \in [saving : BOOLEAN, ui : BOOLEAN, kept : BOOLEAN]
  BY DEF MEditor!ConsentInv, MEditor!EditInv, MEditor!Formed
<1>2. CASE \/ MEditor!Reveal
           \/ MEditor!Eye
           \/ MEditor!Finish
           \/ MEditor!AskImport
           \/ \E f \in MEditor!Fields : MEditor!OpenKb(f)
  <2>1. UNCHANGED <<clock, s6, s7, s12>>
    BY <1>2 DEF MEditor!Reveal, MEditor!Eye, MEditor!Finish, MEditor!AskImport, MEditor!OpenKb
  <2> QED  BY <2>1, ConsentSame
<1>3. CASE MEditor!DontSave
  <2>1. UNCHANGED <<s6, s7, s12>> /\ clock' = MEditor!Cancelled
    BY <1>3 DEF MEditor!DontSave
  <2> QED  BY <2>1, ConsentSame DEF MEditor!Cancelled
<1>4. CASE MEditor!Save
  <2>1. CASE UNCHANGED <<clock, s6, s7>>
    <3>1. UNCHANGED s12
      BY <1>4 DEF MEditor!Save
    <3> QED  BY <2>1, <3>1, ConsentSame
  <2>2. CASE ~ UNCHANGED <<clock, s6, s7>>
    <3>1. /\ ~ s6.saving /\ clock' = ses
          /\ IF MEditor!TouchesAp(ses) THEN UNCHANGED <<s6, s7>> ELSE MEditor!Submit
      BY <1>4, <2>2 DEF MEditor!Save
    <3>2. CASE MEditor!TouchesAp(ses)
      BY <3>1, <3>2, ConsentSame
    <3>3. CASE ~ MEditor!TouchesAp(ses)
      BY <3>1, <3>3, ConsentSubmits DEF MEditor!TouchesAp
    <3> QED  BY <3>2, <3>3
  <2> QED  BY <2>1, <2>2
<1>5. CASE MEditor!SaveAnyway
  <2>1. /\ s12' = clock
        /\ IF s10.open /\ ~ s6.saving THEN MEditor!Submit /\ UNCHANGED clock
           ELSE clock' = MEditor!Cancelled /\ UNCHANGED <<s6, s7>>
    BY <1>5 DEF MEditor!SaveAnyway
  <2>2. CASE s10.open /\ ~ s6.saving
    BY <2>1, <2>2, ConsentSubmits
  <2>3. CASE ~ (s10.open /\ ~ s6.saving)
    BY <2>1, <2>3, ConsentSame DEF MEditor!Cancelled
  <2> QED  BY <2>2, <2>3
<1>6. CASE MEditor!ImportAnswer
  <2>1. UNCHANGED <<clock, s6, s12>>
    BY <1>6 DEF MEditor!ImportAnswer
  <2>2. CASE s7' = s7
    BY <2>1, <2>2, ConsentSame
  <2>3. CASE s7' = Append(s7, [kind |-> "import", live |-> TRUE, ran |-> FALSE, ok |-> FALSE])
    <3>1. \A i \in MEditor!SaveJobs' : i \in Int /\ i + 0 \in MEditor!SaveJobs
      BY <2>3, ConsentAppends
    <3> QED  BY <2>1, <3>1, ConsentCarries
  <2> QED  BY <1>6, <2>2, <2>3 DEF MEditor!ImportAnswer
<1>7. CASE MEditor!Open
  <2> DEFINE x == s6.saving
             y == s6.kept /\ s6.saving
  <2>1. UNCHANGED <<clock, s7, s12>> /\ s6' = [s6 EXCEPT !.ui = x, !.kept = y]
    BY <1>7 DEF MEditor!Open
  <2> HIDE DEF x, y
  <2>2. s6'.saving = s6.saving
    BY <1>1, <2>1
  <2> QED  BY <2>1, <2>2, ConsentSame
<1>8. CASE MEditor!Leave
  <2>1. MEditor!Close /\ UNCHANGED <<s6, s12>>
    BY <1>8 DEF MEditor!Leave
  <2> QED  BY <2>1, ConsentCloses
<1> QED  BY <1>2, <1>3, <1>4, <1>5, <1>6, <1>7, <1>8 DEF MEditor!Operator

LEMMA ConsentRuns ==
  ASSUME MEditor!ConsentInv, MEditor!Run
  PROVE  MEditor!OneSave' /\ MEditor!AskedFirst'
<1>1. PICK i \in DOMAIN s7, ok \in BOOLEAN : s7' = [s7 EXCEPT ![i].ran = TRUE, ![i].ok = ok]
  BY DEF MEditor!Run
<1>2. UNCHANGED <<clock, s6, s12>>
  BY DEF MEditor!Run
<1> DEFINE j == [s7[i] EXCEPT !.ran = TRUE, !.ok = ok]
<1>3. s7[i] \in MEditor!Jobs /\ DOMAIN s7 = 1 .. Len(s7)
  BY ConsentForms
<1>4. j \in MEditor!Jobs /\ j.kind = s7[i].kind
  BY <1>3 DEF MEditor!Jobs
<1>5. s7' = [s7 EXCEPT ![i] = j]
  BY <1>1, <1>3 DEF MEditor!Jobs
<1> HIDE DEF j
<1>6. DOMAIN s7' = DOMAIN s7 /\ \A k \in DOMAIN s7 : s7'[k].kind = s7[k].kind
  BY <1>4, <1>5
<1>7. \A k \in MEditor!SaveJobs' : k \in Int /\ k + 0 \in MEditor!SaveJobs
  BY <1>3, <1>6 DEF MEditor!SaveJobs
<1> QED  BY <1>2, <1>7, ConsentCarries

(* An answer: after that of a save there is no save, that of an import leaves *)
(* the saves behind it.                                                      *)
LEMMA ConsentAnswered ==
  ASSUME MEditor!ConsentInv, MEditor!SaveDone \/ MEditor!ImportDone
  PROVE  MEditor!OneSave' /\ MEditor!AskedFirst'
<1>1. s7 # <<>> /\ s7' = Tail(s7)
  BY DEF MEditor!SaveDone, MEditor!ImportDone
<1>2. s7 \in Seq(MEditor!Jobs)
  BY ConsentForms
<1>3. /\ Len(s7) \in Nat /\ Len(s7) > 0 /\ DOMAIN s7 = 1 .. Len(s7) /\ DOMAIN s7' = 1 .. Len(s7) - 1
      /\ Head(s7) = s7[1] /\ 1 \in DOMAIN s7 /\ \A i \in 1 .. Len(s7) - 1 : s7'[i] = s7[i + 1]
  BY <1>1, <1>2
<1>4. \A i \in MEditor!SaveJobs' : i \in Int /\ i + 1 \in MEditor!SaveJobs /\ i + 1 # 1
  BY <1>3 DEF MEditor!SaveJobs
<1>5. CASE MEditor!SaveDone
  <2>1. Head(s7).kind = "save"
    BY <1>5 DEF MEditor!SaveDone
  <2>2. 1 \in MEditor!SaveJobs
    BY <1>3, <2>1 DEF MEditor!SaveJobs
  <2>3. MEditor!SaveJobs' = {}
    BY <1>4, <2>2 DEF MEditor!ConsentInv, MEditor!OneSave
  <2> QED  BY <2>3, ConsentFreed
<1>6. CASE MEditor!ImportDone
  <2>1. UNCHANGED <<clock, s6, s12>>
    BY <1>6 DEF MEditor!ImportDone
  <2> QED  BY <1>4, <2>1, ConsentCarries
<1> QED  BY <1>5, <1>6

LEMMA ConsentSteps == MEditor!ConsentInv /\ (MEditor!Next \/ UNCHANGED slots) => MEditor!ConsentInv'
<1> SUFFICES ASSUME MEditor!ConsentInv, MEditor!Next \/ UNCHANGED slots PROVE MEditor!ConsentInv'
  OBVIOUS
<1>1. MEditor!EditInv'
  BY EditSteps DEF MEditor!ConsentInv
<1>2. s6 \in [saving : BOOLEAN, ui : BOOLEAN, kept : BOOLEAN]
  BY DEF MEditor!ConsentInv, MEditor!EditInv, MEditor!Formed
<1>3. CASE MEditor!RowRemask \/ MEditor!KbRemask \/ MEditor!GrowsIdle \/ MEditor!Wake \/ UNCHANGED slots
  <2>1. UNCHANGED <<clock, s6, s7, s12>>
    BY <1>3 DEF MEditor!RowRemask, MEditor!KbRemask, MEditor!GrowsIdle, MEditor!Wake, slots
  <2> QED  BY <1>1, <2>1, ConsentSame DEF MEditor!ConsentInv
<1>4. CASE MEditor!GoHome
  <2>1. MEditor!Close /\ UNCHANGED <<s6, s12>>
    BY <1>4 DEF MEditor!GoHome
  <2> QED  BY <1>1, <2>1, ConsentCloses DEF MEditor!ConsentInv
<1>5. CASE MEditor!Update
  <2> DEFINE x == s6.saving
             y == s6.kept /\ s6.saving
  <2>1. UNCHANGED <<clock, s7, s12>> /\ (s6' = s6 \/ s6' = [s6 EXCEPT !.ui = x, !.kept = y])
    BY <1>5 DEF MEditor!Update
  <2> HIDE DEF x, y
  <2>2. s6'.saving = s6.saving
    BY <1>2, <2>1
  <2> QED  BY <1>1, <2>1, <2>2, ConsentSame DEF MEditor!ConsentInv
<1>6. CASE MEditor!IdleTick
  <2>1. CASE MEditor!WipeDue
    <3>1. s7' = <<>>
      BY <1>6, <2>1 DEF MEditor!IdleTick, MEditor!WipeDue
    <3>2. MEditor!SaveJobs' = {}
      BY <3>1 DEF MEditor!SaveJobs
    <3> QED  BY <1>1, <3>2, ConsentFreed DEF MEditor!ConsentInv
  <2>2. CASE ~ MEditor!WipeDue
    <3>1. UNCHANGED <<clock, s6, s7, s12>>
      BY <1>6, <2>2 DEF MEditor!IdleTick
    <3> QED  BY <1>1, <3>1, ConsentSame DEF MEditor!ConsentInv
  <2> QED  BY <2>1, <2>2
<1>7. CASE MEditor!Operator
  BY <1>1, <1>7, ConsentOperates DEF MEditor!ConsentInv
<1>8. CASE MEditor!Run
  BY <1>1, <1>8, ConsentRuns DEF MEditor!ConsentInv
<1>9. CASE MEditor!SaveDone \/ MEditor!ImportDone
  BY <1>1, <1>9, ConsentAnswered DEF MEditor!ConsentInv
<1> QED  BY <1>3, <1>4, <1>5, <1>6, <1>7, <1>8, <1>9 DEF MEditor!Next, MEditor!Timed

(* The access point's password moves in a step of the worker alone; the job  *)
(* it takes is the first that has not run.                                   *)
LEMMA ConsentGiven ==
  ASSUME MEditor!ConsentInv, MEditor!Next \/ UNCHANGED slots
  PROVE  MEditor!Consented
<1> SUFFICES ASSUME now'["pass"] # now["pass"], MEditor!NextJob("save") PROVE s12 = clock
  BY DEF MEditor!Consented
<1>1. MEditor!Run
  BY DEF MEditor!Next, MEditor!Timed, MEditor!Operator, MEditor!Reveal, MEditor!Eye, MEditor!Finish, MEditor!Save,
     MEditor!SaveAnyway, MEditor!DontSave, MEditor!AskImport, MEditor!ImportAnswer, MEditor!Open, MEditor!Leave,
     MEditor!OpenKb, MEditor!RowRemask, MEditor!KbRemask, MEditor!SaveDone, MEditor!ImportDone, MEditor!GoHome,
     MEditor!Update, MEditor!GrowsIdle, MEditor!Wake, MEditor!IdleTick, slots
<1>2. PICK i \in DOMAIN s7 :
        /\ ~ s7[i].ran /\ \A k \in 1 .. i - 1 : s7[k].ran
        /\ now' = now \/ (s7[i].kind = "save" => now' = MEditor!Applied(clock))
  BY <1>1 DEF MEditor!Run
<1>3. PICK e \in DOMAIN s7 : ~ s7[e].ran /\ s7[e].kind = "save" /\ \A k \in 1 .. e - 1 : s7[k].ran
  BY DEF MEditor!NextJob
<1>4. DOMAIN s7 = 1 .. Len(s7) /\ Len(s7) \in Nat
  BY ConsentForms
<1>5. i = e
  <2>1. i \in Nat /\ e \in Nat /\ i >= 1 /\ e >= 1
    BY <1>4
  <2>2. ~ (i < e)
    <3>1. i < e => i \in 1 .. e - 1
      BY <2>1
    <3> QED  BY <1>2, <1>3, <3>1
  <2>3. ~ (e < i)
    <3>1. e < i => e \in 1 .. i - 1
      BY <2>1
    <3> QED  BY <1>2, <1>3, <3>1
  <2> QED  BY <2>1, <2>2, <2>3
<1>6. now' = MEditor!Applied(clock)
  BY <1>2, <1>3, <1>5
<1>7. MEditor!Applied(clock)["pass"] = IF clock["pass"] # 0 THEN clock["pass"] ELSE now["pass"]
  BY DEF MEditor!Applied, MEditor!Fields
<1>8. clock["pass"] # 0
  BY <1>6, <1>7
<1>9. e \in MEditor!SaveJobs
  BY <1>3 DEF MEditor!SaveJobs
<1> QED  BY <1>8, <1>9 DEF MEditor!ConsentInv, MEditor!AskedFirst

-----------------------------------------------------------------------------
(* ZoneEdit.  Its variables are the slots now to s10.                       *)

LEMMA EdForms ==
  ASSUME Editor!ScreenInv
  PROVE  /\ DOMAIN now = {"state", "zone", "doc", "shown", "kb", "redraw", "watch", "reload", "healed"}
         /\ now.state # "closed" => now.zone \in ED_ZONES
         /\ DOMAIN clock = {"saving", "ui", "kept"}
         /\ DOMAIN last = {"busy", "ask"} /\ last.ask \in ED_ZONES \cup {0}
         /\ seen \in [ED_ZONES -> Editor!Maybe] /\ s6 \in Editor!Maybe
         /\ s7 \in Seq(Editor!Jobs) /\ s8 \in [ED_ZONES -> Editor!Cells]
         /\ Editor!OneSave /\ Editor!TookFrozen /\ Editor!ScreenTrue
         /\ Len(s7) \in Nat /\ DOMAIN s7 = 1 .. Len(s7) /\ \A i \in DOMAIN s7 : s7[i] \in Editor!Jobs
<1>1. DOMAIN Editor!Closed = {"state", "zone", "doc", "shown", "kb", "redraw", "watch", "reload", "healed"}
  BY DEF Editor!Closed
<1>2. s7 \in Seq(Editor!Jobs)
  BY DEF Editor!ScreenInv, Editor!Formed
<1>3. Len(s7) \in Nat /\ DOMAIN s7 = 1 .. Len(s7) /\ \A i \in DOMAIN s7 : s7[i] \in Editor!Jobs
  BY <1>2
<1> QED  BY <1>1, <1>2, <1>3 DEF Editor!ScreenInv, Editor!Formed

LEMMA EdStarts == Editor!Init => Editor!ScreenInv
<1> SUFFICES ASSUME Editor!Init PROVE Editor!ScreenInv
  OBVIOUS
<1>1. now = Editor!Closed /\ clock = [saving |-> FALSE, ui |-> FALSE, kept |-> 0] /\ last = [busy |-> FALSE, ask |-> 0]
      /\ seen = [z \in ED_ZONES |-> 0] /\ s6 = 0 /\ s7 = <<>>
  BY DEF Editor!Init
<1>2. Editor!AnyValue \in VALUES
  BY EditBounds DEF Editor!AnyValue
<1>3. PICK S : s8 = [z \in ED_ZONES |-> [cache |-> IF z \in S THEN Editor!AnyValue ELSE 0, st |-> "idle", val |-> 0, who |-> "none"]]
  BY DEF Editor!Init
<1>4. s8 \in [ED_ZONES -> Editor!Cells]
  <2>1. \A z \in ED_ZONES : [cache |-> IF z \in S THEN Editor!AnyValue ELSE 0, st |-> "idle", val |-> 0, who |-> "none"] \in Editor!Cells
    BY <1>2 DEF Editor!Cells, Editor!Maybe
  <2> QED  BY <1>3, <2>1
<1>5. now.state = "closed"
  BY <1>1 DEF Editor!Closed
<1>6. DOMAIN clock = {"saving", "ui", "kept"} /\ DOMAIN last = {"busy", "ask"} /\ last.ask = 0
  BY <1>1
<1>7. s7 \in Seq(Editor!Jobs) /\ Editor!SaveJobs = {}
  BY <1>1 DEF Editor!SaveJobs
<1>8. Editor!Formed
  BY <1>1, <1>4, <1>5, <1>6, <1>7 DEF Editor!Formed, Editor!Maybe
<1> QED  BY <1>5, <1>7, <1>8 DEF Editor!ScreenInv, Editor!OneSave, Editor!TookFrozen, Editor!ScreenTrue

-----------------------------------------------------------------------------
(* The jobs.  A queue that follows the one there is, d answers later: every  *)
(* save in it was there, and has run as far.                                 *)
Follows(js, d) ==
  /\ js \in Seq(Editor!Jobs)
  /\ \A i \in DOMAIN js : js[i].kind = "save" =>
       /\ i + d \in DOMAIN s7 /\ s7[i + d].kind = "save"
       /\ js[i].ran = s7[i + d].ran /\ js[i].ok = s7[i + d].ok /\ js[i].val = s7[i + d].val

LEMMA EdFollowsSelf == ASSUME Editor!ScreenInv PROVE Follows(s7, 0)
<1>1. \A i \in DOMAIN s7 : i + 0 = i
  BY EdForms
<1> QED  BY <1>1, EdForms DEF Follows

LEMMA EdFollowsStale == ASSUME Editor!ScreenInv PROVE Follows(Editor!Stale(s7), 0)
<1> DEFINE js == Editor!Stale(s7)
<1>1. js = [i \in DOMAIN s7 |-> [s7[i] EXCEPT !.live = FALSE]]
  BY DEF Editor!Stale
<1>2. \A j \in Editor!Jobs : LET k == [j EXCEPT !.live = FALSE]
                           IN  k \in Editor!Jobs /\ k.kind = j.kind /\ k.ran = j.ran /\ k.ok = j.ok /\ k.val = j.val
  BY DEF Editor!Jobs
<1>3. Len(s7) \in Nat /\ DOMAIN s7 = 1 .. Len(s7) /\ \A i \in DOMAIN s7 : s7[i] \in Editor!Jobs
  BY EdForms
<1>4. js = [i \in 1 .. Len(s7) |-> [s7[i] EXCEPT !.live = FALSE]]
  BY <1>1, <1>3
<1>5. \A i \in 1 .. Len(s7) : [s7[i] EXCEPT !.live = FALSE] \in Editor!Jobs
  BY <1>2, <1>3
<1>6. js \in Seq(Editor!Jobs)
  BY <1>3, <1>4, <1>5
<1>7. DOMAIN js = DOMAIN s7 /\ \A i \in DOMAIN s7 : i + 0 = i
  BY <1>1, <1>3
<1>8. \A i \in DOMAIN s7 : js[i].kind = s7[i].kind /\ js[i].ran = s7[i].ran /\ js[i].ok = s7[i].ok /\ js[i].val = s7[i].val
  BY <1>1, <1>2, <1>3
<1> HIDE DEF js
<1> QED  BY <1>6, <1>7, <1>8 DEF Follows, js

LEMMA EdFollowsAppend ==
  ASSUME Editor!ScreenInv, NEW js, Follows(js, 0), NEW k \in {"load", "import", "export"}, NEW z \in ED_ZONES
  PROVE  Follows(Append(js, Editor!Job(k, z, 0)), 0)
<1> DEFINE j == Editor!Job(k, z, 0)
           q == Append(js, j)
<1>1. j \in Editor!Jobs /\ j.kind # "save"
  BY DEF Editor!Job, Editor!Jobs, Editor!Kinds, Editor!Maybe
<1>2. js \in Seq(Editor!Jobs)
  BY DEF Follows
<1> HIDE DEF j
<1>3. /\ q \in Seq(Editor!Jobs) /\ DOMAIN q = 1 .. Len(js) + 1 /\ q[Len(js) + 1] = j
      /\ DOMAIN js = 1 .. Len(js) /\ Len(js) \in Nat /\ \A i \in DOMAIN js : q[i] = js[i]
  BY <1>1, <1>2
<1> HIDE DEF q
<1>4. \A i \in DOMAIN q : i = Len(js) + 1 \/ i \in DOMAIN js
  BY <1>3
<1> QED  BY <1>1, <1>3, <1>4 DEF Follows, q, j

LEMMA EdFollowsTail ==
  ASSUME Editor!ScreenInv, NEW js, Follows(js, 0), js # <<>>
  PROVE  Follows(Tail(js), 1)
<1> DEFINE q == Tail(js)
<1>1. js \in Seq(Editor!Jobs)
  BY DEF Follows
<1>2. /\ q \in Seq(Editor!Jobs) /\ DOMAIN q = 1 .. Len(js) - 1 /\ DOMAIN js = 1 .. Len(js) /\ Len(js) \in Nat
      /\ \A i \in DOMAIN q : q[i] = js[i + 1] /\ i + 1 \in DOMAIN js /\ (i + 1) + 0 = i + 1
  BY <1>1
<1> HIDE DEF q
<1> QED  BY <1>2 DEF Follows, q

(* No new save, the frozen set as it was.                                    *)
LEMMA EdCarries ==
  ASSUME Editor!ScreenInv, NEW d \in {0, 1}, Follows(s7', d), s6' = s6, clock.saving => clock'.saving
  PROVE  s7' \in Seq(Editor!Jobs) /\ Editor!OneSave' /\ Editor!TookFrozen'
<1>1. s7' \in Seq(Editor!Jobs) /\ \A i \in DOMAIN s7' : i \in Int
  BY DEF Follows
<1>2. \A i \in Editor!SaveJobs' : /\ i \in Int /\ i + d \in Editor!SaveJobs
                                 /\ s7'[i].ran = s7[i + d].ran /\ s7'[i].ok = s7[i + d].ok /\ s7'[i].val = s7[i + d].val
  BY <1>1 DEF Follows, Editor!SaveJobs
<1>3. Editor!OneSave'
  <2> SUFFICES ASSUME NEW i \in Editor!SaveJobs', NEW k \in Editor!SaveJobs' PROVE i = k
    BY DEF Editor!OneSave
  <2>1. i + d = k + d /\ i \in Int /\ k \in Int
    BY <1>2, EdForms DEF Editor!OneSave
  <2> QED  BY <2>1
<1>4. Editor!TookFrozen'
  BY <1>2, EdForms DEF Editor!TookFrozen
<1> QED  BY <1>1, <1>3, <1>4

(* What submit_load_job makes of the queue.                                  *)
LEMMA EdSubmits ==
  ASSUME NEW z \in ED_ZONES
  PROVE  LET r == Editor!SubmitLoad(z)
         IN  /\ r.jobs = s7 \/ r.jobs = Append(s7, Editor!Job("load", z, 0))
             /\ r.ok /\ ~ ses.pending => r.jobs = Append(s7, Editor!Job("load", z, 0))
<1> DEFINE r == Editor!SubmitLoad(z)
           q == Append(s7, Editor!Job("load", z, 0))
           l == [ses EXCEPT !.pending = TRUE]
           a == [ses EXCEPT !.again = TRUE]
<1>1. r = CASE ses.pending -> [ok |-> TRUE, jobs |-> s7, load |-> a]
            [] ~ ses.pending /\ Editor!Room -> [ok |-> TRUE, jobs |-> q, load |-> l]
            [] OTHER -> [ok |-> FALSE, jobs |-> s7, load |-> ses]
  BY DEF Editor!SubmitLoad
<1> HIDE DEF r, q, l, a
<1>2. CASE ses.pending
  <2>1. r = [ok |-> TRUE, jobs |-> s7, load |-> a]
    BY <1>1, <1>2
  <2> QED  BY <1>2, <2>1 DEF r, q
<1>3. CASE ~ ses.pending /\ Editor!Room
  <2>1. r = [ok |-> TRUE, jobs |-> q, load |-> l]
    BY <1>1, <1>3
  <2> QED  BY <1>3, <2>1 DEF r, q
<1>4. CASE ~ ses.pending /\ ~ Editor!Room
  <2>1. r = [ok |-> FALSE, jobs |-> s7, load |-> ses]
    BY <1>1, <1>4
  <2> QED  BY <1>4, <2>1 DEF r, q
<1> QED  BY <1>2, <1>3, <1>4

LEMMA EdFollowsSubmit == ASSUME Editor!ScreenInv, NEW z \in ED_ZONES PROVE Follows(Editor!SubmitLoad(z).jobs, 0)
BY EdSubmits, EdFollowsSelf, EdFollowsAppend

(* A screen that opens: its load comes after the jobs of the old one.        *)
LEMMA EdFollowsOpen ==
  ASSUME Editor!ScreenInv, NEW z \in ED_ZONES, NEW js, js \in {s7, Editor!Stale(s7)}, Editor!Open(z, js)
  PROVE  Follows(s7', 0)
<1> DEFINE r == Editor!SubmitLoad(z)
           j == Editor!Job("load", z, 0)
<1>1. s7' = IF r.ok /\ ~ ses.pending THEN Append(js, Editor!Last(r.jobs)) ELSE js
  BY DEF Editor!Open
<1>2. Follows(js, 0)
  BY EdFollowsSelf, EdFollowsStale
<1>3. CASE r.ok /\ ~ ses.pending
  <2>1. r.jobs = Append(s7, j)
    BY <1>3, EdSubmits
  <2>2. j \in Editor!Jobs
    BY DEF Editor!Job, Editor!Jobs, Editor!Kinds, Editor!Maybe
  <2>3. Editor!Last(Append(s7, j)) = j
    <3> HIDE DEF j
    <3>1. s7 \in Seq(Editor!Jobs)
      BY EdForms
    <3>2. Len(Append(s7, j)) = Len(s7) + 1 /\ Append(s7, j)[Len(s7) + 1] = j
      BY <2>2, <3>1
    <3> QED  BY <3>2 DEF Editor!Last
  <2>4. s7' = Append(js, j)
    BY <1>1, <1>3, <2>1, <2>3
  <2> QED  BY <1>2, <2>4, EdFollowsAppend
<1>4. CASE ~ (r.ok /\ ~ ses.pending)
  BY <1>1, <1>2, <1>4
<1> QED  BY <1>3, <1>4

-----------------------------------------------------------------------------
(* What the editor shares: the marks of a save, the card and the node        *)
(* manager's cells.                                                          *)
Desk ==
  /\ DOMAIN clock = {"saving", "ui", "kept"}
  /\ DOMAIN last = {"busy", "ask"} /\ last.ask \in ED_ZONES \cup {0}
  /\ s8 \in [ED_ZONES -> Editor!Cells]

Shares == Desk' /\ (clock.saving => clock'.saving)

LEMMA EdDeskNow == ASSUME Editor!ScreenInv PROVE Desk
BY EdForms DEF Desk

LEMMA EdDeskSame == ASSUME Editor!ScreenInv, UNCHANGED <<clock, last, s8>> PROVE Shares
BY EdDeskNow DEF Desk, Shares

(* The card's confirm goes up or comes down, a job of it starts or ends.     *)
LEMMA EdDeskCard ==
  ASSUME Editor!ScreenInv, UNCHANGED <<clock, s8>>, NEW a \in ED_ZONES \cup {0},
         \/ last' = last
         \/ last' = [last EXCEPT !.ask = a]
         \/ last' = [busy |-> TRUE, ask |-> a]
         \/ last' = [last EXCEPT !.busy = FALSE]
  PROVE  Shares
<1>1. DOMAIN last = {"busy", "ask"} /\ last.ask \in ED_ZONES \cup {0}
  BY EdForms
<1>2. DOMAIN last' = {"busy", "ask"} /\ last'.ask \in ED_ZONES \cup {0}
  BY <1>1
<1>3. DOMAIN clock = {"saving", "ui", "kept"} /\ s8 \in [ED_ZONES -> Editor!Cells]
  BY EdForms
<1> QED  BY <1>2, <1>3 DEF Desk, Shares

LEMMA EdDeskSubmit ==
  ASSUME Editor!ScreenInv, UNCHANGED <<clock, s8>>, NEW k, NEW z, Editor!CardSubmit(k, z)
  PROVE  Shares
<1>1. last' = [busy |-> TRUE, ask |-> 0] \/ last' = [last EXCEPT !.ask = 0]
  BY DEF Editor!CardSubmit
<1> QED  BY <1>1, EdDeskCard

(* A save starts, or its outcome is shown.                                   *)
LEMMA EdDeskMarks ==
  ASSUME Editor!ScreenInv, UNCHANGED last, UNCHANGED s8,
         \/ clock' = clock
         \/ \E u, v : clock' = [saving |-> TRUE, ui |-> u, kept |-> v]
         \/ \E u, v : clock' = [clock EXCEPT !.ui = u, !.kept = v]
  PROVE  Shares
<1>1. DOMAIN clock = {"saving", "ui", "kept"} /\ DOMAIN last = {"busy", "ask"} /\ last.ask \in ED_ZONES \cup {0}
      /\ s8 \in [ED_ZONES -> Editor!Cells]
  BY EdForms
<1>2. DOMAIN clock' = {"saving", "ui", "kept"} /\ (clock.saving => clock'.saving)
  <2>1. CASE clock' = clock
    BY <1>1, <2>1
  <2>2. CASE \E u, v : clock' = [saving |-> TRUE, ui |-> u, kept |-> v]
    <3>1. PICK u, v : clock' = [saving |-> TRUE, ui |-> u, kept |-> v]
      BY <2>2
    <3> QED  BY <3>1
  <2>3. CASE \E u, v : clock' = [clock EXCEPT !.ui = u, !.kept = v]
    <3>1. PICK u, v : clock' = [clock EXCEPT !.ui = u, !.kept = v]
      BY <2>3
    <3>2. DOMAIN clock' = DOMAIN clock /\ clock'.saving = clock.saving
      BY <1>1, <3>1
    <3> QED  BY <1>1, <3>2
  <2> QED  BY <2>1, <2>2, <2>3
<1> QED  BY <1>1, <1>2 DEF Desk, Shares

LEMMA EdSyncs ==
  ASSUME Editor!ScreenInv, NEW r
  PROVE  \/ Editor!Sync(clock, r) = clock
         \/ \E u, v : Editor!Sync(clock, r) = [clock EXCEPT !.ui = u, !.kept = v]
<1> DEFINE u == clock.saving
           v == IF clock.saving THEN clock.kept ELSE 0
<1>1. DOMAIN clock = {"saving", "ui", "kept"}
  BY EdForms
<1>2. Editor!Sync(clock, r) = clock \/ Editor!Sync(clock, r) = [clock EXCEPT !.ui = u, !.kept = IF clock.saving THEN @ ELSE 0]
  BY DEF Editor!Sync
<1>3. [clock EXCEPT !.ui = u, !.kept = IF clock.saving THEN @ ELSE 0] = [clock EXCEPT !.ui = u, !.kept = v]
  <2>1. [clock EXCEPT !.ui = u].kept = clock.kept
    BY <1>1
  <2> QED  BY <2>1
<1> HIDE DEF u, v
<1> QED  BY <1>2, <1>3

(* The node manager's cells.                                                 *)
LEMMA EdDeskCell ==
  ASSUME Editor!ScreenInv, UNCHANGED <<clock, last>>, NEW z, NEW c \in Editor!Cells,
         \/ s8' = s8
         \/ s8' = [s8 EXCEPT ![z] = c]
  PROVE  Shares
<1>1. s8 \in [ED_ZONES -> Editor!Cells]
  BY EdForms
<1>2. s8' \in [ED_ZONES -> Editor!Cells]
  BY <1>1
<1> QED  BY <1>2, EdDeskNow DEF Desk, Shares

(* The worker takes the next job.                                            *)
LEMMA EdRan ==
  ASSUME Editor!ScreenInv, NEW i \in DOMAIN s7, NEW ok \in BOOLEAN, NEW v \in Editor!Maybe, Editor!Ran(i, ok, v)
  PROVE  /\ s7' \in Seq(Editor!Jobs) /\ DOMAIN s7' = DOMAIN s7
         /\ \A k \in DOMAIN s7 : k # i => s7'[k] = s7[k]
         /\ s7'[i].kind = s7[i].kind /\ s7'[i].val = v
<1> DEFINE j == [s7[i] EXCEPT !.ran = TRUE, !.ok = ok, !.val = v]
<1>1. s7' = [s7 EXCEPT ![i].ran = TRUE, ![i].ok = ok, ![i].val = v]
  BY DEF Editor!Ran
<1>2. s7[i] \in Editor!Jobs /\ s7 \in Seq(Editor!Jobs)
  BY EdForms
<1>3. s7' = [s7 EXCEPT ![i] = j]
  BY <1>1, <1>2
<1>4. j \in Editor!Jobs
  BY <1>2 DEF Editor!Jobs
<1>5. j.kind = s7[i].kind /\ j.val = v
  BY <1>2 DEF Editor!Jobs
<1> HIDE DEF j
<1>6. s7' \in Seq(Editor!Jobs) /\ DOMAIN s7' = DOMAIN s7
  BY <1>2, <1>3, <1>4
<1>7. s7'[i] = j /\ \A k \in DOMAIN s7 : k # i => s7'[k] = s7[k]
  BY <1>2, <1>3
<1> QED  BY <1>5, <1>6, <1>7

LEMMA EdEdits ==
  ASSUME Editor!ScreenInv, NEW i \in DOMAIN s7, s7[i].kind \in {"save", "import"}, NEW v \in Editor!Maybe,
         UNCHANGED <<clock, last>>, Editor!Edit(i, v)
  PROVE  Shares /\ \E ok \in BOOLEAN : Editor!Ran(i, ok, v)
<1>1. CASE Editor!Ran(i, FALSE, v) /\ UNCHANGED s8
  BY <1>1, EdDeskSame
<1>2. CASE ~ (Editor!Ran(i, FALSE, v) /\ UNCHANGED s8)
  <2> DEFINE z == s7[i].zone
             k == s7[i].kind
             c == [s8[z] EXCEPT !.st = "pending", !.val = v, !.who = k]
  <2>1. s8' = [s8 EXCEPT ![z].st = "pending", ![z].val = v, ![z].who = k] /\ Editor!Ran(i, TRUE, v)
    BY <1>2 DEF Editor!Edit
  <2>2. z \in ED_ZONES /\ s8 \in [ED_ZONES -> Editor!Cells]
    BY EdForms DEF Editor!Jobs
  <2> HIDE DEF z, k
  <2>3. k \in {"save", "import"}
    BY DEF k
  <2>4. c \in Editor!Cells
    BY <2>2, <2>3 DEF Editor!Cells
  <2>5. s8' = [s8 EXCEPT ![z] = c]
    BY <2>1, <2>2
  <2> HIDE DEF c
  <2>6. Shares
    BY <2>4, <2>5, EdDeskCell
  <2> QED  BY <2>1, <2>6
<1> QED  BY <1>1, <1>2

LEMMA EdRuns ==
  ASSUME Editor!ScreenInv, Editor!Run
  PROVE  Shares /\ s7' \in Seq(Editor!Jobs) /\ Editor!OneSave' /\ Editor!TookFrozen'
<1>1. PICK i \in DOMAIN s7 :
        \/ s7[i].kind = "load" /\ Editor!Ran(i, s8[s7[i].zone].cache # 0, s8[s7[i].zone].cache) /\ UNCHANGED s8
        \/ s7[i].kind = "save" /\ Editor!Edit(i, s6)
        \/ s7[i].kind = "import" /\ \E v \in VALUES : Editor!Edit(i, v)
        \/ s7[i].kind = "export" /\ Editor!Ran(i, TRUE, 0) /\ UNCHANGED s8
  BY DEF Editor!Run
<1>2. UNCHANGED <<now, ses, clock, last, seen, s6>>
  BY DEF Editor!Run
<1>3. s6 \in Editor!Maybe /\ s7[i].zone \in ED_ZONES /\ s8 \in [ED_ZONES -> Editor!Cells] /\ 0 \in Editor!Maybe
  BY EdForms DEF Editor!Jobs, Editor!Maybe
<1>4. s8[s7[i].zone].cache \in Editor!Maybe
  BY <1>3 DEF Editor!Cells
<1>5. Shares /\ \E ok \in BOOLEAN, v \in Editor!Maybe : Editor!Ran(i, ok, v) /\ (s7[i].kind = "save" => v = s6)
  <2>1. CASE s7[i].kind = "load" /\ Editor!Ran(i, s8[s7[i].zone].cache # 0, s8[s7[i].zone].cache) /\ UNCHANGED s8
    <3>1. (s8[s7[i].zone].cache # 0) \in BOOLEAN
      OBVIOUS
    <3> QED  BY <1>2, <1>4, <2>1, <3>1, EdDeskSame
  <2>2. CASE s7[i].kind = "save" /\ Editor!Edit(i, s6)
    BY <1>2, <1>3, <2>2, EdEdits
  <2>3. CASE s7[i].kind = "import" /\ \E v \in VALUES : Editor!Edit(i, v)
    <3>1. PICK v \in VALUES : Editor!Edit(i, v)
      BY <2>3
    <3>2. v \in Editor!Maybe
      BY DEF Editor!Maybe
    <3> QED  BY <1>2, <2>3, <3>1, <3>2, EdEdits
  <2>4. CASE s7[i].kind = "export" /\ Editor!Ran(i, TRUE, 0) /\ UNCHANGED s8
    BY <1>2, <1>3, <2>4, EdDeskSame
  <2> QED  BY <1>1, <2>1, <2>2, <2>3, <2>4
<1>6. PICK ok \in BOOLEAN, v \in Editor!Maybe : Editor!Ran(i, ok, v) /\ (s7[i].kind = "save" => v = s6)
  BY <1>5
<1>7. /\ s7' \in Seq(Editor!Jobs) /\ DOMAIN s7' = DOMAIN s7
      /\ \A k \in DOMAIN s7 : k # i => s7'[k] = s7[k]
      /\ s7'[i].kind = s7[i].kind /\ s7'[i].val = v
  BY <1>6, EdRan
<1>8. Editor!SaveJobs' = Editor!SaveJobs
  BY <1>7 DEF Editor!SaveJobs
<1>9. Editor!OneSave'
  BY <1>8, EdForms DEF Editor!OneSave
<1>10. ASSUME NEW k \in Editor!SaveJobs PROVE clock.saving /\ (s7'[k].ran /\ s7'[k].ok => s7'[k].val = s6)
  <2>1. clock.saving /\ (s7[k].ran /\ s7[k].ok => s7[k].val = s6)
    BY EdForms DEF Editor!TookFrozen
  <2>2. k \in DOMAIN s7 /\ s7[k].kind = "save"
    BY DEF Editor!SaveJobs
  <2>3. CASE k = i
    BY <1>6, <1>7, <2>1, <2>2, <2>3
  <2>4. CASE k # i
    BY <1>7, <2>1, <2>2, <2>4
  <2> QED  BY <2>3, <2>4
<1>11. Editor!TookFrozen'
  BY <1>2, <1>8, <1>10 DEF Editor!TookFrozen
<1> QED  BY <1>5, <1>7, <1>9, <1>11

Backed == Shares /\ s7' \in Seq(Editor!Jobs) /\ Editor!OneSave' /\ Editor!TookFrozen'

LEMMA EdBacks ==
  ASSUME Editor!ScreenInv, Shares, s6' = s6, NEW d \in {0, 1}, Follows(s7', d)
  PROVE  Backed
BY EdCarries DEF Backed, Shares

LEMMA EdBacksSame == ASSUME Editor!ScreenInv, Shares, UNCHANGED <<s6, s7>> PROVE Backed
<1>1. Follows(s7', 0)
  BY EdFollowsSelf
<1> QED  BY <1>1, EdBacks

LEMMA EdSubmitsCard ==
  ASSUME Editor!ScreenInv, UNCHANGED <<clock, s8, s6>>, NEW k \in {"import", "export"}, NEW z \in ED_ZONES,
         Editor!CardSubmit(k, z)
  PROVE  Backed
<1>1. s7' = s7 \/ s7' = Append(s7, Editor!Job(k, z, 0))
  BY DEF Editor!CardSubmit
<1>2. Follows(s7', 0)
  BY <1>1, EdFollowsSelf, EdFollowsAppend
<1> QED  BY <1>2, EdDeskSubmit, EdBacks

LEMMA EdSaves == ASSUME Editor!ScreenInv, Editor!Save PROVE Backed
<1>1. UNCHANGED <<last, s8, seen>> /\ ~ clock.saving /\ now.state = "loaded"
      /\ s6' = seen[now.zone]
      /\ IF Editor!Room
         THEN s7' = Append(s7, Editor!Job("save", now.zone, 0)) /\ clock' = [saving |-> TRUE, ui |-> TRUE, kept |-> 0]
         ELSE s7' = s7 /\ clock' = clock
  BY DEF Editor!Save
<1>2. Shares
  <2>1. clock' = clock \/ \E u, v : clock' = [saving |-> TRUE, ui |-> u, kept |-> v]
    BY <1>1
  <2> QED  BY <1>1, <2>1, EdDeskMarks
<1>3. Editor!SaveJobs = {}
  BY <1>1, EdForms DEF Editor!TookFrozen
<1>4. CASE s7' = s7
  <2>1. Editor!SaveJobs' = {}
    BY <1>3, <1>4 DEF Editor!SaveJobs
  <2> QED  BY <1>2, <1>4, <2>1, EdForms DEF Backed, Editor!OneSave, Editor!TookFrozen
<1>5. CASE s7' = Append(s7, Editor!Job("save", now.zone, 0)) /\ clock'.saving
  <2> DEFINE j == Editor!Job("save", now.zone, 0)
  <2>1. now.zone \in ED_ZONES
    BY <1>1, EdForms
  <2>2. j \in Editor!Jobs
    BY <2>1 DEF Editor!Job, Editor!Jobs, Editor!Kinds, Editor!Maybe
  <2>3. ~ j.ran
    BY DEF Editor!Job
  <2>4. s7 \in Seq(Editor!Jobs)
    BY EdForms
  <2> HIDE DEF j
  <2>5. /\ s7' \in Seq(Editor!Jobs) /\ DOMAIN s7' = 1 .. Len(s7) + 1 /\ s7'[Len(s7) + 1] = j
        /\ DOMAIN s7 = 1 .. Len(s7) /\ Len(s7) \in Nat /\ \A i \in DOMAIN s7 : s7'[i] = s7[i]
    BY <1>5, <2>2, <2>4 DEF j
  <2>6. \A i \in Editor!SaveJobs' : i \in DOMAIN s7' /\ (i = Len(s7) + 1 \/ i \in Editor!SaveJobs)
    BY <2>5 DEF Editor!SaveJobs
  <2>7. \A i \in Editor!SaveJobs' : i = Len(s7) + 1 /\ ~ s7'[i].ran
    BY <1>3, <2>3, <2>5, <2>6
  <2> QED  BY <1>2, <1>5, <2>5, <2>7 DEF Backed, Editor!OneSave, Editor!TookFrozen
<1> QED  BY <1>1, <1>4, <1>5

LEMMA EdOperates == ASSUME Editor!ScreenInv, Editor!Operator PROVE Backed
<1>1. CASE \E z \in ED_ZONES : Editor!Pick(z) \/ Editor!Enter(z)
  <2>1. PICK z \in ED_ZONES, js \in {s7, Editor!Stale(s7)} : Editor!Open(z, js) /\ UNCHANGED s8
    BY <1>1 DEF Editor!Pick, Editor!Enter
  <2>2. Follows(s7', 0)
    BY <2>1, EdFollowsOpen
  <2>3. UNCHANGED <<clock, s6>> /\ last' = [last EXCEPT !.ask = 0]
    BY <2>1 DEF Editor!Open
  <2> QED  BY <2>1, <2>2, <2>3, EdDeskCard, EdBacks
<1>2. CASE Editor!Leave
  <2>1. UNCHANGED <<clock, last, s6, s8>> /\ s7' = Editor!Stale(s7)
    BY <1>2 DEF Editor!Leave
  <2> QED  BY <2>1, EdFollowsStale, EdDeskSame, EdBacks
<1>3. CASE Editor!Retry
  <2>1. UNCHANGED <<clock, last, s6, s8>> /\ s7' = Editor!SubmitLoad(now.zone).jobs /\ now.state # "closed"
    BY <1>3 DEF Editor!Retry, Editor!StartLoading
  <2>2. now.zone \in ED_ZONES
    BY <2>1, EdForms
  <2> QED  BY <2>1, <2>2, EdFollowsSubmit, EdDeskSame, EdBacks
<1>4. CASE Editor!Keyboard \/ Editor!Finish
  <2>1. UNCHANGED <<clock, last, s6, s7, s8>>
    BY <1>4 DEF Editor!Keyboard, Editor!Finish
  <2> QED  BY <2>1, EdDeskSame, EdBacksSame
<1>5. CASE Editor!Save
  BY <1>5, EdSaves
<1>6. CASE Editor!Export
  <2>1. UNCHANGED <<clock, s6, s8>> /\ Editor!CardSubmit("export", now.zone) /\ now.state # "closed"
    BY <1>6 DEF Editor!Export
  <2>2. now.zone \in ED_ZONES
    BY <2>1, EdForms
  <2> QED  BY <2>1, <2>2, EdSubmitsCard
<1>7. CASE Editor!AskImport
  <2>1. UNCHANGED <<clock, s6, s7, s8>> /\ last' = [last EXCEPT !.ask = now.zone] /\ now.state # "closed"
    BY <1>7 DEF Editor!AskImport
  <2>2. now.zone \in ED_ZONES
    BY <2>1, EdForms
  <2>3. Shares
    BY <2>1, <2>2, EdDeskCard
  <2> QED  BY <2>1, <2>3, EdBacksSame
<1>8. CASE Editor!Answer
  <2>1. UNCHANGED <<clock, s6, s8>> /\ last.ask # 0
        /\ (Editor!CardSubmit("import", last.ask) \/ (s7' = s7 /\ last' = [last EXCEPT !.ask = 0]))
    BY <1>8 DEF Editor!Answer
  <2>2. CASE Editor!CardSubmit("import", last.ask)
    <3>1. last.ask \in ED_ZONES
      BY <2>1, EdForms
    <3> QED  BY <2>1, <2>2, <3>1, EdSubmitsCard
  <2>3. CASE s7' = s7 /\ last' = [last EXCEPT !.ask = 0]
    <3>1. Shares
      BY <2>1, <2>3, EdDeskCard
    <3> QED  BY <2>1, <2>3, <3>1, EdBacksSame
  <2> QED  BY <2>1, <2>2, <2>3
<1> QED  BY <1>1, <1>2, <1>3, <1>4, <1>5, <1>6, <1>7, <1>8 DEF Editor!Operator

(* An answer is taken off the head, with another load queued or without.     *)
LEMMA EdTakes ==
  ASSUME Editor!ScreenInv, s7 # <<>>, Shares, s6' = s6, NEW z,
         s7' = Tail(s7) \/ (z \in ED_ZONES /\ s7' = Tail(Append(s7, Editor!Job("load", z, 0))))
  PROVE  Backed
<1>1. CASE s7' = Tail(s7)
  BY <1>1, EdFollowsSelf, EdFollowsTail, EdBacks
<1>2. CASE z \in ED_ZONES /\ s7' = Tail(Append(s7, Editor!Job("load", z, 0)))
  <2> DEFINE q == Append(s7, Editor!Job("load", z, 0))
  <2>1. Follows(q, 0)
    BY <1>2, EdFollowsSelf, EdFollowsAppend
  <2>2. q # <<>>
    <3>1. s7 \in Seq(Editor!Jobs) /\ Editor!Job("load", z, 0) \in Editor!Jobs
      BY <1>2, EdForms DEF Editor!Job, Editor!Jobs, Editor!Kinds, Editor!Maybe
    <3>2. Len(q) = Len(s7) + 1 /\ Len(s7) \in Nat
      BY <3>1
    <3> QED  BY <3>2
  <2> HIDE DEF q
  <2>3. Follows(Tail(q), 1)
    BY <2>1, <2>2, EdFollowsTail
  <2> QED  BY <1>2, <2>3, EdBacks DEF q
<1> QED  BY <1>1, <1>2

LEMMA EdDrains == ASSUME Editor!ScreenInv, Editor!LoadStale \/ Editor!LoadDone \/ Editor!CardDone PROVE Backed
<1>1. CASE Editor!LoadStale
  <2> DEFINE resubmit == ses.again /\ now.state = "loading" /\ Editor!Room
  <2>1. /\ UNCHANGED <<clock, last, s6, s8>> /\ s7 # <<>>
        /\ s7' = Tail(IF resubmit THEN Append(s7, Editor!Job("load", now.zone, 0)) ELSE s7)
    BY <1>1 DEF Editor!LoadStale, Editor!Delivered
  <2>2. resubmit => now.zone \in ED_ZONES
    BY EdForms
  <2> HIDE DEF resubmit
  <2>3. s7' = Tail(s7) \/ (now.zone \in ED_ZONES /\ s7' = Tail(Append(s7, Editor!Job("load", now.zone, 0))))
    BY <2>1, <2>2
  <2> QED  BY <2>1, <2>3, EdDeskSame, EdTakes
<1>2. CASE Editor!LoadDone
  <2> DEFINE again == ses.again /\ Head(s7).ok /\ Editor!Room
  <2>1. /\ UNCHANGED <<last, s6, s8>> /\ s7 # <<>> /\ now.state # "closed"
        /\ s7' = Tail(IF again THEN Append(s7, Editor!Job("load", now.zone, 0)) ELSE s7)
        /\ clock' = clock \/ clock' = Editor!Sync(clock, TRUE)
    BY <1>2 DEF Editor!LoadDone, Editor!Delivered
  <2>2. Shares
    BY <2>1, EdSyncs, EdDeskMarks
  <2>3. now.zone \in ED_ZONES
    BY <2>1, EdForms
  <2> HIDE DEF again
  <2>4. s7' = Tail(s7) \/ (now.zone \in ED_ZONES /\ s7' = Tail(Append(s7, Editor!Job("load", now.zone, 0))))
    BY <2>1, <2>3
  <2> QED  BY <2>1, <2>2, <2>4, EdTakes
<1>3. CASE Editor!CardDone
  <2>1. UNCHANGED <<clock, s6, s8>> /\ s7 # <<>> /\ s7' = Tail(s7) /\ last' = [last EXCEPT !.busy = FALSE]
    BY <1>3 DEF Editor!CardDone, Editor!Delivered
  <2>2. Shares
    BY <2>1, EdDeskCard
  <2> QED  BY <2>1, <2>2, EdTakes
<1> QED  BY <1>1, <1>2, <1>3

(* The save that ends was the only one.                                      *)
LEMMA EdSaveEnds ==
  ASSUME Editor!ScreenInv, Editor!SaveDone
  PROVE  Desk' /\ s7' \in Seq(Editor!Jobs) /\ Editor!OneSave' /\ Editor!TookFrozen'
<1>1. /\ UNCHANGED <<last, s8>> /\ s7 # <<>> /\ Head(s7).kind = "save" /\ s7' = Tail(s7)
      /\ \/ clock' = [saving |-> FALSE, ui |-> FALSE, kept |-> 0]
         \/ clock' = [clock EXCEPT !.saving = FALSE, !.kept = Head(s7).zone]
  BY DEF Editor!SaveDone, Editor!Delivered
<1>2. DOMAIN clock' = {"saving", "ui", "kept"}
  <2>1. DOMAIN clock = {"saving", "ui", "kept"}
    BY EdForms
  <2>2. CASE clock' = [saving |-> FALSE, ui |-> FALSE, kept |-> 0]
    BY <2>2
  <2>3. CASE clock' = [clock EXCEPT !.saving = FALSE, !.kept = Head(s7).zone]
    BY <2>1, <2>3
  <2> QED  BY <1>1, <2>2, <2>3
<1>3. Desk'
  BY <1>1, <1>2, EdDeskNow DEF Desk
<1>4. s7 \in Seq(Editor!Jobs)
  BY EdForms
<1>5. /\ s7' \in Seq(Editor!Jobs) /\ DOMAIN s7' = 1 .. Len(s7) - 1 /\ Len(s7) \in Nat /\ Len(s7) > 0
      /\ DOMAIN s7 = 1 .. Len(s7) /\ Head(s7) = s7[1] /\ \A i \in DOMAIN s7' : s7'[i] = s7[i + 1]
  BY <1>1, <1>4
<1>6. 1 \in Editor!SaveJobs
  BY <1>1, <1>5 DEF Editor!SaveJobs
<1>7. Editor!SaveJobs' = {}
  <2> SUFFICES ASSUME NEW i \in Editor!SaveJobs' PROVE FALSE
    OBVIOUS
  <2>1. i \in DOMAIN s7' /\ s7'[i].kind = "save"
    BY DEF Editor!SaveJobs
  <2>2. i \in Int /\ i > 0 /\ i + 1 \in DOMAIN s7 /\ s7[i + 1].kind = "save"
    BY <1>5, <2>1
  <2>3. i + 1 \in Editor!SaveJobs
    BY <2>2 DEF Editor!SaveJobs
  <2>4. i + 1 = 1
    BY <1>6, <2>3, EdForms DEF Editor!OneSave
  <2> QED  BY <2>2, <2>4
<1> QED  BY <1>3, <1>5, <1>7 DEF Editor!OneSave, Editor!TookFrozen

LEMMA EdReloads == ASSUME Editor!ScreenInv, Editor!Reload PROVE Backed
<1>1. UNCHANGED <<clock, last, s6, s8>> /\ (s7' = s7 \/ (now.state = "loaded" /\ s7' = Editor!SubmitLoad(now.zone).jobs))
  BY DEF Editor!Reload
<1>2. CASE s7' = s7
  BY <1>1, <1>2, EdDeskSame, EdBacksSame
<1>3. CASE now.state = "loaded" /\ s7' = Editor!SubmitLoad(now.zone).jobs
  <2>1. now.zone \in ED_ZONES
    BY <1>3, EdForms
  <2> QED  BY <1>1, <1>3, <2>1, EdFollowsSubmit, EdDeskSame, EdBacks
<1> QED  BY <1>1, <1>2, <1>3

LEMMA EdUpdates == ASSUME Editor!ScreenInv, Editor!Update PROVE Backed
<1>1. CASE Editor!UpdateLoading \/ Editor!UpdateFailed
  <2>1. DOMAIN now = {"state", "zone", "doc", "shown", "kb", "redraw", "watch", "reload", "healed"}
    BY EdForms
  <2>2. [now EXCEPT !.healed = TRUE].zone = now.zone
    BY <2>1
  <2>3. /\ UNCHANGED <<clock, last, s6, s8>> /\ now.state # "closed"
        /\ s7' = s7 \/ s7' = Editor!SubmitLoad(now.zone).jobs
    BY <1>1, <2>2 DEF Editor!UpdateLoading, Editor!UpdateFailed, Editor!StartLoading
  <2>4. now.zone \in ED_ZONES
    BY <2>3, EdForms
  <2>5. Follows(s7', 0)
    BY <2>3, <2>4, EdFollowsSubmit, EdFollowsSelf
  <2> QED  BY <2>3, <2>5, EdDeskSame, EdBacks
<1>2. CASE Editor!UpdateLoaded
  <2>1. UNCHANGED <<last, s6, s7, s8>> /\ clock' = Editor!Sync(clock, FALSE)
    BY <1>2 DEF Editor!UpdateLoaded
  <2>2. Shares
    BY <2>1, EdSyncs, EdDeskMarks
  <2> QED  BY <2>1, <2>2, EdBacksSame
<1> QED  BY <1>1, <1>2 DEF Editor!Update

LEMMA EdWipes == ASSUME Editor!ScreenInv, Editor!IdleWipe PROVE Backed
<1>1. UNCHANGED <<s6, s7, s8>> /\ clock' = [clock EXCEPT !.kept = 0] /\ last' = [last EXCEPT !.ask = 0]
  BY DEF Editor!IdleWipe
<1>2. DOMAIN clock' = {"saving", "ui", "kept"} /\ clock'.saving = clock.saving
  BY <1>1, EdForms
<1>3. DOMAIN last' = {"busy", "ask"} /\ last'.ask = 0
  BY <1>1, EdForms
<1>4. Shares
  BY <1>1, <1>2, <1>3, EdForms DEF Shares, Desk
<1> QED  BY <1>1, <1>4, EdBacksSame

LEMMA EdManages == ASSUME Editor!ScreenInv, Editor!NodeMgr PROVE Backed
<1>1. PICK z \in ED_ZONES : Editor!Take(z) \/ Editor!Push(z) \/ Editor!EndPush(z) \/ Editor!Pull(z)
  BY DEF Editor!NodeMgr
<1>2. UNCHANGED <<clock, last, s6, s7>>
  BY <1>1 DEF Editor!Take, Editor!Push, Editor!EndPush, Editor!Pull, Editor!frame
<1>3. s8 \in [ED_ZONES -> Editor!Cells] /\ s8[z] \in Editor!Cells
  BY EdForms
<1>4. \E c \in Editor!Cells : s8' = [s8 EXCEPT ![z] = c]
  <2>1. CASE Editor!Take(z)
    <3>1. [s8[z] EXCEPT !.st = "taken"] \in Editor!Cells
      BY <1>3 DEF Editor!Cells
    <3> QED  BY <1>3, <2>1, <3>1 DEF Editor!Take
  <2>2. CASE Editor!Push(z)
    <3>1. [s8[z] EXCEPT !.st = "pushing"] \in Editor!Cells
      BY <1>3 DEF Editor!Cells
    <3> QED  BY <1>3, <2>2, <3>1 DEF Editor!Push
  <2>3. CASE Editor!EndPush(z)
    <3> DEFINE c(ok) == [cache |-> IF ok THEN s8[z].val ELSE s8[z].cache, st |-> "idle", val |-> 0, who |-> "none"]
    <3>1. PICK ok \in BOOLEAN : s8' = [s8 EXCEPT ![z] = c(ok)]
      BY <2>3 DEF Editor!EndPush
    <3>2. c(ok) \in Editor!Cells
      BY <1>3 DEF Editor!Cells, Editor!Maybe
    <3> QED  BY <3>1, <3>2
  <2>4. CASE Editor!Pull(z)
    <3>1. Editor!AnyValue \in Editor!Maybe
      BY EditBounds DEF Editor!AnyValue, Editor!Maybe
    <3>2. [s8[z] EXCEPT !.cache = Editor!AnyValue] \in Editor!Cells
      BY <1>3, <3>1 DEF Editor!Cells
    <3> QED  BY <1>3, <2>4, <3>2 DEF Editor!Pull
  <2> QED  BY <1>1, <2>1, <2>2, <2>3, <2>4
<1>5. Shares
  BY <1>2, <1>4, EdDeskCell
<1> QED  BY <1>2, <1>5, EdBacksSame

(* All of it, for a step.                                                    *)
LEMMA EdKeeps ==
  ASSUME Editor!ScreenInv, Editor!Next \/ UNCHANGED slots
  PROVE  Desk' /\ s7' \in Seq(Editor!Jobs) /\ Editor!OneSave' /\ Editor!TookFrozen'
<1>1. CASE UNCHANGED slots \/ Editor!Gather \/ Editor!Publish
  <2>1. UNCHANGED <<clock, last, s6, s7, s8>>
    BY <1>1 DEF slots, Editor!Gather, Editor!Publish, Editor!frame
  <2> QED  BY <2>1, EdDeskSame, EdBacksSame DEF Backed, Shares
<1>2. CASE Editor!Operator
  BY <1>2, EdOperates DEF Backed, Shares
<1>3. CASE Editor!Run
  BY <1>3, EdRuns DEF Shares
<1>4. CASE Editor!Drain
  BY <1>4, EdDrains, EdSaveEnds DEF Editor!Drain, Backed, Shares
<1>5. CASE Editor!Reload \/ Editor!Update \/ Editor!IdleWipe \/ Editor!NodeMgr
  BY <1>5, EdReloads, EdUpdates, EdWipes, EdManages DEF Backed, Shares
<1> QED  BY <1>1, <1>2, <1>3, <1>4, <1>5 DEF Editor!Next

-----------------------------------------------------------------------------
(* The screen: an editor e that is right over the edits es.                  *)
EdFields == {"state", "zone", "doc", "shown", "kb", "redraw", "watch", "reload", "healed"}

Whole(e) == DOMAIN e = EdFields /\ (e.state # "closed" => e.zone \in ED_ZONES)

Right(e, es) ==
  /\ Whole(e)
  /\ e.state = "loaded" /\ ~ e.redraw => e.shown = Editor!Text(e.zone, e.doc, es)

LEMMA EdRightNow == ASSUME Editor!ScreenInv PROVE Whole(now) /\ Right(now, seen)
BY EdForms DEF Whole, Right, EdFields, Editor!ScreenTrue

LEMMA EdRenders ==
  ASSUME NEW e, Whole(e), NEW es PROVE Right(Editor!Render(e, es), es)
<1> DEFINE t == Editor!Text(e.zone, e.doc, es)
           r == [e EXCEPT !.shown = t, !.kb = FALSE]
<1>1. Editor!Render(e, es) = r
  BY DEF Editor!Render
<1> HIDE DEF t
<1>2. DOMAIN r = EdFields /\ r.state = e.state /\ r.zone = e.zone /\ r.doc = e.doc /\ r.shown = t
  BY DEF Whole, EdFields
<1> HIDE DEF r
<1> QED  BY <1>1, <1>2 DEF Right, Whole, t

LEMMA EdMarks ==
  ASSUME NEW e, Whole(e), NEW es PROVE Right([e EXCEPT !.redraw = TRUE], es)
<1> DEFINE r == [e EXCEPT !.redraw = TRUE]
<1>1. DOMAIN r = EdFields /\ r.state = e.state /\ r.zone = e.zone /\ r.redraw
  BY DEF Whole, EdFields
<1> HIDE DEF r
<1> QED  BY <1>1 DEF Right, Whole

LEMMA EdRedraws ==
  ASSUME NEW e, Whole(e), NEW es PROVE Right(Editor!Redraw(e, es), es)
<1>1. CASE e.kb
  BY <1>1, EdMarks DEF Editor!Redraw
<1>2. CASE ~ e.kb
  BY <1>2, EdRenders DEF Editor!Redraw
<1> QED  BY <1>1, <1>2

(* What is neither the text nor what it is made of.                          *)
LEMMA EdAside ==
  ASSUME NEW e, NEW es, Right(e, es), NEW x
  PROVE  /\ Right([e EXCEPT !.kb = x], es) /\ Right([e EXCEPT !.watch = x], es)
         /\ Right([e EXCEPT !.reload = x], es) /\ Right([e EXCEPT !.healed = x], es)
<1> DEFINE a == [e EXCEPT !.kb = x]
           b == [e EXCEPT !.watch = x]
           c == [e EXCEPT !.reload = x]
           d == [e EXCEPT !.healed = x]
           Same(r) == /\ DOMAIN r = EdFields /\ r.state = e.state /\ r.zone = e.zone
                      /\ r.doc = e.doc /\ r.shown = e.shown /\ r.redraw = e.redraw
<1>1. Same(a)
  BY DEF Right, Whole, EdFields
<1>2. Same(b)
  BY DEF Right, Whole, EdFields
<1>3. Same(c)
  BY DEF Right, Whole, EdFields
<1>4. Same(d)
  BY DEF Right, Whole, EdFields
<1> HIDE DEF a, b, c, d
<1>5. Right(a, es)
  BY <1>1 DEF Right, Whole
<1>6. Right(b, es)
  BY <1>2 DEF Right, Whole
<1>7. Right(c, es)
  BY <1>3 DEF Right, Whole
<1>8. Right(d, es)
  BY <1>4 DEF Right, Whole
<1> QED  BY <1>5, <1>6, <1>7, <1>8 DEF a, b, c, d

(* An editor that loads, or failed to, shows no row.                         *)
LEMMA EdUnloaded ==
  ASSUME NEW e, Whole(e), e.zone \in ED_ZONES, NEW es, NEW st \in {"loading", "failed"}
  PROVE  Right([e EXCEPT !.state = st], es)
<1> DEFINE r == [e EXCEPT !.state = st]
<1>1. DOMAIN r = EdFields /\ r.state = st /\ r.zone = e.zone
  BY DEF Whole, EdFields
<1> HIDE DEF r
<1> QED  BY <1>1 DEF Right, Whole

LEMMA EdWholes ==
  ASSUME NEW e, Whole(e), NEW x
  PROVE  /\ Whole([e EXCEPT !.doc = x]) /\ Whole([e EXCEPT !.watch = x]) /\ Whole([e EXCEPT !.reload = x])
         /\ Whole([e EXCEPT !.redraw = x]) /\ Whole([e EXCEPT !.healed = x])
<1> DEFINE a == [e EXCEPT !.doc = x]
           b == [e EXCEPT !.watch = x]
           c == [e EXCEPT !.reload = x]
           d == [e EXCEPT !.redraw = x]
           f == [e EXCEPT !.healed = x]
           Same(r) == DOMAIN r = EdFields /\ r.state = e.state /\ r.zone = e.zone
<1>1. Same(a) /\ Same(b) /\ Same(c)
  BY DEF Whole, EdFields
<1>2. Same(d) /\ Same(f)
  BY DEF Whole, EdFields
<1> HIDE DEF a, b, c, d, f
<1>3. Whole(a) /\ Whole(b) /\ Whole(c)
  BY <1>1 DEF Whole
<1>4. Whole(d) /\ Whole(f)
  BY <1>2 DEF Whole
<1> QED  BY <1>3, <1>4 DEF a, b, c, d, f

(* The edits of other zones are not on this screen.                          *)
LEMMA EdElsewhere ==
  ASSUME NEW e, NEW es, NEW fs, Right(e, es), e.state = "loaded" => fs[e.zone] = es[e.zone]
  PROVE  Right(e, fs)
BY DEF Right, Editor!Text

LEMMA EdClosed == ASSUME NEW es PROVE Whole(Editor!Closed) /\ Right(Editor!Closed, es)
<1>1. DOMAIN Editor!Closed = EdFields /\ Editor!Closed.state = "closed"
  BY DEF Editor!Closed, EdFields
<1> QED  BY <1>1 DEF Right, Whole

(* The screen of a step.                                                     *)
LEMMA EdScreens ==
  ASSUME Right(now', seen')
  PROVE  Editor!ScreenTrue' /\ DOMAIN now' = DOMAIN Editor!Closed /\ (now'.state # "closed" => now'.zone \in ED_ZONES)
<1>1. DOMAIN Editor!Closed = EdFields
  BY DEF Editor!Closed, EdFields
<1>2. DOMAIN now' = EdFields /\ (now'.state # "closed" => now'.zone \in ED_ZONES)
  BY DEF Right, Whole
<1>3. now'.state = "loaded" /\ ~ now'.redraw => now'.shown = Editor!Text(now'.zone, now'.doc, seen')
  BY DEF Right
<1> QED  BY <1>1, <1>2, <1>3 DEF Editor!ScreenTrue

Drawn == Right(now', seen') /\ seen' \in [ED_ZONES -> Editor!Maybe] /\ s6' \in Editor!Maybe

LEMMA EdDraws ==
  ASSUME Editor!ScreenInv, UNCHANGED <<seen, s6>>, Right(now', seen)
  PROVE  Drawn
<1>1. seen \in [ED_ZONES -> Editor!Maybe] /\ s6 \in Editor!Maybe
  BY EdForms
<1> QED  BY <1>1 DEF Drawn

LEMMA EdDrawsSame == ASSUME Editor!ScreenInv, UNCHANGED <<now, seen, s6>> PROVE Drawn
<1>1. Right(now', seen)
  BY EdRightNow
<1> QED  BY <1>1, EdDraws

LEMMA EdDrawsOpen == ASSUME Editor!ScreenInv, NEW z \in ED_ZONES, NEW js, Editor!Open(z, js) PROVE Drawn
<1> DEFINE st == IF Editor!SubmitLoad(z).ok THEN "loading" ELSE "failed"
           e == [Editor!Closed EXCEPT !.zone = z, !.state = st]
<1>1. now' = e /\ UNCHANGED <<seen, s6>>
  BY DEF Editor!Open
<1>2. st \in {"loading", "failed"}
  OBVIOUS
<1> HIDE DEF st
<1>3. DOMAIN e = EdFields /\ e.state = st /\ e.zone = z
  BY DEF Editor!Closed, EdFields
<1> HIDE DEF e
<1>4. Right(now', seen)
  BY <1>1, <1>2, <1>3 DEF Right, Whole
<1> QED  BY <1>1, <1>4, EdDraws

LEMMA EdDrawsStart ==
  ASSUME Editor!ScreenInv, UNCHANGED <<seen, s6>>, NEW e, Whole(e), e.zone \in ED_ZONES, Editor!StartLoading(e)
  PROVE  Drawn
<1>1. PICK st \in {"loading", "failed"} : now' = [e EXCEPT !.state = st]
  <2> DEFINE st == IF Editor!SubmitLoad(e.zone).ok THEN "loading" ELSE "failed"
  <2>1. now' = [e EXCEPT !.state = st]
    BY DEF Editor!StartLoading
  <2>2. st \in {"loading", "failed"}
    OBVIOUS
  <2> HIDE DEF st
  <2> QED  BY <2>1, <2>2
<1>2. Right(now', seen)
  BY <1>1, EdUnloaded
<1> QED  BY <1>2, EdDraws

LEMMA EdDrawsFinish == ASSUME Editor!ScreenInv, Editor!Finish PROVE Drawn
<1>1. s6' = s6 /\ (\/ now' = [now EXCEPT !.kb = FALSE] /\ seen' = seen
                   \/ \E v \in VALUES : now' = [now EXCEPT !.kb = FALSE, !.shown = v] /\ seen' = Editor!SetEdit(now.zone, v))
  BY DEF Editor!Finish
<1>2. CASE now' = [now EXCEPT !.kb = FALSE] /\ seen' = seen
  <2>1. Right(now', seen)
    BY <1>2, EdRightNow, EdAside
  <2> QED  BY <1>1, <1>2, <2>1, EdDraws
<1>3. CASE \E v \in VALUES : now' = [now EXCEPT !.kb = FALSE, !.shown = v] /\ seen' = Editor!SetEdit(now.zone, v)
  <2>1. PICK v \in VALUES : now' = [now EXCEPT !.kb = FALSE, !.shown = v] /\ seen' = [seen EXCEPT ![now.zone] = v]
    BY <1>3 DEF Editor!SetEdit
  <2>2. DOMAIN now = EdFields /\ (now.state # "closed" => now.zone \in ED_ZONES)
    BY EdRightNow DEF Whole
  <2>3. DOMAIN now' = EdFields /\ now'.state = now.state /\ now'.zone = now.zone /\ now'.shown = v
    BY <2>1, <2>2 DEF EdFields
  <2>4. seen \in [ED_ZONES -> Editor!Maybe] /\ s6 \in Editor!Maybe /\ v \in Editor!Maybe /\ v # 0
    BY EdForms, EditBounds DEF Editor!Maybe
  <2>5. seen' \in [ED_ZONES -> Editor!Maybe] /\ (now.zone \in ED_ZONES => seen'[now.zone] = v)
    BY <2>1, <2>4
  <2>6. Right(now', seen')
    BY <2>2, <2>3, <2>4, <2>5 DEF Right, Whole, Editor!Text
  <2> QED  BY <1>1, <2>4, <2>5, <2>6 DEF Drawn
<1> QED  BY <1>1, <1>2, <1>3

LEMMA EdDrawsOperator == ASSUME Editor!ScreenInv, Editor!Operator PROVE Drawn
<1>1. CASE \E z \in ED_ZONES : Editor!Pick(z) \/ Editor!Enter(z)
  BY <1>1, EdDrawsOpen DEF Editor!Pick, Editor!Enter
<1>2. CASE Editor!Leave
  <2>1. now' = Editor!Closed /\ UNCHANGED <<seen, s6>>
    BY <1>2 DEF Editor!Leave
  <2> QED  BY <2>1, EdClosed, EdDraws
<1>3. CASE Editor!Retry
  <2>1. Editor!StartLoading(now) /\ UNCHANGED <<seen, s6>> /\ now.state # "closed"
    BY <1>3 DEF Editor!Retry
  <2>2. Whole(now) /\ now.zone \in ED_ZONES
    BY <2>1, EdRightNow, EdForms
  <2> QED  BY <2>1, <2>2, EdDrawsStart
<1>4. CASE Editor!Keyboard
  <2>1. now' = [now EXCEPT !.kb = TRUE] /\ UNCHANGED <<seen, s6>>
    BY <1>4 DEF Editor!Keyboard
  <2> QED  BY <2>1, EdRightNow, EdAside, EdDraws
<1>5. CASE Editor!Finish
  BY <1>5, EdDrawsFinish
<1>6. CASE Editor!Save
  <2>1. /\ seen' = seen /\ s6' = seen[now.zone] /\ now.state = "loaded"
        /\ now' = now \/ now' = [now EXCEPT !.watch = Editor!Off]
    BY <1>6 DEF Editor!Save
  <2>2. now.zone \in ED_ZONES /\ seen \in [ED_ZONES -> Editor!Maybe]
    BY <2>1, EdForms
  <2>3. Right([now EXCEPT !.watch = Editor!Off], seen) /\ Right(now, seen)
    BY EdRightNow, EdAside
  <2>4. Right(now', seen)
    BY <2>1, <2>3
  <2> QED  BY <2>1, <2>2, <2>4 DEF Drawn
<1>7. CASE Editor!Export \/ Editor!AskImport \/ Editor!Answer
  BY <1>7, EdDrawsSame DEF Editor!Export, Editor!AskImport, Editor!Answer
<1> QED  BY <1>1, <1>2, <1>3, <1>4, <1>5, <1>6, <1>7 DEF Editor!Operator

LEMMA EdDrawsLoad == ASSUME Editor!ScreenInv, Editor!LoadDone PROVE Drawn
<1> DEFINE e == [now EXCEPT !.doc = Head(s7).val, !.state = "loaded"]
           first == now.state # "loaded"
<1>1. /\ UNCHANGED <<seen, s6>> /\ now.state # "closed"
      /\ IF ~ Head(s7).ok THEN now' = IF first THEN [now EXCEPT !.state = "failed"] ELSE now
         ELSE now' = IF first THEN Editor!Build(e, seen) ELSE Editor!Redraw(e, seen)
  BY DEF Editor!LoadDone
<1>2. DOMAIN now = EdFields /\ now.zone \in ED_ZONES /\ Whole(now)
  BY <1>1, EdRightNow DEF Whole
<1>3. DOMAIN e = EdFields /\ e.zone = now.zone
  BY <1>2 DEF EdFields
<1> HIDE DEF e, first
<1>4. Whole(e)
  BY <1>2, <1>3 DEF Whole
<1>5. Right([now EXCEPT !.state = "failed"], seen)
  BY <1>2, EdUnloaded
<1>6. Right(Editor!Build(e, seen), seen) /\ Right(Editor!Redraw(e, seen), seen)
  BY <1>4, EdRenders, EdRedraws DEF Editor!Build
<1>7. now' \in {now, [now EXCEPT !.state = "failed"], Editor!Build(e, seen), Editor!Redraw(e, seen)}
  BY <1>1
<1>8. Right(now', seen)
  BY <1>5, <1>6, <1>7, EdRightNow
<1> QED  BY <1>1, <1>8, EdDraws

LEMMA EdDrawsSave == ASSUME Editor!ScreenInv, Editor!SaveDone PROVE Drawn
<1> DEFINE j == Head(s7)
           same == now.state # "closed" /\ j.zone = now.zone
           es == IF j.ok THEN Editor!DropSaved(j.zone) ELSE seen
           shown == IF j.ok /\ same /\ now.state = "loaded" THEN Editor!Merged(now) ELSE now
           e == IF j.ok /\ same THEN Editor!Follow(shown) ELSE shown
<1>1. /\ seen' = es /\ s6' = 0
      /\ IF j.live /\ same /\ now.state = "loaded"
         THEN now' = IF j.ok THEN Editor!Redraw(e, es) ELSE Editor!Refused(e, es)
         ELSE now' = IF j.ok /\ same THEN [e EXCEPT !.redraw = TRUE] ELSE e
  BY DEF Editor!SaveDone
<1>2. Whole(now) /\ Right(now, seen)
  BY EdRightNow
<1>3. Whole(e)
  <2>1. Whole(shown)
    BY <1>2, EdWholes DEF Editor!Merged
  <2> HIDE DEF shown
  <2>2. [shown EXCEPT !.watch = Editor!Watch, !.reload = TRUE] = [[shown EXCEPT !.watch = Editor!Watch] EXCEPT !.reload = TRUE]
    OBVIOUS
  <2>3. Whole(Editor!Follow(shown))
    BY <2>1, <2>2, EdWholes DEF Editor!Follow
  <2> QED  BY <2>1, <2>3
<1>4. seen \in [ED_ZONES -> Editor!Maybe] /\ 0 \in Editor!Maybe
  BY EdForms DEF Editor!Maybe
<1>5. es \in [ED_ZONES -> Editor!Maybe] /\ \A z \in ED_ZONES : z # j.zone => es[z] = seen[z]
  <2> DEFINE z == j.zone
             x == IF seen[z] = s6 THEN 0 ELSE seen[z]
  <2>1. Editor!DropSaved(z) = [seen EXCEPT ![z] = x]
    BY DEF Editor!DropSaved
  <2>2. z \in ED_ZONES => x \in Editor!Maybe
    BY <1>4
  <2> HIDE DEF x, z
  <2>3. Editor!DropSaved(z) \in [ED_ZONES -> Editor!Maybe] /\ \A y \in ED_ZONES : y # z => Editor!DropSaved(z)[y] = seen[y]
    BY <1>4, <2>1, <2>2
  <2> QED  BY <1>4, <2>3 DEF z
<1>6. ~ (j.ok /\ same) => e = now
  OBVIOUS
<1>7. j.ok \/ es = seen
  OBVIOUS
<1>8. now.state = "loaded" => now.zone \in ED_ZONES
  BY EdForms
<1>9. ~ (j.ok /\ same) => Right(now, es)
  <2>1. CASE es = seen
    BY <1>2, <2>1
  <2>2. CASE ~ same
    <3>1. now.state = "loaded" => es[now.zone] = seen[now.zone]
      BY <1>5, <1>8, <2>2
    <3> HIDE DEF es
    <3> QED  BY <1>2, <3>1, EdElsewhere
  <2> QED  BY <1>7, <2>1, <2>2
<1> HIDE DEF es, e, same, j
<1>10. j.ok /\ same => Right([e EXCEPT !.redraw = TRUE], es)
  BY <1>3, EdMarks
<1>11. Right(Editor!Redraw(e, es), es)
  BY <1>3, EdRedraws
<1>12. ~ (j.ok /\ same) => Right(Editor!Refused(e, es), es)
  BY <1>3, <1>6, <1>9, EdRenders DEF Editor!Refused
<1>13. Right(now', es)
  BY <1>1, <1>6, <1>9, <1>10, <1>11, <1>12
<1> QED  BY <1>1, <1>4, <1>5, <1>13 DEF Drawn

LEMMA EdDrawsCard == ASSUME Editor!ScreenInv, Editor!CardDone PROVE Drawn
<1>1. s6' = s6 /\ (UNCHANGED <<seen, now>> \/ Editor!Imported(Head(s7).zone))
  BY DEF Editor!CardDone
<1>2. CASE UNCHANGED <<seen, now>>
  BY <1>1, <1>2, EdDrawsSame
<1>3. CASE Editor!Imported(Head(s7).zone)
  <2> DEFINE z == Head(s7).zone
             e == Editor!Follow(now)
  <2>1. seen' = [seen EXCEPT ![z] = 0] /\ now' = IF now.state = "loaded" /\ z = now.zone THEN [e EXCEPT !.redraw = TRUE] ELSE now
    BY <1>3 DEF Editor!Imported
  <2>2. seen \in [ED_ZONES -> Editor!Maybe] /\ s6 \in Editor!Maybe /\ 0 \in Editor!Maybe
        /\ (now.state # "closed" => now.zone \in ED_ZONES)
    BY EdForms DEF Editor!Maybe
  <2> HIDE DEF z
  <2>3. seen' \in [ED_ZONES -> Editor!Maybe] /\ \A y \in ED_ZONES : y # z => seen'[y] = seen[y]
    BY <2>1, <2>2
  <2>4. CASE now.state = "loaded" /\ z = now.zone
    <3>1. [now EXCEPT !.watch = Editor!Watch, !.reload = TRUE] = [[now EXCEPT !.watch = Editor!Watch] EXCEPT !.reload = TRUE]
      OBVIOUS
    <3>2. Whole(e)
      BY <3>1, EdRightNow, EdWholes DEF Editor!Follow
    <3> HIDE DEF e
    <3>3. Right(now', seen')
      BY <2>1, <2>4, <3>2, EdMarks
    <3> QED  BY <1>1, <2>2, <2>3, <3>3 DEF Drawn
  <2>5. CASE ~ (now.state = "loaded" /\ z = now.zone)
    <3>1. now' = now
      BY <2>1, <2>5
    <3>2. now.state = "loaded" => seen'[now.zone] = seen[now.zone]
      BY <2>2, <2>3, <2>5
    <3>3. Right(now, seen')
      BY <3>2, EdRightNow, EdElsewhere
    <3> QED  BY <1>1, <2>2, <2>3, <3>1, <3>3 DEF Drawn
  <2> QED  BY <2>4, <2>5
<1> QED  BY <1>1, <1>2, <1>3

LEMMA EdDrawsPoll == ASSUME Editor!ScreenInv, Editor!Publish \/ Editor!Update PROVE Drawn
<1>1. UNCHANGED <<seen, s6>>
  BY DEF Editor!Publish, Editor!Update, Editor!UpdateLoading, Editor!UpdateFailed, Editor!UpdateLoaded
<1>2. CASE Editor!Publish
  <2> DEFINE x == IF now.watch \in {1, 2} THEN now.watch - 1 ELSE now.watch
  <2>1. now' = [now EXCEPT !.watch = x]
    BY <1>2 DEF Editor!Publish
  <2> HIDE DEF x
  <2> QED  BY <1>1, <2>1, EdRightNow, EdAside, EdDraws
<1>3. CASE Editor!UpdateLoading \/ Editor!UpdateFailed
  <2>1. \/ now' = now
        \/ now.state # "closed" /\ Editor!StartLoading(now)
        \/ now.state # "closed" /\ Editor!StartLoading([now EXCEPT !.healed = TRUE])
    BY <1>3 DEF Editor!UpdateLoading, Editor!UpdateFailed
  <2>2. CASE now' = now
    BY <1>1, <2>2, EdDrawsSame
  <2>3. CASE now.state # "closed" /\ Editor!StartLoading(now)
    <3>1. Whole(now) /\ now.zone \in ED_ZONES
      BY <2>3, EdRightNow, EdForms
    <3> QED  BY <1>1, <2>3, <3>1, EdDrawsStart
  <2>4. CASE now.state # "closed" /\ Editor!StartLoading([now EXCEPT !.healed = TRUE])
    <3> DEFINE e == [now EXCEPT !.healed = TRUE]
    <3>1. Whole(e)
      BY EdRightNow, EdWholes
    <3>2. DOMAIN now = EdFields /\ now.zone \in ED_ZONES
      BY <2>4, EdRightNow DEF Whole
    <3>3. e.zone = now.zone
      BY <3>2 DEF EdFields
    <3> HIDE DEF e
    <3> QED  BY <1>1, <2>4, <3>1, <3>2, <3>3, EdDrawsStart DEF e
  <2> QED  BY <2>1, <2>2, <2>3, <2>4
<1>4. CASE Editor!UpdateLoaded
  <2> DEFINE e == IF Editor!Ripe THEN [now EXCEPT !.watch = Editor!Off] ELSE now
             f == [e EXCEPT !.redraw = FALSE]
  <2>1. now' = IF e.redraw /\ ~ e.kb THEN Editor!Render(f, seen) ELSE e
    BY <1>4 DEF Editor!UpdateLoaded
  <2>2. Right(e, seen)
    BY EdRightNow, EdAside
  <2> HIDE DEF e
  <2>3. Whole(f)
    BY <2>2, EdWholes DEF Right
  <2> HIDE DEF f
  <2>4. Right(now', seen)
    BY <2>1, <2>2, <2>3, EdRenders
  <2> QED  BY <1>1, <2>4, EdDraws
<1> QED  BY <1>2, <1>3, <1>4 DEF Editor!Update

LEMMA EdDrawsStep == ASSUME Editor!ScreenInv, Editor!Next \/ UNCHANGED slots PROVE Drawn
<1>1. CASE UNCHANGED slots \/ Editor!Gather \/ Editor!Run \/ Editor!NodeMgr \/ Editor!LoadStale
  <2>1. UNCHANGED <<now, seen, s6>>
    BY <1>1 DEF slots, Editor!Gather, Editor!frame, Editor!Run, Editor!NodeMgr, Editor!Take, Editor!Push,
                Editor!EndPush, Editor!Pull, Editor!LoadStale
  <2> QED  BY <2>1, EdDrawsSame
<1>2. CASE Editor!Operator
  BY <1>2, EdDrawsOperator
<1>3. CASE Editor!LoadDone \/ Editor!SaveDone \/ Editor!CardDone
  BY <1>3, EdDrawsLoad, EdDrawsSave, EdDrawsCard
<1>4. CASE Editor!Publish \/ Editor!Update
  BY <1>4, EdDrawsPoll
<1>5. CASE Editor!Reload
  <2>1. now' = [now EXCEPT !.reload = FALSE] /\ UNCHANGED <<seen, s6>>
    BY <1>5 DEF Editor!Reload
  <2> QED  BY <2>1, EdRightNow, EdAside, EdDraws
<1>6. CASE Editor!IdleWipe
  <2>1. now' = Editor!Closed /\ seen' = [z \in ED_ZONES |-> 0] /\ s6' = s6
    BY <1>6 DEF Editor!IdleWipe
  <2>2. seen' \in [ED_ZONES -> Editor!Maybe] /\ s6 \in Editor!Maybe
    BY <2>1, EdForms DEF Editor!Maybe
  <2> QED  BY <2>1, <2>2, EdClosed DEF Drawn
<1> QED  BY <1>1, <1>2, <1>3, <1>4, <1>5, <1>6 DEF Editor!Next, Editor!Drain

LEMMA EdSteps == Editor!ScreenInv /\ (Editor!Next \/ UNCHANGED slots) => Editor!ScreenInv'
<1> SUFFICES ASSUME Editor!ScreenInv, Editor!Next \/ UNCHANGED slots PROVE Editor!ScreenInv'
  OBVIOUS
<1>1. Desk' /\ s7' \in Seq(Editor!Jobs) /\ Editor!OneSave' /\ Editor!TookFrozen'
  BY EdKeeps
<1>2. /\ Editor!ScreenTrue' /\ DOMAIN now' = DOMAIN Editor!Closed /\ (now'.state # "closed" => now'.zone \in ED_ZONES)
      /\ seen' \in [ED_ZONES -> Editor!Maybe] /\ s6' \in Editor!Maybe
  BY EdDrawsStep, EdScreens DEF Drawn
<1>3. Editor!Formed'
  BY <1>1, <1>2 DEF Desk, Editor!Formed, Editor!Closed
<1> QED  BY <1>1, <1>2, <1>3 DEF Editor!ScreenInv

-----------------------------------------------------------------------------
(* What ends an unsaved value.                                               *)
LEMMA EdSaved ==
  ASSUME Editor!ScreenInv, Editor!SaveDone, NEW z \in ED_ZONES, seen[z] # 0, seen'[z] = 0
  PROVE  Editor!Delivered("save") /\ Head(s7).ok /\ Head(s7).zone = z /\ Head(s7).val = seen[z]
<1> DEFINE y == Head(s7).zone
           x == IF seen[y] = s6 THEN 0 ELSE seen[y]
<1>1. Editor!Delivered("save") /\ (seen' = IF Head(s7).ok THEN Editor!DropSaved(y) ELSE seen)
  BY DEF Editor!SaveDone
<1>2. Editor!DropSaved(y) = [seen EXCEPT ![y] = x]
  BY DEF Editor!DropSaved
<1>3. seen \in [ED_ZONES -> Editor!Maybe]
  BY EdForms
<1>4. Head(s7).ok /\ seen' = Editor!DropSaved(y)
  BY <1>1
<1> HIDE DEF x, y
<1>5. y = z /\ x = 0
  BY <1>2, <1>3, <1>4
<1>6. seen[z] = s6
  BY <1>5 DEF x
<1>7. 1 \in Editor!SaveJobs /\ Head(s7) = s7[1]
  <2>1. s7 # <<>> /\ Head(s7).kind = "save" /\ s7 \in Seq(Editor!Jobs)
    BY <1>1, EdForms DEF Editor!Delivered
  <2>2. Head(s7) = s7[1] /\ 1 \in DOMAIN s7
    BY <2>1
  <2> QED  BY <2>1, <2>2 DEF Editor!SaveJobs
<1>8. Head(s7).val = s6
  <2>1. s7[1].ran /\ s7[1].ok
    BY <1>1, <1>4, <1>7 DEF Editor!Delivered
  <2> QED  BY <1>7, <2>1, EdForms DEF Editor!TookFrozen
<1> QED  BY <1>1, <1>4, <1>5, <1>6, <1>8 DEF y

LEMMA EdImported ==
  ASSUME Editor!ScreenInv, Editor!CardDone, NEW z \in ED_ZONES, seen[z] # 0, seen'[z] = 0
  PROVE  Editor!Delivered("import") /\ Head(s7).zone = z /\ Head(s7).ok
<1>1. /\ Editor!Delivered("import") \/ Editor!Delivered("export")
      /\ \/ Head(s7).kind = "import" /\ Head(s7).ok /\ seen' = [seen EXCEPT ![Head(s7).zone] = 0]
         \/ seen' = seen
  BY DEF Editor!CardDone, Editor!Imported
<1>2. Head(s7).kind = "import" /\ Head(s7).ok /\ seen' = [seen EXCEPT ![Head(s7).zone] = 0]
  BY <1>1
<1>3. seen \in [ED_ZONES -> Editor!Maybe]
  BY EdForms
<1>4. Head(s7).zone = z
  BY <1>2, <1>3
<1>5. Editor!Delivered("import")
  BY <1>1, <1>2 DEF Editor!Delivered
<1> QED  BY <1>2, <1>4, <1>5

LEMMA EdKept == ASSUME Editor!ScreenInv, Editor!Next \/ UNCHANGED slots PROVE Editor!EditKept
<1> SUFFICES ASSUME NEW z \in ED_ZONES, seen[z] # 0, seen'[z] = 0
             PROVE  \/ Editor!Delivered("save") /\ Head(s7).ok /\ Head(s7).zone = z /\ Head(s7).val = seen[z]
                    \/ Editor!Delivered("import") /\ Head(s7).zone = z /\ Head(s7).ok
                    \/ Editor!IdleWipe
  BY Zenon DEF Editor!EditKept
<1>1. CASE seen' = seen
  BY <1>1
<1>2. CASE Editor!Operator
  <2>1. seen' = seen \/ \E v \in VALUES : seen' = Editor!SetEdit(now.zone, v)
    BY <1>2 DEF Editor!Operator, Editor!Pick, Editor!Enter, Editor!Open, Editor!Leave, Editor!Retry,
                Editor!Keyboard, Editor!Finish, Editor!Save, Editor!Export, Editor!AskImport, Editor!Answer
  <2>2. PICK v \in VALUES : seen' = [seen EXCEPT ![now.zone] = v]
    BY <2>1 DEF Editor!SetEdit
  <2>3. v # 0 /\ seen \in [ED_ZONES -> Editor!Maybe]
    BY EditBounds, EdForms
  <2> QED  BY <2>2, <2>3
<1>3. CASE Editor!SaveDone
  BY <1>3, EdSaved
<1>4. CASE Editor!CardDone
  BY <1>4, EdImported
<1>5. CASE Editor!IdleWipe
  BY <1>5
<1>6. CASE ~ (Editor!Operator \/ Editor!SaveDone \/ Editor!CardDone \/ Editor!IdleWipe)
  <2>1. seen' = seen
    BY <1>6 DEF Editor!Next, slots, Editor!Run, Editor!Drain, Editor!LoadStale, Editor!LoadDone, Editor!Reload,
                Editor!Gather, Editor!Publish, Editor!Update, Editor!UpdateLoading, Editor!UpdateFailed,
                Editor!UpdateLoaded, Editor!NodeMgr, Editor!Take, Editor!Push, Editor!EndPush, Editor!Pull,
                Editor!frame
  <2> QED  BY <1>1, <2>1
<1> QED  BY <1>2, <1>3, <1>4, <1>5, <1>6

(* The last invariant of these proofs, of the two editors.                   *)
EditorsInv == (part = "editor" => Editor!ScreenInv) /\ (part = "meditor" => MEditor!ConsentInv)

(* cfg_zone.c and pcfg_edit.c: whatever jobs, rebuilds and zones come between, *)
(* the row shows the unsaved value or the document, and an unsaved value goes *)
(* only when just that value was taken, by a confirmed import or by the wipe; *)
(* cfg_master.c: the access point's fields are saved only after the operator *)
(* agreed to that very set.                                                  *)
THEOREM EditorsHold == FrontsSpec => EditorsTrue
<1>1. FrontsInit => EditorsInv
  BY EdStarts, ConsentStarts DEF FrontsInit, EditorsInv
<1>2. EditorsInv /\ [FrontsNext]_<<part, slots>> => /\ EditorsInv'
        /\ [/\ part = "editor"  => Editor!EditKept
            /\ part = "meditor" => MEditor!Consented]_slots
  <2> SUFFICES ASSUME EditorsInv, [FrontsNext]_<<part, slots>>
               PROVE  /\ EditorsInv'
                      /\ part = "editor"  => Editor!EditKept
                      /\ part = "meditor" => MEditor!Consented
    OBVIOUS
  <2>1. part' = part
    BY DEF FrontsNext
  <2>2. part = "editor" => Editor!Next \/ UNCHANGED slots
    BY DEF FrontsNext
  <2>3. part = "meditor" => MEditor!Next \/ UNCHANGED slots
    BY DEF FrontsNext
  <2>4. EditorsInv'
    BY <2>1, <2>2, <2>3, EdSteps, ConsentSteps DEF EditorsInv
  <2>5. (part = "editor"  => Editor!EditKept) /\ (part = "meditor" => MEditor!Consented)
    BY <2>2, <2>3, EdKept, ConsentGiven DEF EditorsInv
  <2> QED  BY <2>4, <2>5
<1>3. EditorsInv => (part = "editor" => Editor!ScreenTrue)
  BY DEF EditorsInv, Editor!ScreenInv
<1> QED  BY <1>1, <1>2, <1>3, PTL DEF FrontsSpec, EditorsTrue
===============================================================================
