------------------------------ MODULE CliLine ------------------------------
(***************************************************************************)
(* The console's line editor (cli_line.c) under the task that feeds it     *)
(* bytes and runs the lines it completes (cli.c): echo, backspace, Ctrl-C, *)
(* a line that does not fit, history on the arrow keys, CR LF, and the     *)
(* machine mode without echo in which a partial line goes stale.           *)
(***************************************************************************)
EXTENDS Naturals, Sequences, SequencesExt

CONSTANTS
  CHARS,         \* the printable characters
  CLI_LINE_MAX,  \* the buffer, with its terminator
  CLI_HIST_LEN,  \* a history entry, with its terminator
  CLI_HIST_N,    \* entries
  MAX_LINES      \* bound: lines entered

VARIABLES
  l,        \* cli_line_t
  screen,   \* the line on the terminal, where echo is on
  ran,      \* the line last handed to cmd_task_execute, and what the terminal showed then
  entered   \* lines entered so far

vars == <<l, screen, ran, entered>>

Fresh(echo) ==
  [buf |-> <<>>, hist |-> <<>>, saved |-> <<>>, browsing |-> FALSE, pos |-> 0,
   overflow |-> FALSE, esc |-> 0, cr |-> FALSE, echo |-> echo]

Init ==
  /\ \E echo \in BOOLEAN : l = Fresh(echo)
  /\ screen = <<>>
  /\ ran = [line |-> <<>>, shown |-> <<>>]
  /\ entered = 0

Shows(line) == screen' = IF l.echo THEN line ELSE screen

FirstOf(s, n) == SubSeq(s, 1, IF Len(s) < n THEN Len(s) ELSE n)

(* hist_push: newest first; an empty line and a repetition of the newest    *)
(* entry are not kept.                                                      *)
Pushed(hist, line) ==
  IF line = <<>> \/ (hist # <<>> /\ hist[1] = line) THEN hist
  ELSE FirstOf(<<FirstOf(line, CLI_HIST_LEN - 1)>> \o hist, CLI_HIST_N)

(* A byte that is not the second of an escape sequence or of CR LF.         *)
Byte(f) == l.esc = 0 /\ l' = [f EXCEPT !.cr = FALSE]

Editing(f) == UNCHANGED <<ran, entered>> /\ Byte(f)

(* ESC [ A and ESC [ B move through the history, in human mode. *)
Escape ==
  /\ l.echo
  /\ l' = [l EXCEPT !.esc = 1, !.cr = FALSE]
  /\ UNCHANGED <<screen, ran, entered>>

Bracket ==
  /\ l.esc = 1
  /\ l' = [l EXCEPT !.esc = 2]
  /\ UNCHANGED <<screen, ran, entered>>

NotASequence ==
  /\ l.esc \in {1, 2}
  /\ l' = [l EXCEPT !.esc = 0]
  /\ UNCHANGED <<screen, ran, entered>>

Recalled(pos) == [l EXCEPT !.esc = 0, !.pos = pos, !.browsing = TRUE, !.buf = l.hist[pos]]

HistUp ==
  /\ l.esc = 2
  /\ l' = IF ~ l.browsing
          THEN IF l.hist = <<>> THEN [l EXCEPT !.esc = 0]
               ELSE [Recalled(1) EXCEPT !.saved = l.buf]
          ELSE Recalled(IF l.pos < Len(l.hist) THEN l.pos + 1 ELSE l.pos)
  /\ Shows(l'.buf)
  /\ UNCHANGED <<ran, entered>>

(* Mutant: the partial line comes back on the screen only. *)
HistDownShows ==
  /\ l.esc = 2
  /\ l' = IF ~ l.browsing THEN [l EXCEPT !.esc = 0]
          ELSE IF l.pos > 1 THEN Recalled(l.pos - 1)
          ELSE [l EXCEPT !.esc = 0, !.browsing = FALSE]
  /\ Shows(IF l.browsing /\ l.pos = 1 THEN l.saved ELSE l'.buf)
  /\ UNCHANGED <<ran, entered>>

HistDown ==
  /\ l.esc = 2
  /\ l' = IF ~ l.browsing THEN [l EXCEPT !.esc = 0]
          ELSE IF l.pos > 1 THEN Recalled(l.pos - 1)
          ELSE [l EXCEPT !.esc = 0, !.browsing = FALSE, !.buf = l.saved]
  /\ Shows(l'.buf)
  /\ UNCHANGED <<ran, entered>>

(* Mutant: what does not fit is written all the same. *)
PrintableUnbounded(ch) ==
  /\ Editing([l EXCEPT !.browsing = FALSE, !.buf = Append(l.buf, ch)])
  /\ Shows(Append(screen, ch))

Printable(ch) ==
  /\ Editing(IF Len(l.buf) = CLI_LINE_MAX - 1 THEN [l EXCEPT !.browsing = FALSE, !.overflow = TRUE]
             ELSE [l EXCEPT !.browsing = FALSE, !.buf = Append(l.buf, ch)])
  /\ Shows(IF Len(l.buf) = CLI_LINE_MAX - 1 THEN screen ELSE Append(screen, ch))

Backspace ==
  /\ Editing(IF l.buf = <<>> THEN l ELSE [l EXCEPT !.buf = Front(l.buf), !.overflow = FALSE])
  /\ Shows(IF l.buf = <<>> THEN screen ELSE Front(screen))

CtrlC ==
  /\ Editing([l EXCEPT !.buf = <<>>, !.overflow = FALSE, !.browsing = FALSE])
  /\ Shows(<<>>)

(* Enter: the line runs, unless it did not fit.  An LF right after a CR is   *)
(* the same Enter.                                                          *)
Enter(cr) ==
  /\ l.esc = 0 /\ entered < MAX_LINES
  /\ entered' = entered + 1
  /\ cr \/ ~ l.cr
  /\ l' = [l EXCEPT !.cr = cr, !.browsing = FALSE, !.overflow = FALSE, !.buf = <<>>,
                    !.hist = IF l.overflow \/ ~ l.echo THEN @ ELSE Pushed(@, l.buf)]
  /\ ran' = IF l.overflow THEN ran ELSE [line |-> l.buf, shown |-> screen]
  /\ Shows(<<>>)

LineFeed ==
  /\ l.cr
  /\ Editing(l)
  /\ UNCHANGED screen

(* Machine mode: a byte after 30 s of silence finds the partial line gone.  *)
Stale ==
  /\ ~ l.echo /\ l.buf # <<>>
  /\ l' = [l EXCEPT !.buf = <<>>]
  /\ UNCHANGED <<screen, ran, entered>>

Next ==
  \/ Escape \/ Bracket \/ NotASequence \/ HistUp \/ HistDown
  \/ \E ch \in CHARS : Printable(ch)
  \/ Backspace \/ CtrlC \/ LineFeed \/ Stale
  \/ \E cr \in BOOLEAN : Enter(cr)

Spec == Init /\ [][Next]_vars

TypeOK ==
  /\ l.buf \in Seq(CHARS) /\ Len(l.buf) < CLI_LINE_MAX
  /\ l.hist \in Seq(Seq(CHARS)) /\ Len(l.hist) <= CLI_HIST_N
  /\ l.browsing => l.pos \in DOMAIN l.hist
  /\ l.esc \in 0 .. 2

(* cli_line_feed: whatever is typed, recalled, erased and typed over, what   *)
(* runs is the line the operator saw.                                       *)
RunsWhatWasSeen == l.echo => ran.line = ran.shown

(* What it rests on: the terminal shows the buffer.                          *)
LineInv ==
  /\ DOMAIN l = DOMAIN Fresh(TRUE)
  /\ l.echo => screen = l.buf
  /\ RunsWhatWasSeen
=============================================================================
