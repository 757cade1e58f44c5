----------------------------- MODULE WebLogin ------------------------------
(***************************************************************************)
(* Web sessions and the web password: web_auth.c's session table and       *)
(* lockout, http_auth.c's lock, clock base and persistence, the handlers   *)
(* of http_login.c on the one httpd task, and a password change from the   *)
(* console or the panel (psvc_net.c) beside it.                            *)
(*                                                                         *)
(* Deadlines are kept as the time left.  Until the wall clock is set the   *)
(* clock of web_auth stands still: a session then lasts Forever, and a     *)
(* lockout minted on that base is aged by uptime instead.                  *)
(***************************************************************************)
EXTENDS Naturals, FiniteSets

CONSTANTS
  WA_SESSIONS,    \* slots
  WA_TTL_S,       \* life of a session, in ticks
  WA_LOCK_FAILS,  \* wrong passwords that lock
  WA_LOCK_S,      \* the lockout, in ticks
  MAX_LOGIN,      \* bound: sessions minted
  MAX_CHANGE,     \* bound: password changes
  MAX_FAULT       \* bound: NVS writes that fail, resets

VARIABLES
  wall,     \* the wall clock has been set this boot
  sess,     \* the session table
  stored,   \* the table in NVS
  fails,    \* wrong passwords in a row
  lock,     \* lock_until_s: what is left, and on which clock it was minted
  seen,     \* s_lock_up: 0, or 1 + the time since a lockout of the standing clock was noticed
  pw,       \* the number of the committed password
  change,   \* a password change: none, hashed, committed
  minted,   \* sessions minted
  faults,   \* faults so far
  recent,   \* history: the newest sessions of this boot that have not ended
  excused   \* history: a reset or a failed write came between a new password and the dropped sessions

vars == <<wall, sess, stored, fails, lock, seen, pw, change, minted, faults, recent, excused>>

Forever  == WA_TTL_S + 1
Slots    == 1 .. WA_SESSIONS
NoSess   == [tok |-> 0, left |-> 0, seq |-> 0, pw |-> 0]
NoLock   == [left |-> 0, wall |-> FALSE]
NoChange == [pc |-> "none", web |-> FALSE]

Fault == faults < MAX_FAULT /\ faults' = faults + 1

Init ==
  /\ wall = FALSE
  /\ sess = [i \in Slots |-> NoSess] /\ stored = sess
  /\ fails = 0 /\ lock = NoLock /\ seen = 0
  /\ pw = 1 /\ change = NoChange
  /\ minted = 0 /\ faults = 0 /\ recent = {} /\ excused = FALSE

(* web_auth_check: a token that is in the table and not expired.  On the     *)
(* standing clock everything but a session minted there looks expired.      *)
Live(s) == s.tok # 0 /\ (s.left = Forever \/ (wall /\ s.left > 0))

(* sessions_save: sessions that last until the next reboot are not stored.  *)
Saved(tab) ==
  \/ stored' = [i \in Slots |-> IF tab[i].left = Forever THEN NoSess ELSE tab[i]] /\ UNCHANGED faults
  \/ Fault /\ UNCHANGED stored

-----------------------------------------------------------------------------
(* Login *)

(* Mutant: a deadline of the standing clock outlives the switch to the wall  *)
(* clock.                                                                   *)
TickedOneBase ==
  IF ~ wall /\ lock.left > 0 /\ seen > WA_LOCK_S
  THEN [fails |-> 0, lock |-> NoLock, seen |-> 0]
  ELSE [fails |-> fails, lock |-> lock,
        seen |-> IF wall \/ lock.left = 0 THEN 0 ELSE IF seen = 0 THEN 1 ELSE seen]

(* frozen_lock_tick: a deadline of the other clock is dropped; on the        *)
(* standing clock the lockout ends WA_LOCK_S after it was first noticed.    *)
Ticked ==
  IF (lock.left > 0 /\ ~ lock.wall /\ wall) \/ (~ wall /\ lock.left > 0 /\ seen > WA_LOCK_S)
  THEN [fails |-> 0, lock |-> NoLock, seen |-> 0]
  ELSE [fails |-> fails, lock |-> lock,
        seen |-> IF wall \/ lock.left = 0 THEN 0 ELSE IF seen = 0 THEN 1 ELSE seen]

(* Mutant: the least time left decides who goes, which ties on the standing *)
(* clock.                                                                   *)
VictimByExpiry(i) ==
  IF \E j \in Slots : ~ Live(sess[j])
  THEN ~ Live(sess[i]) /\ \A j \in Slots : ~ Live(sess[j]) => i <= j
  ELSE \A j \in Slots : sess[i].left < sess[j].left \/ (sess[i].left = sess[j].left /\ i <= j)

(* The slot a new session takes: the first free or expired one, else the     *)
(* oldest.                                                                  *)
Victim(i) ==
  IF \E j \in Slots : ~ Live(sess[j])
  THEN ~ Live(sess[i]) /\ \A j \in Slots : ~ Live(sess[j]) => i <= j
  ELSE \A j \in Slots : sess[i].seq < sess[j].seq \/ (sess[i].seq = sess[j].seq /\ i <= j)

Minted(i) ==
  [tok |-> minted + 1, left |-> IF wall THEN WA_TTL_S ELSE Forever, seq |-> minted + 1, pw |-> pw]

(* History: the newest WA_SESSIONS logins that have not ended. *)
Newest(S) == IF Cardinality(S) > WA_SESSIONS THEN {t \in S : \E u \in S : u < t} ELSE S

Accepted ==
  /\ minted < MAX_LOGIN /\ minted' = minted + 1
  /\ fails' = 0 /\ lock' = Ticked.lock /\ seen' = Ticked.seen
  /\ \E i \in Slots : Victim(i) /\ sess' = [sess EXCEPT ![i] = Minted(i)]
  /\ Saved(sess')
  /\ recent' = Newest(recent \cup {minted + 1})

Refused ==
  /\ LET n == IF Ticked.fails < WA_LOCK_FAILS THEN Ticked.fails + 1 ELSE Ticked.fails IN
       /\ fails' = n
       /\ lock' = IF n >= WA_LOCK_FAILS THEN [left |-> WA_LOCK_S, wall |-> wall] ELSE Ticked.lock
  /\ seen' = Ticked.seen
  /\ UNCHANGED <<sess, stored, minted, faults, recent>>

LockedOut ==
  /\ Ticked.lock.left > 0
  /\ fails' = Ticked.fails /\ lock' = Ticked.lock /\ seen' = Ticked.seen
  /\ UNCHANGED <<sess, stored, minted, faults, recent>>

LoginWith(right) ==
  \/ LockedOut
  \/ Ticked.lock.left = 0 /\ IF right THEN Accepted ELSE Refused

(* The httpd task is free: it is not within h_password. *)
HttpdFree == change.pc = "none" \/ ~ change.web

Login(right) ==
  /\ HttpdFree /\ LoginWith(right)
  /\ UNCHANGED <<wall, pw, change, excused>>

Logout(i) ==
  /\ HttpdFree /\ sess[i].tok # 0
  /\ sess' = [sess EXCEPT ![i] = NoSess]
  /\ Saved(sess')
  /\ recent' = recent \ {sess[i].tok}
  /\ UNCHANGED <<wall, fails, lock, seen, pw, change, minted, excused>>

-----------------------------------------------------------------------------
(* A new password: hash into a private copy, commit, drop every session *)

StartChange(web) ==
  /\ change.pc = "none" /\ pw <= MAX_CHANGE
  /\ web => \E i \in Slots : Live(sess[i])
  /\ change' = [pc |-> "hashed", web |-> web]
  /\ UNCHANGED <<wall, sess, stored, fails, lock, seen, pw, minted, faults, recent, excused>>

Commit ==
  /\ change.pc = "hashed"
  /\ \/ pw' = pw + 1 /\ change' = [change EXCEPT !.pc = "committed"] /\ UNCHANGED faults
     \/ Fault /\ change' = NoChange /\ UNCHANGED pw
  /\ UNCHANGED <<wall, sess, stored, fails, lock, seen, minted, recent, excused>>

(* Mutant: the table is saved before it is cleared. *)
DropSavesFirst ==
  /\ change.pc = "committed"
  /\ sess' = [i \in Slots |-> NoSess]
  /\ Saved(sess)
  /\ fails' = 0 /\ lock' = NoLock /\ seen' = 0 /\ recent' = {}
  /\ excused' = (excused \/ faults' # faults)
  /\ change' = IF change.web THEN [change EXCEPT !.pc = "dropped"] ELSE NoChange
  /\ UNCHANGED <<wall, pw, minted>>

(* http_auth_sessions_drop *)
Drop ==
  /\ change.pc = "committed"
  /\ sess' = [i \in Slots |-> NoSess]
  /\ Saved(sess')
  /\ fails' = 0 /\ lock' = NoLock /\ seen' = 0 /\ recent' = {}
  /\ excused' = (excused \/ faults' # faults)
  /\ change' = IF change.web THEN [change EXCEPT !.pc = "dropped"] ELSE NoChange
  /\ UNCHANGED <<wall, pw, minted>>

(* The operator who changed it in the browser gets a session at once. *)
Relogin ==
  /\ change.pc = "dropped"
  /\ LoginWith(TRUE)
  /\ change' = NoChange
  /\ UNCHANGED <<wall, pw, excused>>

-----------------------------------------------------------------------------
(* The clock, and a restart *)

Older(s) == IF s.left \in 1 .. WA_TTL_S THEN [s EXCEPT !.left = @ - 1] ELSE s

Expired(tab) == {tab[i].tok : i \in {j \in Slots : tab[j].left = 0}}

Tick ==
  /\ sess' = [i \in Slots |-> Older(sess[i])]
  /\ stored' = [i \in Slots |-> Older(stored[i])]
  /\ lock' = IF lock.wall /\ lock.left > 0 THEN [lock EXCEPT !.left = @ - 1] ELSE lock
  /\ seen' = IF seen \in 1 .. WA_LOCK_S THEN seen + 1 ELSE seen
  /\ recent' = recent \ Expired(sess')
  /\ UNCHANGED <<wall, fails, pw, change, minted, faults, excused>>

ClockSet ==
  /\ ~ wall /\ wall' = TRUE
  /\ UNCHANGED <<sess, stored, fails, lock, seen, pw, change, minted, faults, recent, excused>>

Reset ==
  /\ Fault
  /\ wall' = FALSE
  /\ sess' = [i \in Slots |-> IF stored[i].left = 0 THEN NoSess ELSE [stored[i] EXCEPT !.seq = 0]]
  /\ fails' = 0 /\ lock' = NoLock /\ seen' = 0
  /\ change' = NoChange /\ recent' = {}
  /\ excused' = (excused \/ change.pc = "committed")
  /\ UNCHANGED <<stored, pw, minted>>

Next ==
  \/ \E right \in BOOLEAN : Login(right)
  \/ \E i \in Slots : Logout(i)
  \/ \E web \in BOOLEAN : StartChange(web)
  \/ Commit \/ Drop \/ Relogin \/ Tick \/ ClockSet \/ Reset

Spec == Init /\ [][Next]_vars

(* Time passes, and an operator with the right password keeps trying. *)
Fairness ==
  WF_vars(Tick) /\ WF_vars(Commit \/ Drop \/ Relogin) /\ WF_vars(Login(TRUE))

FairSpec == Spec /\ Fairness

-----------------------------------------------------------------------------
(* Properties *)

TypeOK ==
  /\ \A i \in Slots : sess[i].left \in 0 .. Forever /\ stored[i].left \in 0 .. WA_TTL_S
  /\ fails \in 0 .. WA_LOCK_FAILS /\ lock.left \in 0 .. WA_LOCK_S /\ seen \in 0 .. WA_LOCK_S + 1
  /\ change.pc \in {"none", "hashed", "committed", "dropped"}

Present(tok) == \E i \in Slots : sess[i].tok = tok /\ Live(sess[i])

(* web_auth_login: whichever clock they were minted on and whatever came     *)
(* back from flash, the WA_SESSIONS newest logins of this boot stay logged   *)
(* in until they log out, expire or the password changes.                   *)
RecentLoginsHold ==
  \A tok \in recent : Present(tok)

(* http_login.c 158: "the old cookies must not outlive the password they     *)
(* were issued against".  Nor do they come back with a restart, unless the  *)
(* reset or the failed write hit the very change.                           *)
OldCookiesDie ==
  change.pc # "committed" /\ ~ excused => \A i \in Slots : Live(sess[i]) => sess[i].pw = pw

Locked == lock.left > 0 /\ minted < MAX_LOGIN

(* frozen_lock_tick: whichever clock a lockout was minted on, and even if   *)
(* the clock is set meanwhile, it ends for an operator who keeps trying.     *)
LockoutEnds == Locked ~> ~ Locked

-----------------------------------------------------------------------------
(* What RecentLoginsHold and OldCookiesDie rest on.                          *)

Sessions == [tok : Nat, left : 0 .. Forever, seq : Nat, pw : Nat]
Changes  == [pc : {"none", "hashed", "committed", "dropped"}, web : BOOLEAN]

(* A token is minted once, and its number says when, but for a session that  *)
(* came back from flash.                                                    *)
Unique(tab) ==
  /\ tab \in [Slots -> Sessions]
  /\ \A i \in Slots : tab[i].tok <= minted
  /\ \A i, j \in Slots : tab[i].tok = tab[j].tok /\ i # j => tab[i].tok = 0
Numbered ==
  /\ Unique(sess) /\ Unique(stored)
  /\ change \in Changes /\ wall \in BOOLEAN /\ pw \in Nat /\ minted \in Nat /\ faults \in Nat
  /\ \A i \in Slots : sess[i].seq \in {0, sess[i].tok}

(* The newest logins are in the table, and whatever else may be live there    *)
(* is older than each of them.                                              *)
Newer ==
  /\ recent \subseteq 1 .. minted
  /\ \A tok \in recent : \E i \in Slots : sess[i].tok = tok /\ sess[i].seq = tok /\ Live(sess[i])
  /\ \A i \in Slots : sess[i].tok # 0 /\ sess[i].left # 0 /\ sess[i].seq \notin recent =>
       \A tok \in recent : sess[i].seq < tok

(* Every session, live or not, in the table or in flash, is of the password. *)
OfPassword ==
  change.pc # "committed" /\ ~ excused =>
    \A i \in Slots : /\ sess[i].tok # 0 => sess[i].pw = pw
                     /\ stored[i].tok # 0 => stored[i].pw = pw

LoginInv == Numbered /\ Newer /\ OfPassword
=============================================================================
