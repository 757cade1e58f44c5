------------------------------ MODULE CmdPath ------------------------------
(***************************************************************************)
(* A command line on its way to an answer: the front end that holds a      *)
(* session and a reply buffer (cli.c, http_cmd.c, pnl_cmd.c, handle_cmd of *)
(* zone_ring.c), the one worker that dispatches lines from a pool of slots *)
(* (cmd_task.c, cmd_dispatch.c), and the wait slot a ZONE line holds while *)
(* the ring carries it (node_mgr_fwd.c).                                   *)
(*                                                                         *)
(* Commands are numbered in the order they are issued.  A reply buffer     *)
(* holds the number of the command whose reply it is, or NoReply for what  *)
(* the front end itself writes (ERR INTERNAL, ERR BUSY).  Both handovers   *)
(* follow one pattern: the waiter sleeps on its task notification; who     *)
(* completes marks the slot done in a critical section and gives the       *)
(* notification after it; a waiter that timed out looks at done in that    *)
(* critical section and, if it is set, waits once more for the give.       *)
(***************************************************************************)
EXTENDS Naturals, Sequences

CONSTANTS
  CALLERS,     \* front ends, each one task
  POOLED,      \* those that have several buffers and withdraw one after a timeout: web, panel
  SESSIONS,    \* their buffers: HTTP_CMD_SESSIONS, PNL_CMD_SLOTS
  POOL,        \* the slots of cmd_task: 1 .. POOL_N
  PATIENCE,    \* how long a caller waits for cmd_task
  FWD_TIMEOUT, \* how long a forward waits for the ring
  MAX_CMD,     \* bound: commands issued
  MAX_STALL    \* bound: handlers that take longer than a tick, gives that come 100 ms late

VARIABLES
  caller,   \* per front end: what it does, for which command, with which slot and buffer, since when
  buf,      \* the reply buffers
  held,     \* the buffers that are claimed: busy
  gone,     \* the buffers withdrawn for good: quarantined
  pool,     \* s_pool
  queue,    \* s_q
  worker,   \* cmd_task: where it is, on which slot, and since when it waits
  fwd,      \* s_active, s_done, s_seq, s_waiter, and the outcome
  ring,     \* forwarded commands the tracker still has
  giving,   \* the task the node manager is about to notify
  note,     \* task notifications given and not taken
  issued,   \* commands issued
  stalls,   \* stalls so far
  late      \* history: a notification came after the wait for it was over

vars == <<caller, buf, held, gone, pool, queue, worker, fwd, ring, giving, note, issued, stalls, late>>

NoReply == 0
Worker  == "cmd_task"
Nobody  == "nobody"
Tasks   == CALLERS \cup {Worker}

Idle     == [pc |-> "idle", cmd |-> 0, slot |-> 0, buf |-> <<>>, age |-> 0]
Resting  == [pc |-> "idle", slot |-> 0, age |-> 0, to |-> Nobody]
FreeSlot == [used |-> FALSE, done |-> FALSE, cmd |-> 0, zone |-> FALSE, buf |-> <<>>, waiter |-> Nobody]
NoFwd    == [active |-> FALSE, done |-> FALSE, seq |-> 0, waiter |-> Nobody, detail |-> 0, failed |-> FALSE]

BufsOf(c) == IF c \in POOLED THEN {c} \X SESSIONS ELSE {<<c, 0>>}
Buffers   == UNION {BufsOf(c) : c \in CALLERS}

Init ==
  /\ caller = [c \in CALLERS |-> Idle]
  /\ buf = [b \in Buffers |-> NoReply]
  /\ held = {} /\ gone = {}
  /\ pool = [i \in POOL |-> FreeSlot]
  /\ queue = <<>>
  /\ worker = Resting
  /\ fwd = NoFwd /\ ring = {} /\ giving = Nobody
  /\ note = [t \in Tasks |-> FALSE]
  /\ issued = 0 /\ stalls = 0 /\ late = FALSE

Stall == stalls < MAX_STALL /\ stalls' = stalls + 1

-----------------------------------------------------------------------------
(* The front ends and cmd_task_execute *)

FreeSlots == {i \in POOL : ~ pool[i].used}
Usable(c) == BufsOf(c) \ (held \cup gone)

(* A line arrives: claim a session, claim a slot, queue it.  No session or  *)
(* no slot is answered BUSY at once, which changes nothing.                 *)
Issue(c, zone) ==
  /\ caller[c].pc = "idle" /\ issued < MAX_CMD
  /\ issued' = issued + 1
  /\ \E b \in Usable(c), i \in FreeSlots :
       /\ \A j \in FreeSlots : i <= j
       /\ \A d \in Usable(c) : b[2] <= d[2]
       /\ held' = held \cup {b}
       /\ pool' = [pool EXCEPT ![i] = [used |-> TRUE, done |-> FALSE, cmd |-> issued', zone |-> zone,
                                       buf |-> b, waiter |-> c]]
       /\ queue' = Append(queue, i)
       /\ caller' = [caller EXCEPT ![c] = [pc |-> "wait", cmd |-> issued', slot |-> i, buf |-> b, age |-> 0]]
  /\ UNCHANGED <<buf, gone, worker, fwd, ring, giving, note, stalls, late>>

(* The notification arrives: the reply is there, the slot is free again.    *)
Collect(c) ==
  /\ caller[c].pc \in {"wait", "drain"} /\ note[c]
  /\ note' = [note EXCEPT ![c] = FALSE]
  /\ pool' = [pool EXCEPT ![caller[c].slot].used = FALSE]
  /\ caller' = [caller EXCEPT ![c].pc = "answer"]
  /\ UNCHANGED <<buf, held, gone, queue, worker, fwd, ring, giving, issued, stalls, late>>

(* Mutant: the caller does not look whether the worker has finished in the  *)
(* meantime, and leaves a notification behind.                              *)
TimeOutBlind(c) ==
  /\ caller[c].pc = "wait" /\ ~ note[c]
  /\ caller[c].age = PATIENCE[c]
  /\ LET i == caller[c].slot  b == caller[c].buf IN
       /\ pool' = [pool EXCEPT ![i].waiter = Nobody]
       /\ buf' = [buf EXCEPT ![b] = NoReply]
       /\ gone' = IF c \in POOLED THEN gone \cup {b} ELSE gone
       /\ caller' = [caller EXCEPT ![c].pc = IF c \in POOLED THEN "refuse" ELSE "answer"]
  /\ UNCHANGED <<held, queue, worker, fwd, ring, giving, note, issued, stalls, late>>

(* The wait is over without one.  If the worker is not done the slot is     *)
(* orphaned and the caller answers ERR INTERNAL; web and panel never touch  *)
(* that buffer again, the console and the ring go on with it.               *)
TimeOut(c) ==
  /\ caller[c].pc = "wait" /\ ~ note[c]
  /\ caller[c].age = PATIENCE[c]
  /\ LET i == caller[c].slot  b == caller[c].buf IN
       IF pool[i].done
       THEN caller' = [caller EXCEPT ![c].pc = "drain"] /\ UNCHANGED <<pool, buf, gone>>
       ELSE /\ pool' = [pool EXCEPT ![i].waiter = Nobody]
            /\ buf' = [buf EXCEPT ![b] = NoReply]
            /\ gone' = IF c \in POOLED THEN gone \cup {b} ELSE gone
            /\ caller' = [caller EXCEPT ![c].pc = IF c \in POOLED THEN "refuse" ELSE "answer"]
  /\ UNCHANGED <<held, queue, worker, fwd, ring, giving, note, issued, stalls, late>>

(* 100 ms more were not enough. *)
DrainEnds(c) ==
  /\ caller[c].pc = "drain" /\ ~ note[c]
  /\ Stall /\ late' = TRUE
  /\ pool' = [pool EXCEPT ![caller[c].slot].used = FALSE]
  /\ caller' = [caller EXCEPT ![c].pc = "answer"]
  /\ UNCHANGED <<buf, held, gone, queue, worker, fwd, ring, giving, note, issued>>

(* The reply is printed, sent or acknowledged, and the session released.    *)
AnswerSent(c) ==
  /\ caller[c].pc \in {"answer", "refuse"}
  /\ held' = held \ ({caller[c].buf} \ gone)
  /\ caller' = [caller EXCEPT ![c] = Idle]
  /\ buf' = IF caller[c].pc = "answer" /\ c \in POOLED THEN [buf EXCEPT ![caller[c].buf] = NoReply] ELSE buf
  /\ UNCHANGED <<gone, pool, queue, worker, fwd, ring, giving, note, issued, stalls, late>>

-----------------------------------------------------------------------------
(* The worker: cmd_task_main, cmd_dispatch, do_forward *)

Mine == pool[worker.slot]

Receive ==
  /\ worker.pc = "idle" /\ queue # <<>>
  /\ worker' = [pc |-> IF pool[Head(queue)].zone THEN "submit" ELSE "local", slot |-> Head(queue),
               age |-> 0, to |-> Nobody]
  /\ queue' = Tail(queue)
  /\ buf' = [buf EXCEPT ![pool[Head(queue)].buf] = NoReply]
  /\ UNCHANGED <<caller, held, gone, pool, fwd, ring, giving, note, issued, stalls, late>>

Replied(content) ==
  /\ buf' = [buf EXCEPT ![Mine.buf] = content]
  /\ worker' = [worker EXCEPT !.pc = "finish", !.age = 0]

(* A handler of this board, or a line refused before any handler. *)
Local ==
  /\ worker.pc \in {"local", "submit", "stuck"}
  /\ Replied(Mine.cmd)
  /\ UNCHANGED <<caller, held, gone, pool, queue, fwd, ring, giving, note, issued, stalls, late>>

(* A handler that takes longer than a tick. *)
Slow ==
  /\ worker.pc = "local" /\ Stall
  /\ worker' = [worker EXCEPT !.pc = "stuck"]
  /\ UNCHANGED <<caller, buf, held, gone, pool, queue, fwd, ring, giving, note, issued, late>>

(* nmgr_submit, then the wait slot is armed: an outcome that comes between  *)
(* the two finds the slot not armed.                                        *)
Submit ==
  /\ worker.pc = "submit"
  /\ ring' = ring \cup {Mine.cmd}
  /\ worker' = [worker EXCEPT !.pc = "arm"]
  /\ UNCHANGED <<caller, buf, held, gone, pool, queue, fwd, giving, note, issued, stalls, late>>

Arm ==
  /\ worker.pc = "arm"
  /\ fwd' = [fwd EXCEPT !.active = TRUE, !.done = FALSE, !.seq = Mine.cmd, !.waiter = Worker, !.failed = FALSE]
  /\ worker' = [worker EXCEPT !.pc = "fwd", !.age = 0]
  /\ UNCHANGED <<caller, buf, held, gone, pool, queue, ring, giving, note, issued, stalls, late>>

ForwardReplies == IF fwd.failed THEN Mine.cmd ELSE fwd.detail

FwdCollect ==
  /\ worker.pc \in {"fwd", "fwd_drain"} /\ note[Worker]
  /\ note' = [note EXCEPT ![Worker] = FALSE]
  /\ Replied(ForwardReplies)
  /\ UNCHANGED <<caller, held, gone, pool, queue, fwd, ring, giving, issued, stalls, late>>

FwdTimeOut ==
  /\ worker.pc = "fwd" /\ ~ note[Worker] /\ worker.age = FWD_TIMEOUT
  /\ IF fwd.done
     THEN worker' = [worker EXCEPT !.pc = "fwd_drain"] /\ UNCHANGED <<fwd, buf>>
     ELSE fwd' = [fwd EXCEPT !.waiter = Nobody, !.active = FALSE] /\ Replied(Mine.cmd)
  /\ UNCHANGED <<caller, held, gone, pool, queue, ring, giving, note, issued, stalls, late>>

FwdDrainEnds ==
  /\ worker.pc = "fwd_drain" /\ ~ note[Worker]
  /\ Stall /\ late' = TRUE
  /\ Replied(ForwardReplies)
  /\ UNCHANGED <<caller, held, gone, pool, queue, fwd, ring, giving, note, issued>>

(* Mutant: the outcome of any command completes the armed slot. *)
OutcomeOfAny(n, failed) ==
  /\ n \in ring /\ giving = Nobody
  /\ ring' = ring \ {n}
  /\ IF fwd.active
     THEN /\ fwd' = [fwd EXCEPT !.active = FALSE, !.done = TRUE, !.failed = failed,
                                !.detail = IF failed THEN @ ELSE n]
          /\ giving' = fwd.waiter
     ELSE UNCHANGED <<fwd, giving>>
  /\ UNCHANGED <<caller, buf, held, gone, pool, queue, worker, note, issued, stalls, late>>

(* nmgr_fwd_on_ev: the tracker settles a command, with an answer or not. *)
Outcome(n, failed) ==
  /\ n \in ring /\ giving = Nobody
  /\ ring' = ring \ {n}
  /\ IF fwd.active /\ fwd.seq = n
     THEN /\ fwd' = [fwd EXCEPT !.active = FALSE, !.done = TRUE, !.failed = failed,
                                !.detail = IF failed THEN @ ELSE n]
          /\ giving' = fwd.waiter
     ELSE UNCHANGED <<fwd, giving>>
  /\ UNCHANGED <<caller, buf, held, gone, pool, queue, worker, note, issued, stalls, late>>

GiveForward ==
  /\ giving # Nobody
  /\ note' = [note EXCEPT ![giving] = TRUE]
  /\ giving' = Nobody
  /\ UNCHANGED <<caller, buf, held, gone, pool, queue, worker, fwd, ring, issued, stalls, late>>

(* Mutant: a slot whose caller has gone is never freed. *)
FinishKeeps ==
  /\ worker.pc = "finish"
  /\ pool' = [pool EXCEPT ![worker.slot].done = TRUE]
  /\ worker' = IF Mine.waiter = Nobody THEN Resting
               ELSE [Resting EXCEPT !.pc = "give", !.to = Mine.waiter]
  /\ UNCHANGED <<caller, buf, held, gone, queue, fwd, ring, giving, note, issued, stalls, late>>

Finish ==
  /\ worker.pc = "finish"
  /\ pool' = [pool EXCEPT ![worker.slot].done = TRUE, ![worker.slot].used = (Mine.waiter # Nobody)]
  /\ worker' = IF Mine.waiter = Nobody THEN Resting
               ELSE [Resting EXCEPT !.pc = "give", !.to = Mine.waiter]
  /\ UNCHANGED <<caller, buf, held, gone, queue, fwd, ring, giving, note, issued, stalls, late>>

Give ==
  /\ worker.pc = "give"
  /\ note' = [note EXCEPT ![worker.to] = TRUE]
  /\ worker' = Resting
  /\ UNCHANGED <<caller, buf, held, gone, pool, queue, fwd, ring, giving, issued, stalls, late>>

-----------------------------------------------------------------------------
(* Time: no tick passes while a task has something to do at once. *)

Waits(c) == caller[c].pc = "wait" /\ ~ note[c] /\ caller[c].age < PATIENCE[c]

Tick ==
  /\ \/ worker.pc \in {"idle", "stuck"} /\ (worker.pc = "idle" => queue = <<>>)
     \/ worker.pc = "fwd" /\ ~ note[Worker] /\ worker.age < FWD_TIMEOUT
  /\ giving = Nobody
  /\ \A c \in CALLERS : caller[c].pc = "idle" \/ Waits(c)
  /\ \/ worker.pc = "fwd" \/ \E c \in CALLERS : Waits(c)
  /\ caller' = [c \in CALLERS |-> IF Waits(c) THEN [caller[c] EXCEPT !.age = @ + 1] ELSE caller[c]]
  /\ worker' = IF worker.pc = "fwd" THEN [worker EXCEPT !.age = @ + 1] ELSE worker
  /\ UNCHANGED <<buf, held, gone, pool, queue, fwd, ring, giving, note, issued, stalls, late>>

CallerStep(c) == Collect(c) \/ TimeOut(c) \/ AnswerSent(c)
WorkerStep == Receive \/ Local \/ Arm \/ FwdCollect \/ FwdTimeOut \/ Finish \/ Give
NodeStep == GiveForward \/ \E n \in ring, failed \in BOOLEAN : Outcome(n, failed)

Next ==
  \/ \E c \in CALLERS : CallerStep(c) \/ DrainEnds(c) \/ \E zone \in BOOLEAN : Issue(c, zone)
  \/ WorkerStep \/ NodeStep \/ Tick
  \/ Slow \/ Submit \/ FwdDrainEnds

Spec == Init /\ [][Next]_vars

(* Every task runs, a stuck handler returns, and time passes. *)
Fairness ==
  /\ \A c \in CALLERS : WF_vars(CallerStep(c))
  /\ WF_vars(WorkerStep) /\ WF_vars(GiveForward) /\ WF_vars(Tick)

FairSpec == Spec /\ Fairness

-----------------------------------------------------------------------------
(* Properties *)

TypeOK ==
  /\ \A c \in CALLERS :
       /\ caller[c].pc \in {"idle", "wait", "drain", "answer", "refuse"}
       /\ caller[c].pc # "idle" => caller[c].buf \in BufsOf(c) /\ caller[c].slot \in POOL
       /\ caller[c].age \in 0 .. PATIENCE[c]
  /\ buf \in [Buffers -> 0 .. MAX_CMD]
  /\ gone \subseteq held /\ held \subseteq Buffers
  /\ \A i \in POOL : pool[i].used \in BOOLEAN /\ pool[i].waiter \in CALLERS \cup {Nobody}
  /\ queue \in Seq(POOL) /\ ring \subseteq 1 .. MAX_CMD
  /\ worker.pc \in {"idle", "local", "stuck", "submit", "arm", "fwd", "fwd_drain", "finish", "give"}
  /\ worker.age \in 0 .. FWD_TIMEOUT
  /\ note \in [Tasks -> BOOLEAN]

(* cmd_task_execute, do_forward, h_cmd, pnl_cmd_run: what web and panel send  *)
(* is the reply to their own command or an error line, whatever is slow and  *)
(* whatever times out.  The one thing that breaks it is a notification that  *)
(* comes more than 100 ms after the waiter saw done, which the next wait     *)
(* takes for its own.                                                        *)
AnswersBelong ==
  late \/ \A c \in POOLED : caller[c].pc = "answer" => buf[caller[c].buf] \in {NoReply, caller[c].cmd}

(* The caller and the worker hand the slot over exactly once: a free slot is *)
(* neither queued nor worked on nor waited for.                              *)
OneOwner ==
  \/ late
  \/ /\ \A i \in POOL : ~ pool[i].used => /\ \A k \in DOMAIN queue : queue[k] # i
                                       /\ worker.slot # i
                                       /\ \A c \in CALLERS : caller[c].pc \in {"wait", "drain"} => caller[c].slot # i
     /\ \A j, k \in DOMAIN queue : queue[j] = queue[k] => j = k

AllReturned ==
  \/ late
  \/ (\A i \in POOL : ~ pool[i].used) /\ \A c \in CALLERS : caller[c].pc = "idle"

(* Every command is answered, and whoever gives up on it, its slot of the    *)
(* pool comes back; one late notification is enough to lose a slot for good. *)
EverySlotReturns == <>[]AllReturned

(* cmd_task.h 21: "A caller that answers once and forgets the buffer (the    *)
(* CLI, the ring ACK) can treat -2 exactly like -1."  The same, of them.      *)
ConsoleAnswersBelong ==
  late \/ \A c \in CALLERS : caller[c].pc = "answer" => buf[caller[c].buf] \in {NoReply, caller[c].cmd}

(* http_cmd.c 23: "Half a second of headroom means the dispatcher always    *)
(* gets to answer first and the orphan path stays what it should be: a       *)
(* fault, not a routine outcome."  A session is withdrawn only after a       *)
(* handler was slow.                                                         *)
WithdrawnByFault == gone # {} => stalls > 0

-----------------------------------------------------------------------------
(* What every step keeps until a notification is late: who owns a slot, a   *)
(* buffer and a notification.                                               *)

Calls == [pc : {"idle", "wait", "drain", "answer", "refuse"}, cmd : Nat, slot : POOL \cup {0},
          buf : Buffers \cup {<<>>}, age : Nat]
Slots == [used : BOOLEAN, done : BOOLEAN, cmd : Nat, zone : BOOLEAN, buf : Buffers \cup {<<>>},
          waiter : CALLERS \cup {Nobody}]
Jobs  == [pc : {"idle", "local", "stuck", "submit", "arm", "fwd", "fwd_drain", "finish", "give"},
          slot : POOL \cup {0}, age : Nat, to : CALLERS \cup {Nobody}]
Fwds  == [active : BOOLEAN, done : BOOLEAN, seq : Nat, waiter : {Worker, Nobody}, detail : Nat,
          failed : BOOLEAN]

Shapes ==
  /\ caller \in [CALLERS -> Calls] /\ pool \in [POOL -> Slots] /\ worker \in Jobs /\ fwd \in Fwds
  /\ buf \in [Buffers -> Nat] /\ queue \in Seq(POOL) /\ ring \subseteq Nat /\ issued \in Nat
  /\ note \in [Tasks -> BOOLEAN] /\ giving \in {Worker, Nobody}

Awaits(c) == caller[c].pc \in {"wait", "drain"}

(* A caller that waits and the slot it waits on name each other, and its    *)
(* notification is given once, after the slot is done.                      *)
Handed ==
  /\ \A c \in CALLERS : Awaits(c) =>
       LET s == pool[caller[c].slot] IN
       /\ caller[c].slot \in POOL /\ s.used /\ s.waiter = c /\ s.buf = caller[c].buf /\ s.cmd = caller[c].cmd
       /\ caller[c].pc = "drain" => s.done
  /\ \A i \in POOL : pool[i].used /\ pool[i].waiter # Nobody =>
       Awaits(pool[i].waiter) /\ caller[pool[i].waiter].slot = i
  /\ \A c \in CALLERS : note[c] \/ (worker.pc = "give" /\ worker.to = c) =>
       Awaits(c) /\ pool[caller[c].slot].done
  /\ worker.pc = "give" => worker.to \in CALLERS /\ ~ note[worker.to]

(* A queued slot and the one worked on are used and not done, and no two    *)
(* are the same.                                                            *)
Queued ==
  /\ \A k \in DOMAIN queue : pool[queue[k]].used /\ ~ pool[queue[k]].done /\ queue[k] # worker.slot
  /\ \A j, k \in DOMAIN queue : queue[j] = queue[k] => j = k
  /\ IF worker.pc \in {"idle", "give"} THEN worker.slot = 0
     ELSE worker.slot \in POOL /\ Mine.used /\ ~ Mine.done

(* The buffer of a slot in use is its caller's or withdrawn, and a buffer   *)
(* of web or panel that is not withdrawn holds nothing but the reply to the  *)
(* command its owner is at.                                                 *)
Owned ==
  /\ \A c \in CALLERS : caller[c].pc # "idle" =>
       /\ caller[c].buf \in BufsOf(c)
       /\ c \in POOLED /\ caller[c].pc # "refuse" => caller[c].buf \notin gone
  /\ \A i \in POOL : pool[i].used =>
       /\ pool[i].buf \in Buffers
       /\ pool[i].waiter = Nobody /\ pool[i].buf[1] \in POOLED => pool[i].buf \in gone
  /\ \A b \in Buffers : b[1] \in POOLED /\ b \notin gone /\ buf[b] # NoReply =>
       /\ caller[b[1]].pc \in {"wait", "drain", "answer"}
       /\ caller[b[1]].buf = b /\ caller[b[1]].cmd = buf[b]

(* The wait slot of a forward is armed for the command the worker is at,    *)
(* and its notification is given once, after the slot is done.              *)
Armed ==
  IF worker.pc \in {"fwd", "fwd_drain"}
  THEN /\ fwd.seq = Mine.cmd
       /\ \/ /\ fwd.active /\ ~ fwd.done /\ fwd.waiter = Worker /\ worker.pc = "fwd"
             /\ ~ note[Worker] /\ giving = Nobody
          \/ /\ ~ fwd.active /\ fwd.done /\ (fwd.failed \/ fwd.detail = Mine.cmd)
             /\ note[Worker] <=> giving = Nobody
  ELSE ~ fwd.active /\ ~ note[Worker] /\ giving = Nobody

CmdInv == late \/ (Shapes /\ Handed /\ Queued /\ Owned /\ Armed)
=============================================================================
