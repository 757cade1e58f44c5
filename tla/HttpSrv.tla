------------------------------- MODULE HttpSrv -------------------------------
(***************************************************************************)
(* The master's web server (http_srv, fw_srv's handler): one httpd task     *)
(* that serves a few kept connections, one request after the other.  Here   *)
(* is what a handler does to its connection: what of the request's body it  *)
(* reads, when it answers, and whether the connection is kept.  What the    *)
(* handlers do to the rest of the system is in the modules of those parts.  *)
(*                                                                         *)
(* A body is a few pieces, or so long that it never ends (LONG); a peer     *)
(* sends a piece, is silent until the receive times out, or is gone.  There *)
(* is no clock: budgets run out at any time.                                *)
(***************************************************************************)
EXTENDS Integers, FiniteSets

CONSTANTS
  SOCKS,               \* max_open_sockets of httpd
  BODY_MAX_TIMEOUTS,   \* http_srv.c
  MAX_TIMEOUTS,        \* http_upload.c
  DRAIN_MAX_TIMEOUTS   \* http_upload.c

VARIABLES
  conn,   \* per socket: it is open; pieces of the last request's body not received
  srv     \* the httpd task

vars == <<conn, srv>>

LONG     == 3                 \* a length that never ends
Lengths  == 0 .. LONG + 1     \* a LONG one is LONG or LONG + 1, by turns
BODY_CAP == 1                 \* the most a handler's buffer takes
FW_MAX   == 2                 \* the most a firmware partition takes

Closed == [open |-> FALSE, rest |-> 0]

(* HTTP_ROUTES: what each route's handler is, and whether it needs a login. *)
Open    == {"login", "index", "app_js", "app_css", "zone_bin"}
Login   == {"logout", "password", "cmd", "help", "state", "schema", "config_get", "config_put",
            "alarms", "fw_master", "fw_zone", "fleet_post", "fleet_delete", "wifi_scan", "wifi_set"}
Routes  == Open \cup Login
NoRoute == "none"             \* an unknown path, or a method the path has not

(* A request's line and headers.  A chunked one announces no length. *)
Request == [route : Routes \cup {NoRoute}, cookie : BOOLEAN, chunked : BOOLEAN, len : 0 .. LONG]
ContentLen(r) == IF r.chunked THEN 0 ELSE r.len

NoRequest == [route |-> NoRoute, cookie |-> FALSE, chunked |-> FALSE, len |-> 0]

(* left is what httpd takes to be left of the body (remaining_len); last is *)
(* how the last request ended.                                              *)
Idle == [pc |-> "idle", sock |-> 1, req |-> NoRequest, left |-> 0, timeouts |-> 0, answers |-> 0,
         last |-> [answers |-> 1, kept |-> TRUE]]

Init ==
  /\ conn = [s \in SOCKS |-> Closed]
  /\ srv = Idle

At(pc) == srv.pc = pc
Less(n) == IF n = LONG THEN LONG + 1 ELSE n - 1

-----------------------------------------------------------------------------
(* The connections.                                                         *)

(* A peer connects; when every socket is taken httpd closes the least       *)
(* recently used one.                                                       *)
Accept(s) ==
  /\ At("idle")
  /\ ~conn[s].open \/ \A x \in SOCKS : conn[x].open
  /\ conn' = [conn EXCEPT ![s] = [open |-> TRUE, rest |-> 0]]
  /\ srv' = srv

PeerCloses(s) ==
  /\ At("idle") /\ conn[s].open
  /\ conn' = [conn EXCEPT ![s] = Closed]
  /\ srv' = srv

(* httpd reads a request's head.  If there is no such route it answers      *)
(* itself (err_json); else route_entry has it.                              *)
Parse(s, r) ==
  /\ At("idle") /\ conn[s].open /\ conn[s].rest = 0
  /\ conn' = [conn EXCEPT ![s].rest = r.len]
  /\ srv' = [srv EXCEPT !.pc = "entry", !.sock = s, !.req = r, !.left = ContentLen(r),
                        !.timeouts = 0, !.answers = 0]

(* The task's next request may come. *)
Ends(kept, answers) ==
  srv' = [srv EXCEPT !.pc = IF kept /\ srv.left > 0 THEN "purge" ELSE "idle",
                     !.timeouts = 0, !.answers = answers, !.last = [answers |-> answers, kept |-> kept]]

(* ESP_FAIL: httpd closes the socket, and does not look at the rest. *)
Close(answers) ==
  /\ conn' = [conn EXCEPT ![srv.sock] = Closed]
  /\ Ends(FALSE, answers)

(* ESP_OK: httpd keeps the socket, once it has read away what it takes to   *)
(* be left of the body.                                                     *)
Keep(answers) ==
  /\ conn' = conn
  /\ Ends(TRUE, answers)

(* Mutants: a chunked request counts as one without a body; the connection   *)
(* is always kept.                                                          *)
DoneByLength(drained, answers) ==
  IF drained \/ ContentLen(srv.req) = 0 THEN Keep(answers) ELSE Close(answers)

DoneKeeps(drained, answers) == IF srv.req.chunked THEN Close(answers) ELSE Keep(answers)

(* http_srv_done, and done_or_close of fw_srv: the connection is kept only  *)
(* when the whole body was read, or there was none.                         *)
Done(drained, answers) ==
  IF drained \/ (ContentLen(srv.req) = 0 /\ ~srv.req.chunked) THEN Keep(answers) ELSE Close(answers)

Answer == srv.answers + 1

(* The answer of a handler that did not read the body. *)
Unread == Done(FALSE, Answer)

-----------------------------------------------------------------------------
(* route_entry.                                                             *)

Unroutable == At("entry") /\ srv.req.route = NoRoute /\ Unread

Unauthorized == At("entry") /\ srv.req.route \in Login /\ ~srv.req.cookie /\ Unread

(* The handler of the route is called. *)
Enters(route) ==
  /\ At("entry") /\ srv.req.route = route
  /\ route \in Login => srv.req.cookie

Goto(pc) == conn' = conn /\ srv' = [srv EXCEPT !.pc = pc, !.timeouts = 0]

(* Handlers that look at the query or at nothing, and answer. *)
h_help         == Enters("help")         /\ Unread
h_schema       == Enters("schema")       /\ Unread
h_alarms       == Enters("alarms")       /\ Unread
h_config_get   == Enters("config_get")   /\ Unread
h_wifi_scan    == Enters("wifi_scan")    /\ Unread
h_fleet_delete == Enters("fleet_delete") /\ Unread

(* Sent in pieces, or as a head made by hand: what fails on the way closes  *)
(* the socket.                                                              *)
h_state  == Enters("state")  /\ (Unread \/ Close(Answer))
h_logout == Enters("logout") /\ (Unread \/ Close(Answer))

-----------------------------------------------------------------------------
(* http_srv_body: a small body, read whole.                                 *)

(* Refused unread: chunked, or longer than the buffer. *)
BodyRefused == srv.req.chunked \/ ContentLen(srv.req) > BODY_CAP

ReadBody(route) ==
  /\ Enters(route)
  /\ IF BodyRefused THEN Unread
     ELSE Goto(IF ContentLen(srv.req) = 0 THEN "handle" ELSE "body")

BodyReaders == {"login", "password", "cmd", "wifi_set", "fleet_post", "config_put"}

(* h_config_put refuses first when memory is low. *)
LowHeap == Enters("config_put") /\ Unread

(* The handler has its body: it does its work and answers. *)
Handled(route) == At("handle") /\ srv.req.route = route /\ Done(TRUE, Answer)

h_cmd        == Handled("cmd")
h_wifi_set   == Handled("wifi_set")
h_fleet_post == Handled("fleet_post")
h_config_put == Handled("config_put")

(* A 204 is made by hand; one that does not go out closes the socket. *)
NotSent(route) == At("handle") /\ srv.req.route = route /\ Close(Answer)
h_login        == Handled("login") \/ NotSent("login")
h_password     == Handled("password") \/ NotSent("password")

-----------------------------------------------------------------------------
(* Large answers: http_static, and fw_srv's image.                          *)

Assets == {"index", "app_js", "app_css"}

(* The page's files: one the browser has already, or that is missing. *)
AssetShort == (\E a \in Assets : Enters(a)) /\ Unread

SendStarts == conn' = conn /\ srv' = [srv EXCEPT !.pc = "send", !.answers = Answer]

send_asset == (\E a \in Assets : Enters(a)) /\ SendStarts

(* The zones' image; none while it is not valid or is being rewritten. *)
NoImage == Enters("zone_bin") /\ Unread

zone_bin_get == Enters("zone_bin") /\ SendStarts

(* Mutant: only a send that moves no byte at all is given up. *)
BudgetForgotten == At("send") /\ Goto("send")

(* The budget of the whole transfer is spent, however slowly it moves. *)
BudgetSpent == At("send") /\ Close(srv.answers)

(* All of it went out, or a send moved nothing. *)
SendEnds == At("send") /\ (Done(FALSE, srv.answers) \/ Close(srv.answers))

-----------------------------------------------------------------------------
(* Firmware uploads: fw_upload over psvc_fw_install.                        *)

Upload == {"fw_master", "fw_zone"}
Uploading == \E u \in Upload : Enters(u)

(* The framing, the type, no body at all; and the guards of the install     *)
(* core, among them the size: nothing was read.                             *)
UploadRefused ==
  /\ Uploading
  /\ Unread

UploadStarts ==
  /\ Uploading
  /\ ~srv.req.chunked /\ ContentLen(srv.req) \in 1 .. FW_MAX
  /\ Goto("stream")

(* Mutant: the refusal is answered before the body is read away, and after. *)
UploadAnswersFirst ==
  /\ At("stream") /\ srv.left < ContentLen(srv.req)
  /\ IF srv.left > 0
       THEN conn' = conn /\ srv' = [srv EXCEPT !.pc = "drain", !.timeouts = 0, !.answers = Answer]
       ELSE Done(TRUE, Answer)

(* Not the image it must be, or a write that failed, with some of the body   *)
(* still to come: it is read away first.                                    *)
UploadRejected ==
  /\ At("stream") /\ srv.left < ContentLen(srv.req)
  /\ IF srv.left > 0 THEN Goto("drain") ELSE Done(TRUE, Answer)

(* The whole of it was taken. *)
UploadDone == At("stream") /\ srv.left = 0 /\ Done(TRUE, Answer)

(* Ten seconds were enough, or there is no memory for the buffer. *)
DrainSpent == At("drain") /\ Done(FALSE, Answer)

-----------------------------------------------------------------------------
(* Receiving, in http_srv_body, recv_src and drain_body, and in httpd's own *)
(* purge.                                                                   *)

Receiving == srv.pc \in {"body", "stream", "drain", "purge"} /\ srv.left > 0

Drained == [srv EXCEPT !.left = 0]

RecvData ==
  /\ Receiving
  /\ LET left == Less(srv.left)
         rest == [conn EXCEPT ![srv.sock].rest = Less(@)]
     IN
     IF left > 0 \/ At("stream")
       THEN conn' = rest /\ srv' = [srv EXCEPT !.left = left, !.timeouts = 0]
       ELSE /\ conn' = rest
            /\ srv' = [srv EXCEPT !.left = 0, !.timeouts = 0,
                                  !.pc = CASE At("body")  -> "handle"
                                           [] At("drain") -> "drained"
                                           [] OTHER       -> "idle"]

(* What was refused is read: now the answer. *)
DrainEnds == At("drained") /\ Done(TRUE, Answer)

(* Silences in a row each of them bears. *)
Patience ==
  CASE At("body")   -> BODY_MAX_TIMEOUTS
    [] At("stream") -> MAX_TIMEOUTS
    [] At("drain")  -> DRAIN_MAX_TIMEOUTS
    [] OTHER        -> 0

(* The body will not come: httpd's purge has answered already. *)
GivesUp == IF At("purge") THEN Close(srv.answers) ELSE Unread

RecvTimeout ==
  /\ Receiving
  /\ IF srv.timeouts = Patience THEN GivesUp
     ELSE conn' = conn /\ srv' = [srv EXCEPT !.timeouts = @ + 1]

(* The peer closed, or the socket failed. *)
RecvFails == Receiving /\ GivesUp

Next ==
  \/ \E s \in SOCKS : Accept(s) \/ PeerCloses(s) \/ \E r \in Request : Parse(s, r)
  \/ Unroutable \/ Unauthorized
  \/ h_help \/ h_schema \/ h_alarms \/ h_config_get \/ h_wifi_scan \/ h_fleet_delete
  \/ h_state \/ h_logout
  \/ \E r \in BodyReaders : ReadBody(r)
  \/ LowHeap
  \/ h_cmd \/ h_wifi_set \/ h_fleet_post \/ h_config_put \/ h_login \/ h_password
  \/ AssetShort \/ send_asset \/ NoImage \/ zone_bin_get \/ BudgetSpent \/ SendEnds
  \/ UploadRefused \/ UploadStarts \/ UploadRejected \/ UploadDone \/ DrainSpent \/ DrainEnds
  \/ RecvData \/ RecvTimeout \/ RecvFails

Spec == Init /\ [][Next]_vars

(* The task runs: a handler that was called goes on, a receive comes back.  *)
(* A peer need not ever fall silent, close, or take what is sent to it.      *)
HandlerStep ==
  \/ Unroutable \/ Unauthorized
  \/ h_help \/ h_schema \/ h_alarms \/ h_config_get \/ h_wifi_scan \/ h_fleet_delete
  \/ h_state \/ h_logout
  \/ \E r \in BodyReaders : ReadBody(r)
  \/ h_cmd \/ h_wifi_set \/ h_fleet_post \/ h_config_put \/ h_login \/ h_password
  \/ AssetShort \/ send_asset \/ NoImage \/ zone_bin_get \/ BudgetSpent
  \/ UploadRefused \/ UploadStarts \/ UploadDone \/ DrainEnds
  \/ RecvData \/ RecvTimeout

FairSpec == Spec /\ WF_vars(HandlerStep)

-----------------------------------------------------------------------------

Conns   == [open : BOOLEAN, rest : Lengths]
Servers == [pc : {"idle", "entry", "body", "handle", "send", "stream", "drain", "drained", "purge"},
            sock : SOCKS, req : Request, left : Lengths, timeouts : Nat, answers : 0 .. 1,
            last : [answers : 0 .. 1, kept : BOOLEAN]]

TypeOK == conn \in [SOCKS -> Conns] /\ srv \in Servers

(* A kept connection is in step with its peer: when the next request's head  *)
(* is read from it, no byte of the last one's body is left to be taken for   *)
(* it (http_srv.c 155-180), whatever was announced and wherever the handler  *)
(* stopped reading.                                                         *)
InStep == At("idle") => \A s \in SOCKS : conn[s].rest = 0

(* Every request has its one answer: a handler answers once on every way     *)
(* out, and a connection is never kept on which the peer still waits         *)
(* (http_upload.c 92-144).                                                  *)
AnsweredOnce == srv.answers <= 1 /\ (At("idle") => srv.last.answers = 1)

Busy == ~ At("idle")

(* No peer keeps the one task to itself, neither with a body that never       *)
(* ends nor by taking an answer a byte at a time: it comes back for the       *)
(* next request (http_srv.c 155-168, http_static.c 12-19).                  *)
ComesBack == Busy ~> ~ Busy

-----------------------------------------------------------------------------
(* What InStep and AnsweredOnce rest on.                                     *)

(* Only the connection that is served has anything to come, and httpd knows   *)
(* how much, unless the request was chunked.                                 *)
Counted ==
  /\ \A s \in SOCKS : s # srv.sock \/ At("idle") => conn[s].rest = 0
  /\ Busy => IF srv.req.chunked THEN srv.left = 0
             ELSE conn[srv.sock].rest = srv.left /\ (srv.req.len = 0 => srv.left = 0)

(* Who reads a body knows its length, and what is done with one has read it.  *)
ReadToEnd ==
  /\ srv.pc \in {"body", "stream", "drain", "handle", "drained"} => ~ srv.req.chunked
  /\ srv.pc \in {"handle", "drained"} => srv.left = 0
  /\ srv.pc # "purge"

(* Only an answer that is sent in pieces is out before the handler ends.      *)
OneToCome ==
  /\ Busy => srv.answers = IF At("send") THEN 1 ELSE 0
  /\ At("idle") => srv.last.answers = 1

HttpInv == TypeOK /\ Counted /\ ReadToEnd /\ OneToCome
=============================================================================
