----------------------------- MODULE FrontsProofs -----------------------------
(***************************************************************************)
(* What holds of the operator's side, for any number of front ends, slots,  *)
(* sockets, sessions, writers and readers: answers are one's own, logins    *)
(* and secrets end when they must, and the network that is edited is the    *)
(* network that is joined.  Each part's inductive invariant stands at the   *)
(* end of its module; here it is shown to hold.                             *)
(***************************************************************************)
EXTENDS Fronts, FiniteSetTheorems, NaturalsInduction, WellFoundedInduction, SequenceTheorems, TLAPS

-----------------------------------------------------------------------------
(* HttpSrv.  Its variables conn and srv are the slots now and ses.           *)

LEMMA HttpStarts == Http!Init => Http!HttpInv
<1> SUFFICES ASSUME Http!Init PROVE Http!HttpInv
  OBVIOUS
<1>1. now = [s \in SOCKS |-> Http!Closed] /\ ses = Http!Idle
  BY DEF Http!Init
<1>2. Http!Closed \in Http!Conns /\ Http!Closed.rest = 0
  BY DEF Http!Closed, Http!Conns, Http!Lengths, Http!LONG
<1>3. ses.pc = "idle" /\ ses.sock = 1 /\ ses.answers = 0 /\ ses.last.answers = 1
  BY <1>1 DEF Http!Idle
<1>4. Http!NoRequest \in Http!Request
  BY DEF Http!NoRequest, Http!Request, Http!LONG
<1>5. ses \in Http!Servers
  BY <1>1, <1>4, HttpBounds DEF Http!Idle, Http!Servers, Http!Lengths, Http!LONG
<1>6. Http!TypeOK
  BY <1>1, <1>2, <1>5 DEF Http!TypeOK
<1>7. Http!Counted /\ Http!ReadToEnd /\ Http!OneToCome
  BY <1>1, <1>2, <1>3 DEF Http!Counted, Http!ReadToEnd, Http!OneToCome, Http!At, Http!Busy
<1> QED  BY <1>6, <1>7 DEF Http!HttpInv

(* What a server's record is after a step that ends a request. *)
LEMMA HttpEnds ==
  ASSUME Http!HttpInv, NEW kept \in BOOLEAN, kept => ses.left = 0, Http!Ends(kept, 1)
  PROVE  /\ ses' \in Http!Servers /\ ses'.pc = "idle" /\ ses'.sock = ses.sock /\ ses'.last.answers = 1
         /\ ses'.answers = 1
<1>1. ses \in Http!Servers
  BY DEF Http!HttpInv, Http!TypeOK
<1>2. (IF kept /\ ses.left > 0 THEN "purge" ELSE "idle") = "idle"
  BY <1>1
<1>3. [answers |-> 1, kept |-> kept] \in [answers : 0 .. 1, kept : BOOLEAN] /\ [answers |-> 1, kept |-> kept].answers = 1
  OBVIOUS
<1> DEFINE l == [answers |-> 1, kept |-> kept]
<1>4. l \in [answers : 0 .. 1, kept : BOOLEAN] /\ l.answers = 1 /\ 0 \in Nat /\ 1 \in 0 .. 1
  BY <1>3
<1>5. ses' = [ses EXCEPT !.pc = "idle", !.timeouts = 0, !.answers = 1, !.last = l]
  <2> DEFINE pc == IF kept /\ ses.left > 0 THEN "purge" ELSE "idle"
  <2>1. ses' = [ses EXCEPT !.pc = pc, !.timeouts = 0, !.answers = 1, !.last = l]
    BY Zenon DEF Http!Ends
  <2>2. pc = "idle"
    BY <1>2
  <2> HIDE DEF pc, l
  <2> QED  BY <2>1, <2>2
<1> HIDE DEF l
<1> QED  BY <1>1, <1>4, <1>5 DEF Http!Servers

LEMMA HttpCloses == Http!HttpInv /\ Http!Busy /\ Http!Close(1) => Http!HttpInv'
<1> SUFFICES ASSUME Http!HttpInv, Http!Busy, Http!Close(1) PROVE Http!HttpInv'
  OBVIOUS
<1>1. now' = [now EXCEPT ![ses.sock] = Http!Closed] /\ Http!Ends(FALSE, 1)
  BY DEF Http!Close
<1>2. /\ ses' \in Http!Servers /\ ses'.pc = "idle" /\ ses'.sock = ses.sock /\ ses'.last.answers = 1
      /\ ses'.answers = 1
  BY <1>1, HttpEnds
<1>3. Http!Closed \in Http!Conns /\ Http!Closed.rest = 0 /\ ses.sock \in SOCKS /\ now \in [SOCKS -> Http!Conns]
  BY DEF Http!Closed, Http!Conns, Http!Lengths, Http!LONG, Http!HttpInv, Http!TypeOK, Http!Servers
<1>4. now' \in [SOCKS -> Http!Conns] /\ \A s \in SOCKS : now'[s].rest = 0
  BY <1>1, <1>3 DEF Http!HttpInv, Http!Counted
<1> QED  BY <1>2, <1>4
         DEF Http!HttpInv, Http!TypeOK, Http!Counted, Http!ReadToEnd, Http!OneToCome, Http!At, Http!Busy

LEMMA HttpKeeps ==
  Http!HttpInv /\ Http!Busy /\ ses.left = 0 /\ ~ ses.req.chunked /\ Http!Keep(1) => Http!HttpInv'
<1> SUFFICES ASSUME Http!HttpInv, Http!Busy, ses.left = 0, ~ ses.req.chunked, Http!Keep(1) PROVE Http!HttpInv'
  OBVIOUS
<1>1. now' = now /\ Http!Ends(TRUE, 1)
  BY DEF Http!Keep
<1>2. /\ ses' \in Http!Servers /\ ses'.pc = "idle" /\ ses'.sock = ses.sock /\ ses'.last.answers = 1
      /\ ses'.answers = 1
  BY <1>1, HttpEnds
<1>3. \A s \in SOCKS : now[s].rest = 0
  BY DEF Http!HttpInv, Http!Counted
<1> QED  BY <1>1, <1>2, <1>3
         DEF Http!HttpInv, Http!TypeOK, Http!Counted, Http!ReadToEnd, Http!OneToCome, Http!At, Http!Busy

LEMMA HttpDone ==
  ASSUME Http!HttpInv, Http!Busy, NEW drained \in BOOLEAN, drained => ses.left = 0 /\ ~ ses.req.chunked,
         Http!Done(drained, 1)
  PROVE  Http!HttpInv'
<1>1. CASE drained \/ (Http!ContentLen(ses.req) = 0 /\ ~ ses.req.chunked)
  <2>1. ses.left = 0 /\ ~ ses.req.chunked /\ Http!Keep(1)
    BY <1>1 DEF Http!Done, Http!ContentLen, Http!HttpInv, Http!Counted
  <2> QED  BY <2>1, HttpKeeps
<1>2. CASE ~ (drained \/ (Http!ContentLen(ses.req) = 0 /\ ~ ses.req.chunked))
  BY <1>2, HttpCloses DEF Http!Done
<1> QED  BY <1>1, <1>2

LEMMA HttpUnread == Http!HttpInv /\ Http!Busy /\ ~ Http!At("send") /\ Http!Unread => Http!HttpInv'
<1> SUFFICES ASSUME Http!HttpInv, Http!Busy, ~ Http!At("send"), Http!Unread PROVE Http!HttpInv'
  OBVIOUS
<1>1. Http!Answer = 1 /\ FALSE \in BOOLEAN
  BY DEF Http!Answer, Http!HttpInv, Http!OneToCome
<1>2. Http!Done(FALSE, 1)
  BY <1>1 DEF Http!Unread
<1> QED  BY <1>1, <1>2, HttpDone

(* A step to another place of the handler, which moves no byte. *)
LEMMA HttpGoes ==
  ASSUME Http!HttpInv, Http!Busy, ~ Http!At("send"), NEW pc \in {"body", "handle", "stream", "drain"}, Http!Goto(pc),
         ~ ses.req.chunked, pc = "handle" => ses.left = 0
  PROVE  Http!HttpInv'
<1>1. ses \in Http!Servers /\ now' = now /\ ses' = [ses EXCEPT !.pc = pc, !.timeouts = 0] /\ 0 \in Nat
  BY DEF Http!HttpInv, Http!TypeOK, Http!Goto
<1>2. /\ ses' \in Http!Servers /\ ses'.pc = pc /\ ses'.sock = ses.sock /\ ses'.req = ses.req /\ ses'.left = ses.left
      /\ ses'.answers = ses.answers
  BY <1>1 DEF Http!Servers
<1> QED  BY <1>1, <1>2
         DEF Http!HttpInv, Http!TypeOK, Http!Counted, Http!ReadToEnd, Http!OneToCome, Http!At, Http!Busy

LEMMA HttpConnections ==
  ASSUME Http!HttpInv, NEW s \in SOCKS,
         Http!Accept(s) \/ Http!PeerCloses(s) \/ \E r \in Http!Request : Http!Parse(s, r)
  PROVE  Http!HttpInv'
<1>1. now \in [SOCKS -> Http!Conns] /\ ses \in Http!Servers /\ ses.pc = "idle" /\ \A x \in SOCKS : now[x].rest = 0
  BY DEF Http!HttpInv, Http!TypeOK, Http!Counted, Http!Accept, Http!PeerCloses, Http!Parse, Http!At
<1>2. CASE Http!Accept(s) \/ Http!PeerCloses(s)
  <2> DEFINE c == IF Http!Accept(s) THEN [open |-> TRUE, rest |-> 0] ELSE Http!Closed
  <2>1. c \in Http!Conns /\ c.rest = 0
    BY DEF Http!Closed, Http!Conns, Http!Lengths, Http!LONG
  <2>2. ses' = ses /\ now' = [now EXCEPT ![s] = c]
    BY <1>2 DEF Http!Accept, Http!PeerCloses
  <2> HIDE DEF c
  <2>3. now' \in [SOCKS -> Http!Conns] /\ \A x \in SOCKS : now'[x].rest = 0
    BY <1>1, <2>1, <2>2
  <2> QED  BY <1>1, <2>2, <2>3
           DEF Http!HttpInv, Http!TypeOK, Http!Counted, Http!ReadToEnd, Http!OneToCome, Http!At, Http!Busy
<1>3. ASSUME NEW r \in Http!Request, Http!Parse(s, r) PROVE Http!HttpInv'
  <2>1. /\ now' = [now EXCEPT ![s].rest = r.len]
        /\ ses' = [ses EXCEPT !.pc = "entry", !.sock = s, !.req = r, !.left = Http!ContentLen(r),
                              !.timeouts = 0, !.answers = 0]
    BY <1>3 DEF Http!Parse
  <2>2. r.len \in Http!Lengths /\ Http!ContentLen(r) \in Http!Lengths
    BY DEF Http!Request, Http!Lengths, Http!ContentLen, Http!LONG
  <2>3. /\ now' \in [SOCKS -> Http!Conns] /\ now'[s].rest = r.len
        /\ \A x \in SOCKS : x # s => now'[x].rest = 0
    BY <1>1, <2>1, <2>2 DEF Http!Conns
  <2>4. /\ ses' \in Http!Servers /\ ses'.pc = "entry" /\ ses'.sock = s /\ ses'.req = r
        /\ ses'.left = Http!ContentLen(r) /\ ses'.answers = 0
    <3> DEFINE c == Http!ContentLen(r)
    <3>1. /\ c \in Http!Lengths /\ 0 \in Nat /\ 0 \in 0 .. 1
          /\ ses' = [ses EXCEPT !.pc = "entry", !.sock = s, !.req = r, !.left = c, !.timeouts = 0, !.answers = 0]
      BY <2>1, <2>2
    <3> HIDE DEF c
    <3>2. /\ ses' \in Http!Servers /\ ses'.pc = "entry" /\ ses'.sock = s /\ ses'.req = r
          /\ ses'.left = c /\ ses'.answers = 0
      BY <1>1, <3>1 DEF Http!Servers
    <3> QED  BY <3>2 DEF c
  <2>5. Http!TypeOK' /\ Http!ReadToEnd' /\ Http!OneToCome'
    BY <2>3, <2>4 DEF Http!TypeOK, Http!ReadToEnd, Http!OneToCome, Http!At, Http!Busy
  <2>6. Http!Counted'
    BY <2>3, <2>4 DEF Http!Counted, Http!At, Http!Busy, Http!ContentLen
  <2> QED  BY <2>5, <2>6 DEF Http!HttpInv
<1> QED  BY <1>2, <1>3

(* What is answered at once, from route_entry or a handler. *)
LEMMA HttpShort ==
  ASSUME Http!HttpInv,
         \/ Http!Unroutable \/ Http!Unauthorized \/ Http!h_help \/ Http!h_schema \/ Http!h_alarms
         \/ Http!h_config_get \/ Http!h_wifi_scan \/ Http!h_fleet_delete \/ Http!h_state \/ Http!h_logout
         \/ Http!LowHeap \/ Http!AssetShort \/ Http!NoImage \/ Http!UploadRefused
  PROVE  Http!HttpInv'
<1>1. Http!At("entry")
  BY DEF Http!Unroutable, Http!Unauthorized, Http!h_help, Http!h_schema, Http!h_alarms, Http!h_config_get,
         Http!h_wifi_scan, Http!h_fleet_delete, Http!h_state, Http!h_logout, Http!LowHeap, Http!AssetShort,
         Http!NoImage, Http!UploadRefused, Http!Uploading, Http!Enters
<1>2. Http!Unread \/ Http!Close(Http!Answer)
  BY DEF Http!Unroutable, Http!Unauthorized, Http!h_help, Http!h_schema, Http!h_alarms, Http!h_config_get,
         Http!h_wifi_scan, Http!h_fleet_delete, Http!h_state, Http!h_logout, Http!LowHeap, Http!AssetShort,
         Http!NoImage, Http!UploadRefused
<1>3. Http!Busy /\ ~ Http!At("send") /\ Http!Answer = 1
  BY <1>1 DEF Http!At, Http!Busy, Http!Answer, Http!HttpInv, Http!OneToCome
<1> QED  BY <1>2, <1>3, HttpUnread, HttpCloses

(* A handler that has its body, and what reads on to refuse it. *)
LEMMA HttpHandled ==
  ASSUME Http!HttpInv,
         \/ Http!h_cmd \/ Http!h_wifi_set \/ Http!h_fleet_post \/ Http!h_config_put \/ Http!h_login
         \/ Http!h_password \/ Http!UploadDone \/ Http!DrainSpent \/ Http!DrainEnds
  PROVE  Http!HttpInv'
<1>1. ses.pc \in {"handle", "stream", "drain", "drained"}
  BY DEF Http!h_cmd, Http!h_wifi_set, Http!h_fleet_post, Http!h_config_put, Http!h_login, Http!h_password,
         Http!UploadDone, Http!DrainSpent, Http!DrainEnds, Http!Handled, Http!NotSent, Http!At
<1>2. Http!Busy /\ ~ Http!At("send") /\ Http!Answer = 1 /\ ~ ses.req.chunked
  BY <1>1 DEF Http!At, Http!Busy, Http!Answer, Http!HttpInv, Http!OneToCome, Http!ReadToEnd
<1>3. CASE Http!DrainSpent
  BY <1>2, <1>3, HttpDone DEF Http!DrainSpent
<1>4. CASE ses.left = 0 /\ (Http!Done(TRUE, Http!Answer) \/ Http!Close(Http!Answer))
  <2>1. TRUE \in BOOLEAN
    OBVIOUS
  <2> QED  BY <1>2, <1>4, <2>1, HttpDone, HttpCloses
<1>5. Http!DrainSpent \/ (ses.left = 0 /\ (Http!Done(TRUE, Http!Answer) \/ Http!Close(Http!Answer)))
  BY DEF Http!h_cmd, Http!h_wifi_set, Http!h_fleet_post, Http!h_config_put, Http!h_login, Http!h_password,
         Http!UploadDone, Http!DrainEnds, Http!Handled, Http!NotSent, Http!At, Http!HttpInv, Http!ReadToEnd
<1> QED  BY <1>3, <1>4, <1>5

LEMMA HttpBodies ==
  ASSUME Http!HttpInv, (\E r \in Http!BodyReaders : Http!ReadBody(r)) \/ Http!UploadStarts \/ Http!UploadRejected
  PROVE  Http!HttpInv'
<1>1. ses.pc \in {"entry", "stream"}
  BY DEF Http!ReadBody, Http!UploadStarts, Http!Uploading, Http!Enters, Http!UploadRejected, Http!At
<1>2. Http!Busy /\ ~ Http!At("send") /\ Http!Answer = 1
  BY <1>1 DEF Http!At, Http!Busy, Http!Answer, Http!HttpInv, Http!OneToCome
<1>3. ASSUME NEW r \in Http!BodyReaders, Http!ReadBody(r) PROVE Http!HttpInv'
  <2>1. CASE Http!BodyRefused
    BY <1>2, <1>3, <2>1, HttpUnread DEF Http!ReadBody
  <2>2. CASE ~ Http!BodyRefused
    <3> DEFINE pc == IF Http!ContentLen(ses.req) = 0 THEN "handle" ELSE "body"
    <3>1. pc \in {"body", "handle", "stream", "drain"} /\ Http!Goto(pc) /\ ~ ses.req.chunked
      BY <1>3, <2>2 DEF Http!ReadBody, Http!BodyRefused
    <3>2. pc = "handle" => ses.left = 0
      <4>1. Http!ContentLen(ses.req) = ses.req.len
        BY <3>1 DEF Http!ContentLen
      <4>2. ses.req.len = 0 => ses.left = 0
        BY <1>2, <3>1 DEF Http!HttpInv, Http!Counted
      <4> QED  BY <4>1, <4>2
    <3> HIDE DEF pc
    <3> QED  BY <1>2, <3>1, <3>2, HttpGoes
  <2> QED  BY <2>1, <2>2
<1>4. CASE Http!UploadStarts
  <2>1. "stream" \in {"body", "handle", "stream", "drain"} /\ Http!Goto("stream") /\ ~ ses.req.chunked
    BY <1>4 DEF Http!UploadStarts
  <2> QED  BY <1>2, <2>1, HttpGoes
<1>5. CASE Http!UploadRejected
  <2>1. ~ ses.req.chunked /\ ses.left \in Nat
    BY <1>5 DEF Http!UploadRejected, Http!At, Http!HttpInv, Http!ReadToEnd, Http!TypeOK, Http!Servers,
                Http!Lengths, Http!LONG
  <2>2. CASE ses.left > 0
    <3>1. "drain" \in {"body", "handle", "stream", "drain"} /\ Http!Goto("drain")
      BY <1>5, <2>2 DEF Http!UploadRejected
    <3> QED  BY <1>2, <2>1, <3>1, HttpGoes
  <2>3. CASE ~ (ses.left > 0)
    <3>1. Http!Done(TRUE, 1)
      BY <1>2, <1>5, <2>3 DEF Http!UploadRejected
    <3>2. ses.left = 0 /\ TRUE \in BOOLEAN
      BY <2>1, <2>3
    <3> QED  BY <1>2, <2>1, <3>1, <3>2, HttpDone
  <2> QED  BY <2>2, <2>3
<1> QED  BY <1>3, <1>4, <1>5

(* Answers sent in pieces. *)
LEMMA HttpSends ==
  ASSUME Http!HttpInv, Http!send_asset \/ Http!zone_bin_get \/ Http!BudgetSpent \/ Http!SendEnds
  PROVE  Http!HttpInv'
<1>1. CASE Http!send_asset \/ Http!zone_bin_get
  <2>1. Http!At("entry") /\ now' = now /\ ses' = [ses EXCEPT !.pc = "send", !.answers = Http!Answer]
    BY <1>1 DEF Http!send_asset, Http!zone_bin_get, Http!SendStarts, Http!Enters
  <2>2. Http!Busy /\ Http!Answer = 1 /\ ses \in Http!Servers
    BY <2>1 DEF Http!At, Http!Busy, Http!Answer, Http!HttpInv, Http!OneToCome, Http!TypeOK
  <2>3. /\ ses' \in Http!Servers /\ ses'.pc = "send" /\ ses'.sock = ses.sock /\ ses'.req = ses.req
        /\ ses'.left = ses.left /\ ses'.answers = 1
    <3>1. ses' = [ses EXCEPT !.pc = "send", !.answers = 1] /\ 1 \in 0 .. 1
      BY <2>1, <2>2
    <3> QED  BY <2>2, <3>1 DEF Http!Servers
  <2> QED  BY <2>1, <2>2, <2>3
           DEF Http!HttpInv, Http!TypeOK, Http!Counted, Http!ReadToEnd, Http!OneToCome, Http!At, Http!Busy
<1>2. CASE Http!BudgetSpent \/ Http!SendEnds
  <2>1. Http!Busy /\ ses.answers = 1 /\ (Http!Done(FALSE, ses.answers) \/ Http!Close(ses.answers))
    BY <1>2 DEF Http!BudgetSpent, Http!SendEnds, Http!At, Http!Busy, Http!HttpInv, Http!OneToCome
  <2>2. FALSE \in BOOLEAN
    OBVIOUS
  <2> QED  BY <2>1, <2>2, HttpDone, HttpCloses
<1> QED  BY <1>1, <1>2

LEMMA HttpReceives ==
  ASSUME Http!HttpInv, Http!RecvData \/ Http!RecvTimeout \/ Http!RecvFails
  PROVE  Http!HttpInv'
<1>1. ses.pc \in {"body", "stream", "drain"} /\ ses.left > 0
  BY DEF Http!RecvData, Http!RecvTimeout, Http!RecvFails, Http!Receiving, Http!HttpInv, Http!ReadToEnd
<1>2. /\ Http!Busy /\ ~ Http!At("send") /\ ~ Http!At("purge") /\ ~ ses.req.chunked /\ ses.answers = 0
      /\ now[ses.sock].rest = ses.left /\ ses.req.len # 0 /\ ses \in Http!Servers /\ now \in [SOCKS -> Http!Conns]
      /\ ses.sock \in SOCKS /\ ses.left \in Http!Lengths
  BY <1>1 DEF Http!At, Http!Busy, Http!HttpInv, Http!OneToCome, Http!ReadToEnd, Http!Counted, Http!TypeOK,
              Http!Servers
<1>3. CASE Http!GivesUp
  BY <1>2, <1>3, HttpUnread DEF Http!GivesUp
<1>4. CASE Http!RecvData
  <2> DEFINE left == Http!Less(ses.left)
             pc == IF left > 0 \/ Http!At("stream") THEN ses.pc
                   ELSE CASE Http!At("body") -> "handle" [] Http!At("drain") -> "drained" [] OTHER -> "idle"
  <2>1. left \in Http!Lengths
    BY <1>1, <1>2 DEF Http!Less, Http!Lengths, Http!LONG
  <2>2. /\ pc \in {"body", "stream", "drain", "handle", "drained"}
        /\ pc \in {"handle", "drained"} => left = 0
    BY <1>1, <2>1 DEF Http!At, Http!Lengths, Http!LONG
  <2>3. now' = [now EXCEPT ![ses.sock].rest = Http!Less(@)]
    BY <1>4 DEF Http!RecvData
  <2>4. ses' = [ses EXCEPT !.left = left, !.timeouts = 0, !.pc = pc]
    <3>1. CASE left > 0 \/ Http!At("stream")
      <4>1. ses' = [ses EXCEPT !.left = left, !.timeouts = 0]
        BY <1>4, <3>1 DEF Http!RecvData
      <4>2. pc = ses.pc
        BY <3>1
      <4> HIDE DEF pc, left
      <4> QED  BY <1>2, <4>1, <4>2 DEF Http!Servers
    <3>2. CASE ~ (left > 0 \/ Http!At("stream"))
      <4>1. left = 0
        BY <2>1, <3>2 DEF Http!Lengths, Http!LONG
      <4>2. ses' = [ses EXCEPT !.left = 0, !.timeouts = 0,
                               !.pc = CASE Http!At("body")  -> "handle"
                                        [] Http!At("drain") -> "drained"
                                        [] OTHER            -> "idle"]
        BY <1>4, <3>2 DEF Http!RecvData
      <4>3. pc = CASE Http!At("body") -> "handle" [] Http!At("drain") -> "drained" [] OTHER -> "idle"
        BY <3>2
      <4> HIDE DEF pc, left
      <4> QED  BY <4>1, <4>2, <4>3
    <3> QED  BY <3>1, <3>2
  <2> HIDE DEF left, pc
  <2>5. /\ ses' \in Http!Servers /\ ses'.pc = pc /\ ses'.sock = ses.sock /\ ses'.req = ses.req /\ ses'.left = left
        /\ ses'.answers = ses.answers
    BY <1>2, <2>1, <2>2, <2>4 DEF Http!Servers
  <2>6. /\ now' \in [SOCKS -> Http!Conns] /\ now'[ses.sock].rest = left
        /\ \A s \in SOCKS : s # ses.sock => now'[s].rest = now[s].rest
    BY <1>2, <2>1, <2>3 DEF Http!Conns, left
  <2>7. Http!TypeOK' /\ Http!ReadToEnd' /\ Http!OneToCome'
    BY <1>2, <2>2, <2>5, <2>6 DEF Http!TypeOK, Http!ReadToEnd, Http!OneToCome, Http!At, Http!Busy
  <2>8. Http!Counted'
    BY <1>2, <2>2, <2>5, <2>6 DEF Http!HttpInv, Http!Counted, Http!At, Http!Busy
  <2> QED  BY <2>7, <2>8 DEF Http!HttpInv
<1>5. CASE now' = now /\ ses' = [ses EXCEPT !.timeouts = @ + 1]
  <2>1. ses.timeouts + 1 \in Nat
    BY <1>2 DEF Http!Servers
  <2>2. /\ ses' \in Http!Servers /\ ses'.pc = ses.pc /\ ses'.sock = ses.sock /\ ses'.req = ses.req
        /\ ses'.left = ses.left /\ ses'.answers = ses.answers
    BY <1>2, <1>5, <2>1 DEF Http!Servers
  <2> QED  BY <1>2, <1>5, <2>2
           DEF Http!HttpInv, Http!TypeOK, Http!Counted, Http!ReadToEnd, Http!OneToCome, Http!At, Http!Busy
<1> QED  BY <1>3, <1>4, <1>5 DEF Http!RecvTimeout, Http!RecvFails

LEMMA HttpSteps == Http!HttpInv /\ (Http!Next \/ UNCHANGED <<now, ses>>) => Http!HttpInv'
<1> SUFFICES ASSUME Http!HttpInv, Http!Next \/ UNCHANGED <<now, ses>> PROVE Http!HttpInv'
  OBVIOUS
<1>1. CASE UNCHANGED <<now, ses>>
  BY <1>1
     DEF Http!HttpInv, Http!TypeOK, Http!Counted, Http!ReadToEnd, Http!OneToCome, Http!At, Http!Busy
<1>2. CASE \E s \in SOCKS : Http!Accept(s) \/ Http!PeerCloses(s) \/ \E r \in Http!Request : Http!Parse(s, r)
  BY <1>2, HttpConnections
<1>3. CASE Http!Next /\ ~ (\E s \in SOCKS : Http!Accept(s) \/ Http!PeerCloses(s) \/ \E r \in Http!Request : Http!Parse(s, r))
  BY <1>3, HttpShort, HttpHandled, HttpBodies, HttpSends, HttpReceives DEF Http!Next
<1> QED  BY <1>1, <1>2, <1>3

-----------------------------------------------------------------------------
(* CmdPath.  Its variables are the slots now to s14, in their order.        *)

LEMMA CmdBuffers ==
  /\ \A c \in FRONTS : \A b \in Cmd!BufsOf(c) : b[1] = c /\ b \in Cmd!Buffers
  /\ \A b \in Cmd!Buffers : b[1] \in FRONTS /\ b \in Cmd!BufsOf(b[1])
<1>1. \A c \in FRONTS : \A b \in Cmd!BufsOf(c) : b[1] = c
  BY DEF Cmd!BufsOf
<1> QED  BY <1>1 DEF Cmd!Buffers

LEMMA CmdNames ==
  /\ "cmd_task" \notin FRONTS /\ "nobody" \notin FRONTS
  /\ Cmd!Worker = "cmd_task" /\ Cmd!Nobody = "nobody" /\ Cmd!NoReply = 0
  /\ Cmd!Tasks = FRONTS \cup {"cmd_task"}
  /\ \A i \in POOL : i # 0
  /\ POOLED \subseteq FRONTS
BY CmdBounds DEF Cmd!Worker, Cmd!Nobody, Cmd!Tasks, Cmd!NoReply

LEMMA CmdStarts == Cmd!Init => Cmd!CmdInv
<1> SUFFICES ASSUME Cmd!Init PROVE Cmd!CmdInv
  OBVIOUS
<1>1. Cmd!Idle \in Cmd!Calls /\ Cmd!FreeSlot \in Cmd!Slots /\ Cmd!Resting \in Cmd!Jobs /\ Cmd!NoFwd \in Cmd!Fwds
  BY CmdNames DEF Cmd!Idle, Cmd!FreeSlot, Cmd!Resting, Cmd!NoFwd, Cmd!Calls, Cmd!Slots, Cmd!Jobs, Cmd!Fwds
<1>2. s6 = <<>> /\ s6 \in Seq(POOL) /\ DOMAIN s6 = {}
  BY DEF Cmd!Init
<1>3. Cmd!Shapes
  BY <1>1, <1>2, CmdNames DEF Cmd!Init, Cmd!Shapes
<1>4. /\ \A c \in FRONTS : now[c].pc = "idle"
      /\ \A i \in POOL : seen[i].used = FALSE
      /\ s7.pc = "idle" /\ s7.slot = 0 /\ ~ s8.active /\ s10 = "nobody"
      /\ \A t \in Cmd!Tasks : s11[t] = FALSE
      /\ \A b \in Cmd!Buffers : ses[b] = 0
  BY CmdNames DEF Cmd!Init, Cmd!Idle, Cmd!FreeSlot, Cmd!Resting, Cmd!NoFwd
<1>5. Cmd!Handed /\ Cmd!Armed
  BY <1>4, CmdNames DEF Cmd!Handed, Cmd!Armed, Cmd!Awaits
<1>6. Cmd!Queued /\ Cmd!Owned
  BY <1>2, <1>4, CmdNames DEF Cmd!Queued, Cmd!Owned
<1> QED  BY <1>3, <1>5, <1>6 DEF Cmd!CmdInv

LEMMA CmdCallMoves ==
  ASSUME Cmd!Shapes, NEW c \in FRONTS, NEW p \in {"idle", "wait", "drain", "answer", "refuse"},
         now' = [now EXCEPT ![c].pc = p]
  PROVE  /\ now' \in [FRONTS -> Cmd!Calls] /\ now'[c].pc = p
         /\ now'[c].cmd = now[c].cmd /\ now'[c].slot = now[c].slot /\ now'[c].buf = now[c].buf
         /\ \A d \in FRONTS : d # c => now'[d] = now[d]
<1>1. now[c] \in Cmd!Calls
  BY DEF Cmd!Shapes
<1>2. [now[c] EXCEPT !.pc = p] \in Cmd!Calls
  BY <1>1 DEF Cmd!Calls
<1> QED  BY <1>1, <1>2 DEF Cmd!Shapes, Cmd!Calls

LEMMA CmdSlotFrees ==
  ASSUME Cmd!Shapes, NEW i \in POOL, seen' = [seen EXCEPT ![i].used = FALSE]
  PROVE  /\ seen' \in [POOL -> Cmd!Slots] /\ seen'[i].used = FALSE
         /\ \A j \in POOL : j # i => seen'[j] = seen[j]
<1>1. seen[i] \in Cmd!Slots
  BY DEF Cmd!Shapes
<1>2. [seen[i] EXCEPT !.used = FALSE] \in Cmd!Slots
  BY <1>1 DEF Cmd!Slots
<1> QED  BY <1>1, <1>2 DEF Cmd!Shapes, Cmd!Slots

LEMMA CmdJobs ==
  ASSUME Cmd!Shapes
  PROVE  /\ s7.pc \in {"idle", "local", "stuck", "submit", "arm", "fwd", "fwd_drain", "finish", "give"}
         /\ s7.slot \in POOL \cup {0} /\ s7.age \in Nat /\ s7.to \in FRONTS \cup {"nobody"}
BY CmdNames DEF Cmd!Shapes, Cmd!Jobs

LEMMA CmdCollects ==
  ASSUME Cmd!Shapes, Cmd!Handed, Cmd!Queued, Cmd!Owned, Cmd!Armed, NEW c \in FRONTS, Cmd!Collect(c)
  PROVE  Cmd!CmdInv'
<1> DEFINE i == now[c].slot
<1>1. /\ Cmd!Awaits(c) /\ s11[c] /\ now' = [now EXCEPT ![c].pc = "answer"] /\ seen' = [seen EXCEPT ![i].used = FALSE]
      /\ s11' = [s11 EXCEPT ![c] = FALSE]
      /\ UNCHANGED <<ses, clock, last, s6, s7, s8, s9, s10, s12>>
  BY DEF Cmd!Collect, Cmd!Awaits
<1>2. /\ i \in POOL /\ seen[i].used /\ seen[i].waiter = c /\ seen[i].buf = now[c].buf
      /\ seen[i].cmd = now[c].cmd /\ seen[i].done
  BY <1>1, CmdNames DEF Cmd!Handed
<1> HIDE DEF i
<1>3. /\ now' \in [FRONTS -> Cmd!Calls] /\ now'[c].pc = "answer"
      /\ now'[c].cmd = now[c].cmd /\ now'[c].slot = now[c].slot /\ now'[c].buf = now[c].buf
      /\ \A d \in FRONTS : d # c => now'[d] = now[d]
  BY <1>1, CmdCallMoves
<1>4. /\ seen' \in [POOL -> Cmd!Slots] /\ seen'[i].used = FALSE
      /\ \A j \in POOL : j # i => seen'[j] = seen[j]
  BY <1>1, <1>2, CmdSlotFrees
<1>5. /\ s11' \in [Cmd!Tasks -> BOOLEAN] /\ s11'[c] = FALSE
      /\ \A t \in Cmd!Tasks : t # c => s11'[t] = s11[t]
  BY <1>1, CmdNames DEF Cmd!Shapes
<1>6. Cmd!Shapes'
  BY <1>1, <1>3, <1>4, <1>5 DEF Cmd!Shapes
<1>7. i = now[c].slot
  BY DEF i
<1>8. Cmd!Handed'
  <2>1. \A d \in FRONTS : Cmd!Awaits(d)' => d # c /\ Cmd!Awaits(d) /\ now[d].slot # i /\ now'[d] = now[d]
    BY <1>2, <1>3, <1>7 DEF Cmd!Awaits, Cmd!Handed
  <2>2. \A d \in FRONTS : d # c => (Cmd!Awaits(d)' <=> Cmd!Awaits(d))
    BY <1>3 DEF Cmd!Awaits
  <2>3. ~ (s7.pc = "give" /\ s7.to = c)
    BY <1>1, CmdNames DEF Cmd!Handed
  <2>4. \A d \in FRONTS : Cmd!Awaits(d)' =>
           LET s == seen'[now'[d].slot] IN
             /\ now'[d].slot \in POOL /\ s.used /\ s.waiter = d /\ s.buf = now'[d].buf /\ s.cmd = now'[d].cmd
             /\ now'[d].pc = "drain" => s.done
    BY <2>1, <1>4 DEF Cmd!Handed
  <2>5. \A j \in POOL : seen'[j].used /\ seen'[j].waiter # Cmd!Nobody =>
           now'[seen'[j].waiter].pc \in {"wait", "drain"} /\ now'[seen'[j].waiter].slot = j
    <3> SUFFICES ASSUME NEW j \in POOL, seen'[j].used, seen'[j].waiter # Cmd!Nobody
                 PROVE  now'[seen'[j].waiter].pc \in {"wait", "drain"} /\ now'[seen'[j].waiter].slot = j
      OBVIOUS
    <3>1. j # i /\ seen'[j] = seen[j] /\ seen[j] \in Cmd!Slots
      BY <1>4 DEF Cmd!Shapes
    <3>2. seen[j].waiter \in FRONTS /\ now[seen[j].waiter].slot = j /\ Cmd!Awaits(seen[j].waiter)
      BY <3>1 DEF Cmd!Slots, Cmd!Handed
    <3>3. seen[j].waiter # c
      BY <3>1, <3>2, <1>7
    <3> QED  BY <3>1, <3>2, <3>3, <1>3 DEF Cmd!Awaits
  <2>6. \A d \in FRONTS : s11'[d] \/ (s7.pc = "give" /\ s7.to = d) => Cmd!Awaits(d)' /\ seen'[now'[d].slot].done
    <3> SUFFICES ASSUME NEW d \in FRONTS, s11'[d] \/ (s7.pc = "give" /\ s7.to = d)
                 PROVE  Cmd!Awaits(d)' /\ seen'[now'[d].slot].done
      OBVIOUS
    <3>1. d # c /\ (s11[d] \/ (s7.pc = "give" /\ s7.to = d))
      BY <2>3, <1>5, CmdNames
    <3>2. Cmd!Awaits(d) /\ seen[now[d].slot].done
      BY <3>1 DEF Cmd!Handed
    <3> QED  BY <3>1, <3>2, <2>1, <2>2, <1>3, <1>4 DEF Cmd!Handed
  <2>7. s7.pc = "give" => s7.to \in FRONTS /\ ~ s11'[s7.to]
    BY <2>3, <1>5, CmdNames DEF Cmd!Handed
  <2> QED  BY <2>4, <2>5, <2>6, <2>7, <1>1 DEF Cmd!Handed, Cmd!Awaits
<1>9. Cmd!Queued'
  <2>1. \A k \in DOMAIN s6 : s6[k] \in POOL /\ s6[k] # i
    BY <1>2 DEF Cmd!Shapes, Cmd!Queued
  <2>2. s7.slot # i
    BY <1>2, CmdNames DEF Cmd!Queued, Cmd!Mine
  <2> QED  BY <2>1, <2>2, <1>1, <1>4 DEF Cmd!Queued, Cmd!Mine
<1>10. Cmd!Owned'
  <2>1. \A b \in Cmd!Buffers : b[1] \in FRONTS
    BY CmdBuffers
  <2>2. \A d \in FRONTS : (now'[d].pc # "idle" <=> now[d].pc # "idle") /\ (now'[d].pc = "refuse" <=> now[d].pc = "refuse") /\ now'[d].buf = now[d].buf
                            /\ now'[d].cmd = now[d].cmd
                            /\ (now[d].pc \in {"wait", "drain", "answer"} => now'[d].pc \in {"wait", "drain", "answer"})
    BY <1>1, <1>3 DEF Cmd!Awaits
  <2> QED  BY <2>1, <2>2, <1>1, <1>4 DEF Cmd!Owned
<1>11. Cmd!Armed'
  <2>1. s11'["cmd_task"] = s11["cmd_task"]
    BY <1>5, CmdNames
  <2>2. s7.pc \in {"fwd", "fwd_drain"} => s7.slot # i /\ s7.slot \in POOL
    BY <1>2, CmdNames DEF Cmd!Queued, Cmd!Mine
  <2> QED  BY <2>1, <2>2, <1>1, <1>4, CmdNames DEF Cmd!Armed, Cmd!Mine
<1> QED  BY <1>6, <1>8, <1>9, <1>10, <1>11 DEF Cmd!CmdInv

LEMMA CmdIssues ==
  ASSUME Cmd!Shapes, Cmd!Handed, Cmd!Queued, Cmd!Owned, Cmd!Armed, NEW c \in FRONTS, NEW zone \in BOOLEAN,
         Cmd!Issue(c, zone)
  PROVE  Cmd!CmdInv'
<1>1. PICK b \in Cmd!Usable(c), i \in Cmd!FreeSlots :
        /\ seen' = [seen EXCEPT ![i] = [used |-> TRUE, done |-> FALSE, cmd |-> s12', zone |-> zone,
                                        buf |-> b, waiter |-> c]]
        /\ s6' = Append(s6, i)
        /\ now' = [now EXCEPT ![c] = [pc |-> "wait", cmd |-> s12', slot |-> i, buf |-> b, age |-> 0]]
  BY DEF Cmd!Issue
<1>2. now[c].pc = "idle" /\ s12' = s12 + 1 /\ UNCHANGED <<ses, last, s7, s8, s9, s10, s11>>
  BY DEF Cmd!Issue
<1>3. b \in Cmd!BufsOf(c) /\ b \notin last /\ b \in Cmd!Buffers /\ b[1] = c
  BY CmdBuffers DEF Cmd!Usable
<1>4. i \in POOL /\ ~ seen[i].used
  BY DEF Cmd!FreeSlots
<1> DEFINE n == s12'
           k == [pc |-> "wait", cmd |-> n, slot |-> i, buf |-> b, age |-> 0]
           s == [used |-> TRUE, done |-> FALSE, cmd |-> n, zone |-> zone, buf |-> b, waiter |-> c]
<1>5. n \in Nat
  BY <1>2 DEF Cmd!Shapes
<1>6. /\ k \in Cmd!Calls /\ k.pc = "wait" /\ k.cmd = n /\ k.slot = i /\ k.buf = b
      /\ s \in Cmd!Slots /\ s.used /\ ~ s.done /\ s.cmd = n /\ s.buf = b /\ s.waiter = c
  BY <1>3, <1>4, <1>5 DEF Cmd!Calls, Cmd!Slots
<1>7. now' = [now EXCEPT ![c] = k] /\ seen' = [seen EXCEPT ![i] = s]
  BY <1>1
<1> HIDE DEF n, k, s
<1>8. /\ now' \in [FRONTS -> Cmd!Calls] /\ now'[c] = k /\ \A d \in FRONTS : d # c => now'[d] = now[d]
      /\ seen' \in [POOL -> Cmd!Slots] /\ seen'[i] = s /\ \A j \in POOL : j # i => seen'[j] = seen[j]
  BY <1>4, <1>6, <1>7 DEF Cmd!Shapes
<1>9. /\ s6' \in Seq(POOL) /\ Len(s6') = Len(s6) + 1 /\ DOMAIN s6 = 1 .. Len(s6) /\ Len(s6) \in Nat
      /\ DOMAIN s6' = 1 .. Len(s6) + 1 /\ s6'[Len(s6) + 1] = i
      /\ \A q \in DOMAIN s6 : s6'[q] = s6[q] /\ s6[q] \in POOL /\ s6[q] # i
  <2>1. s6 \in Seq(POOL)
    BY DEF Cmd!Shapes
  <2>2. \A q \in DOMAIN s6 : s6[q] \in POOL /\ s6[q] # i
    BY <2>1, <1>4 DEF Cmd!Queued
  <2> QED  BY <2>1, <2>2, <1>1, <1>4
<1>10. Cmd!Shapes'
  BY <1>2, <1>5, <1>8, <1>9 DEF Cmd!Shapes, n
<1>11. s7.slot # i
  BY <1>4, CmdNames DEF Cmd!Queued, Cmd!Mine
<1>12. Cmd!Handed'
  <2>1. \A d \in FRONTS : d # c => (Cmd!Awaits(d)' <=> Cmd!Awaits(d))
    BY <1>8 DEF Cmd!Awaits
  <2>2. ~ s11[c] /\ ~ (s7.pc = "give" /\ s7.to = c)
    BY <1>2, CmdNames DEF Cmd!Handed, Cmd!Awaits
  <2>3. \A d \in FRONTS : Cmd!Awaits(d) => now[d].slot # i /\ now[d].slot \in POOL
    BY <1>4 DEF Cmd!Handed
  <2>4. \A d \in FRONTS : Cmd!Awaits(d)' =>
           LET r == seen'[now'[d].slot] IN
             /\ now'[d].slot \in POOL /\ r.used /\ r.waiter = d /\ r.buf = now'[d].buf /\ r.cmd = now'[d].cmd
             /\ now'[d].pc = "drain" => r.done
    <3> SUFFICES ASSUME NEW d \in FRONTS, Cmd!Awaits(d)'
                 PROVE  LET r == seen'[now'[d].slot] IN
                          /\ now'[d].slot \in POOL /\ r.used /\ r.waiter = d /\ r.buf = now'[d].buf /\ r.cmd = now'[d].cmd
                          /\ now'[d].pc = "drain" => r.done
      OBVIOUS
    <3>1. CASE d = c
      BY <3>1, <1>4, <1>6, <1>8
    <3>2. CASE d # c
      BY <3>2, <2>1, <2>3, <1>8 DEF Cmd!Handed
    <3> QED  BY <3>1, <3>2
  <2>5. \A j \in POOL : seen'[j].used /\ seen'[j].waiter # Cmd!Nobody =>
           now'[seen'[j].waiter].pc \in {"wait", "drain"} /\ now'[seen'[j].waiter].slot = j
    <3> SUFFICES ASSUME NEW j \in POOL, seen'[j].used, seen'[j].waiter # Cmd!Nobody
                 PROVE  now'[seen'[j].waiter].pc \in {"wait", "drain"} /\ now'[seen'[j].waiter].slot = j
      OBVIOUS
    <3>1. CASE j = i
      BY <3>1, <1>6, <1>8
    <3>2. CASE j # i
      <4>1. seen'[j] = seen[j] /\ seen[j] \in Cmd!Slots
        BY <3>2, <1>8 DEF Cmd!Shapes
      <4>2. seen[j].waiter \in FRONTS /\ now[seen[j].waiter].slot = j /\ now[seen[j].waiter].pc \in {"wait", "drain"}
        BY <4>1 DEF Cmd!Slots, Cmd!Handed, Cmd!Awaits
      <4> QED  BY <4>1, <4>2, <1>2, <1>8
    <3> QED  BY <3>1, <3>2
  <2>6. \A d \in FRONTS : s11[d] \/ (s7.pc = "give" /\ s7.to = d) => Cmd!Awaits(d)' /\ seen'[now'[d].slot].done
    <3> SUFFICES ASSUME NEW d \in FRONTS, s11[d] \/ (s7.pc = "give" /\ s7.to = d)
                 PROVE  Cmd!Awaits(d)' /\ seen'[now'[d].slot].done
      OBVIOUS
    <3>1. d # c /\ Cmd!Awaits(d) /\ seen[now[d].slot].done
      BY <2>2 DEF Cmd!Handed
    <3> QED  BY <3>1, <2>1, <2>3, <1>8
  <2> QED  BY <2>4, <2>5, <2>6, <1>2 DEF Cmd!Handed, Cmd!Awaits
<1>13. Cmd!Queued'
  <2>1. \A q \in DOMAIN s6' : seen'[s6'[q]].used /\ ~ seen'[s6'[q]].done /\ s6'[q] # s7.slot
    <3> SUFFICES ASSUME NEW q \in DOMAIN s6' PROVE seen'[s6'[q]].used /\ ~ seen'[s6'[q]].done /\ s6'[q] # s7.slot
      OBVIOUS
    <3>1. CASE q = Len(s6) + 1
      BY <3>1, <1>6, <1>8, <1>9, <1>11
    <3>2. CASE q \in DOMAIN s6
      BY <3>2, <1>8, <1>9 DEF Cmd!Queued
    <3> QED  BY <3>1, <3>2, <1>9
  <2>2. \A p, q \in DOMAIN s6' : s6'[p] = s6'[q] => p = q
    <3> SUFFICES ASSUME NEW p \in DOMAIN s6', NEW q \in DOMAIN s6', s6'[p] = s6'[q] PROVE p = q
      OBVIOUS
    <3>1. (p \in DOMAIN s6 \/ p = Len(s6) + 1) /\ (q \in DOMAIN s6 \/ q = Len(s6) + 1)
      BY <1>9
    <3>2. CASE p \in DOMAIN s6 /\ q \in DOMAIN s6
      BY <3>2, <1>9 DEF Cmd!Queued
    <3> QED  BY <3>1, <3>2, <1>9
  <2>3. IF s7.pc \in {"idle", "give"} THEN s7.slot = 0 ELSE s7.slot \in POOL /\ seen'[s7.slot].used /\ ~ seen'[s7.slot].done
    BY <1>8, <1>11 DEF Cmd!Queued, Cmd!Mine
  <2> QED  BY <2>1, <2>2, <2>3, <1>2 DEF Cmd!Queued, Cmd!Mine
<1>14. Cmd!Owned'
  <2>1. \A d \in FRONTS : now'[d].pc # "idle" =>
           /\ now'[d].buf \in Cmd!BufsOf(d)
           /\ d \in POOLED /\ now'[d].pc # "refuse" => now'[d].buf \notin last
    BY <1>3, <1>6, <1>8 DEF Cmd!Owned
  <2>2. \A j \in POOL : seen'[j].used =>
           /\ seen'[j].buf \in Cmd!Buffers
           /\ seen'[j].waiter = Cmd!Nobody /\ seen'[j].buf[1] \in POOLED => seen'[j].buf \in last
    BY <1>3, <1>6, <1>8, CmdNames DEF Cmd!Owned
  <2>3. \A d \in Cmd!Buffers : d[1] \in POOLED /\ d \notin last /\ ses[d] # 0 =>
           /\ now'[d[1]].pc \in {"wait", "drain", "answer"}
           /\ now'[d[1]].buf = d /\ now'[d[1]].cmd = ses[d]
    <3> SUFFICES ASSUME NEW d \in Cmd!Buffers, d[1] \in POOLED, d \notin last, ses[d] # 0
                 PROVE  /\ now'[d[1]].pc \in {"wait", "drain", "answer"}
                        /\ now'[d[1]].buf = d /\ now'[d[1]].cmd = ses[d]
      OBVIOUS
    <3>1. /\ now[d[1]].pc \in {"wait", "drain", "answer"}
          /\ now[d[1]].buf = d /\ now[d[1]].cmd = ses[d]
      BY CmdNames DEF Cmd!Owned
    <3> QED  BY <3>1, <1>2, <1>8, CmdBuffers
  <2> QED  BY <2>1, <2>2, <2>3, <1>2, CmdNames DEF Cmd!Owned
<1>15. Cmd!Armed'
  <2>1. s7.pc \in {"fwd", "fwd_drain"} => seen'[s7.slot] = seen[s7.slot]
    BY <1>8, <1>11 DEF Cmd!Queued
  <2> QED  BY <2>1, <1>2 DEF Cmd!Armed, Cmd!Mine
<1> QED  BY <1>10, <1>12, <1>13, <1>14, <1>15 DEF Cmd!CmdInv

LEMMA CmdAnswers ==
  ASSUME Cmd!Shapes, Cmd!Handed, Cmd!Queued, Cmd!Owned, Cmd!Armed, NEW c \in FRONTS, Cmd!AnswerSent(c)
  PROVE  Cmd!CmdInv'
<1> DEFINE k == Cmd!Idle
           b == now[c].buf
<1>1. /\ now[c].pc \in {"answer", "refuse"} /\ now' = [now EXCEPT ![c] = k]
      /\ ses' = IF now[c].pc = "answer" /\ c \in POOLED THEN [ses EXCEPT ![b] = 0] ELSE ses
      /\ UNCHANGED <<last, seen, s6, s7, s8, s9, s10, s11, s12>>
  BY CmdNames DEF Cmd!AnswerSent
<1>2. k \in Cmd!Calls /\ k.pc = "idle"
  BY DEF Cmd!Idle, Cmd!Calls
<1>3. b \in Cmd!Buffers /\ b \in Cmd!BufsOf(c) /\ b[1] = c
  BY <1>1, CmdBuffers DEF Cmd!Owned
<1> HIDE DEF k, b
<1>4. /\ now' \in [FRONTS -> Cmd!Calls] /\ now'[c] = k /\ \A d \in FRONTS : d # c => now'[d] = now[d]
  BY <1>1, <1>2 DEF Cmd!Shapes
<1>5. /\ ses' \in [Cmd!Buffers -> Nat] /\ \A d \in Cmd!Buffers : d # b => ses'[d] = ses[d]
      /\ now[c].pc = "answer" /\ c \in POOLED => ses'[b] = 0
      /\ now[c].pc = "refuse" => ses'[b] = ses[b]
  <2>1. ses \in [Cmd!Buffers -> Nat]
    BY DEF Cmd!Shapes
  <2> QED  BY <1>1, <1>3, <2>1
<1>6. Cmd!Shapes'
  BY <1>1, <1>4, <1>5 DEF Cmd!Shapes
<1>7. \A d \in FRONTS : (Cmd!Awaits(d)' <=> Cmd!Awaits(d)) /\ (Cmd!Awaits(d) => now'[d] = now[d])
  BY <1>1, <1>2, <1>4 DEF Cmd!Awaits
<1>8. Cmd!Handed'
  <2>1. \A j \in POOL : seen[j].used /\ seen[j].waiter # Cmd!Nobody =>
           now'[seen[j].waiter].pc \in {"wait", "drain"} /\ now'[seen[j].waiter].slot = j
    <3> SUFFICES ASSUME NEW j \in POOL, seen[j].used, seen[j].waiter # Cmd!Nobody
                 PROVE  now'[seen[j].waiter].pc \in {"wait", "drain"} /\ now'[seen[j].waiter].slot = j
      OBVIOUS
    <3>1. seen[j] \in Cmd!Slots
      BY DEF Cmd!Shapes
    <3>2. seen[j].waiter \in FRONTS /\ now[seen[j].waiter].slot = j /\ now[seen[j].waiter].pc \in {"wait", "drain"}
      BY <3>1 DEF Cmd!Slots, Cmd!Handed, Cmd!Awaits
    <3> QED  BY <3>2, <1>7 DEF Cmd!Awaits
  <2>2. \A d \in FRONTS : Cmd!Awaits(d)' =>
           LET r == seen[now'[d].slot] IN
             /\ now'[d].slot \in POOL /\ r.used /\ r.waiter = d /\ r.buf = now'[d].buf /\ r.cmd = now'[d].cmd
             /\ now'[d].pc = "drain" => r.done
    BY <1>7 DEF Cmd!Handed
  <2>3. \A d \in FRONTS : s11[d] \/ (s7.pc = "give" /\ s7.to = d) => Cmd!Awaits(d)' /\ seen[now'[d].slot].done
    BY <1>7 DEF Cmd!Handed
  <2> QED  BY <2>1, <2>2, <2>3, <1>1 DEF Cmd!Handed, Cmd!Awaits
<1>9. Cmd!Queued' /\ Cmd!Armed'
  BY <1>1 DEF Cmd!Queued, Cmd!Armed, Cmd!Mine
<1>10. Cmd!Owned'
  <2>1. \A d \in FRONTS : now'[d].pc # "idle" =>
           /\ now'[d].buf \in Cmd!BufsOf(d)
           /\ d \in POOLED /\ now'[d].pc # "refuse" => now'[d].buf \notin last
    BY <1>2, <1>4 DEF Cmd!Owned
  <2>2. \A d \in Cmd!Buffers : d[1] \in POOLED /\ d \notin last /\ ses'[d] # 0 =>
           /\ now'[d[1]].pc \in {"wait", "drain", "answer"}
           /\ now'[d[1]].buf = d /\ now'[d[1]].cmd = ses'[d]
    <3> SUFFICES ASSUME NEW d \in Cmd!Buffers, d[1] \in POOLED, d \notin last, ses'[d] # 0
                 PROVE  /\ now'[d[1]].pc \in {"wait", "drain", "answer"}
                        /\ now'[d[1]].buf = d /\ now'[d[1]].cmd = ses'[d]
      OBVIOUS
    <3>1. CASE d = b
      <4>1. now[c].pc = "refuse" /\ ses[b] # 0
        BY <3>1, <1>1, <1>3, <1>5
      <4>2. now[c].pc \in {"wait", "drain", "answer"}
        BY <4>1, <3>1, <1>3, CmdNames DEF Cmd!Owned
      <4> QED  BY <4>1, <4>2
    <3>2. CASE d # b
      <4>1. /\ now[d[1]].pc \in {"wait", "drain", "answer"} /\ ses'[d] = ses[d]
            /\ now[d[1]].buf = d /\ now[d[1]].cmd = ses[d]
        BY <3>2, <1>5, CmdNames DEF Cmd!Owned
      <4>2. d[1] # c
        BY <4>1, <3>2 DEF b
      <4> QED  BY <4>1, <4>2, <1>4, CmdBuffers
    <3> QED  BY <3>1, <3>2
  <2> QED  BY <2>1, <2>2, <1>1, CmdNames DEF Cmd!Owned
<1> QED  BY <1>6, <1>8, <1>9, <1>10 DEF Cmd!CmdInv

LEMMA CmdDrains ==
  ASSUME Cmd!Shapes, Cmd!Handed, Cmd!Queued, Cmd!Owned, Cmd!Armed, NEW c \in FRONTS,
         now[c].pc = "wait", seen[now[c].slot].done, now' = [now EXCEPT ![c].pc = "drain"],
         UNCHANGED <<ses, last, seen, s6, s7, s8, s9, s10, s11, s12>>
  PROVE  Cmd!CmdInv'
<1>1. /\ now' \in [FRONTS -> Cmd!Calls] /\ now'[c].pc = "drain"
      /\ now'[c].cmd = now[c].cmd /\ now'[c].slot = now[c].slot /\ now'[c].buf = now[c].buf
      /\ \A d \in FRONTS : d # c => now'[d] = now[d]
  BY CmdCallMoves
<1>2. Cmd!Shapes'
  BY <1>1 DEF Cmd!Shapes
<1>3. \A d \in FRONTS : /\ Cmd!Awaits(d)' <=> Cmd!Awaits(d)
                        /\ now'[d].cmd = now[d].cmd /\ now'[d].slot = now[d].slot /\ now'[d].buf = now[d].buf
                        /\ now'[d].pc = "drain" => now[d].pc = "drain" \/ seen[now[d].slot].done
                        /\ now'[d].pc # "idle" <=> now[d].pc # "idle"
                        /\ now'[d].pc = "refuse" <=> now[d].pc = "refuse"
                        /\ now'[d].pc \in {"wait", "drain", "answer"} <=> now[d].pc \in {"wait", "drain", "answer"}
  BY <1>1 DEF Cmd!Awaits
<1>4. Cmd!Handed'
  <2>1. \A j \in POOL : seen[j].used /\ seen[j].waiter # Cmd!Nobody =>
           now'[seen[j].waiter].pc \in {"wait", "drain"} /\ now'[seen[j].waiter].slot = j
    <3> SUFFICES ASSUME NEW j \in POOL, seen[j].used, seen[j].waiter # Cmd!Nobody
                 PROVE  now'[seen[j].waiter].pc \in {"wait", "drain"} /\ now'[seen[j].waiter].slot = j
      OBVIOUS
    <3>1. seen[j] \in Cmd!Slots
      BY DEF Cmd!Shapes
    <3>2. seen[j].waiter \in FRONTS /\ now[seen[j].waiter].slot = j /\ now[seen[j].waiter].pc \in {"wait", "drain"}
      BY <3>1 DEF Cmd!Slots, Cmd!Handed, Cmd!Awaits
    <3> QED  BY <3>2, <1>3 DEF Cmd!Awaits
  <2>2. \A d \in FRONTS : Cmd!Awaits(d)' =>
           LET r == seen[now'[d].slot] IN
             /\ now'[d].slot \in POOL /\ r.used /\ r.waiter = d /\ r.buf = now'[d].buf /\ r.cmd = now'[d].cmd
             /\ now'[d].pc = "drain" => r.done
    BY <1>3 DEF Cmd!Handed
  <2>3. \A d \in FRONTS : s11[d] \/ (s7.pc = "give" /\ s7.to = d) => Cmd!Awaits(d)' /\ seen[now'[d].slot].done
    BY <1>3 DEF Cmd!Handed
  <2> QED  BY <2>1, <2>2, <2>3 DEF Cmd!Handed, Cmd!Awaits
<1>5. Cmd!Queued' /\ Cmd!Armed'
  BY DEF Cmd!Queued, Cmd!Armed, Cmd!Mine
<1>6. Cmd!Owned'
  BY <1>3, CmdBuffers DEF Cmd!Owned
<1> QED  BY <1>2, <1>4, <1>5, <1>6 DEF Cmd!CmdInv

LEMMA CmdOrphans ==
  ASSUME Cmd!Shapes, Cmd!Handed, Cmd!Queued, Cmd!Owned, Cmd!Armed, NEW c \in FRONTS,
         Cmd!TimeOut(c), ~ seen[now[c].slot].done
  PROVE  Cmd!CmdInv'
<1> DEFINE i == now[c].slot
           b == now[c].buf
           p == IF c \in POOLED THEN "refuse" ELSE "answer"
           s == [seen[i] EXCEPT !.waiter = "nobody"]
<1>1. /\ now[c].pc = "wait" /\ ~ s11[c] /\ now' = [now EXCEPT ![c].pc = p]
      /\ seen' = [seen EXCEPT ![i].waiter = "nobody"]
      /\ ses' = [ses EXCEPT ![b] = 0]
      /\ last' = IF c \in POOLED THEN last \cup {b} ELSE last
      /\ UNCHANGED <<s6, s7, s8, s9, s10, s11, s12>>
  BY CmdNames DEF Cmd!TimeOut
<1>2. /\ i \in POOL /\ seen[i].used /\ ~ seen[i].done /\ seen[i].waiter = c /\ seen[i].buf = b
      /\ Cmd!Awaits(c)
  BY <1>1 DEF Cmd!Handed, Cmd!Awaits
<1>3. b \in Cmd!Buffers /\ b[1] = c /\ b \in Cmd!BufsOf(c)
  BY <1>1, CmdBuffers DEF Cmd!Owned
<1>4. p \in {"refuse", "answer"} /\ (c \in POOLED <=> p = "refuse")
  OBVIOUS
<1>5. i = now[c].slot /\ b = now[c].buf
  OBVIOUS
<1> HIDE DEF i, b, p
<1>6. /\ now' \in [FRONTS -> Cmd!Calls] /\ now'[c].pc = p
      /\ now'[c].cmd = now[c].cmd /\ now'[c].slot = now[c].slot /\ now'[c].buf = now[c].buf
      /\ \A d \in FRONTS : d # c => now'[d] = now[d]
  BY <1>1, <1>4, CmdCallMoves
<1>7. s \in Cmd!Slots /\ s.used /\ ~ s.done /\ s.buf = b /\ s.cmd = seen[i].cmd /\ s.waiter = "nobody"
  <2>1. seen[i] \in Cmd!Slots
    BY <1>2 DEF Cmd!Shapes
  <2> QED  BY <2>1, <1>2, CmdNames DEF Cmd!Slots
<1>8. seen' \in [POOL -> Cmd!Slots] /\ seen'[i] = s /\ \A j \in POOL : j # i => seen'[j] = seen[j]
  BY <1>1, <1>2, <1>7 DEF Cmd!Shapes
<1>9. ses' \in [Cmd!Buffers -> Nat] /\ ses'[b] = 0 /\ \A d \in Cmd!Buffers : d # b => ses'[d] = ses[d]
  <2>1. ses \in [Cmd!Buffers -> Nat]
    BY DEF Cmd!Shapes
  <2> QED  BY <1>1, <1>3, <2>1
<1> HIDE DEF s
<1>10. Cmd!Shapes'
  BY <1>1, <1>6, <1>8, <1>9 DEF Cmd!Shapes
<1>11. ~ (s7.pc = "give" /\ s7.to = c)
  BY <1>2, <1>5, CmdNames DEF Cmd!Handed
<1>12. Cmd!Handed'
  <2>1. \A d \in FRONTS : Cmd!Awaits(d)' => d # c /\ Cmd!Awaits(d) /\ now[d].slot # i /\ now'[d] = now[d]
    BY <1>2, <1>4, <1>6 DEF Cmd!Awaits, Cmd!Handed
  <2>2. \A d \in FRONTS : d # c => (Cmd!Awaits(d)' <=> Cmd!Awaits(d))
    BY <1>6 DEF Cmd!Awaits
  <2>4. \A d \in FRONTS : Cmd!Awaits(d)' =>
           LET r == seen'[now'[d].slot] IN
             /\ now'[d].slot \in POOL /\ r.used /\ r.waiter = d /\ r.buf = now'[d].buf /\ r.cmd = now'[d].cmd
             /\ now'[d].pc = "drain" => r.done
    BY <2>1, <1>8 DEF Cmd!Handed
  <2>5. \A j \in POOL : seen'[j].used /\ seen'[j].waiter # Cmd!Nobody =>
           now'[seen'[j].waiter].pc \in {"wait", "drain"} /\ now'[seen'[j].waiter].slot = j
    <3> SUFFICES ASSUME NEW j \in POOL, seen'[j].used, seen'[j].waiter # Cmd!Nobody
                 PROVE  now'[seen'[j].waiter].pc \in {"wait", "drain"} /\ now'[seen'[j].waiter].slot = j
      OBVIOUS
    <3>1. j # i /\ seen'[j] = seen[j] /\ seen[j] \in Cmd!Slots
      BY <1>7, <1>8, CmdNames DEF Cmd!Shapes
    <3>2. seen[j].waiter \in FRONTS /\ now[seen[j].waiter].slot = j /\ Cmd!Awaits(seen[j].waiter)
      BY <3>1 DEF Cmd!Slots, Cmd!Handed
    <3>3. seen[j].waiter # c
      BY <3>1, <3>2, <1>5
    <3> QED  BY <3>1, <3>2, <3>3, <1>6 DEF Cmd!Awaits
  <2>6. \A d \in FRONTS : s11[d] \/ (s7.pc = "give" /\ s7.to = d) => Cmd!Awaits(d)' /\ seen'[now'[d].slot].done
    <3> SUFFICES ASSUME NEW d \in FRONTS, s11[d] \/ (s7.pc = "give" /\ s7.to = d)
                 PROVE  Cmd!Awaits(d)' /\ seen'[now'[d].slot].done
      OBVIOUS
    <3>1. d # c /\ Cmd!Awaits(d) /\ seen[now[d].slot].done
      BY <1>1, <1>11 DEF Cmd!Handed
    <3> QED  BY <3>1, <2>1, <2>2, <1>6, <1>8 DEF Cmd!Handed
  <2> QED  BY <2>4, <2>5, <2>6, <1>1 DEF Cmd!Handed, Cmd!Awaits
<1>13. \A j \in POOL : seen'[j].used = seen[j].used /\ seen'[j].done = seen[j].done /\ seen'[j].cmd = seen[j].cmd
                       /\ seen'[j].buf = seen[j].buf
  <2>1. \A j \in POOL : seen[j] \in Cmd!Slots
    BY DEF Cmd!Shapes
  <2> QED  BY <2>1, <1>2, <1>7, <1>8 DEF Cmd!Slots
<1>14. Cmd!Queued'
  <2>1. \A k \in DOMAIN s6 : s6[k] \in POOL
    BY DEF Cmd!Shapes
  <2> QED  BY <2>1, <1>1, <1>13 DEF Cmd!Queued, Cmd!Mine
<1>15. Cmd!Owned'
  <2>1. \A d \in FRONTS : now'[d].pc # "idle" =>
           /\ now'[d].buf \in Cmd!BufsOf(d)
           /\ d \in POOLED /\ now'[d].pc # "refuse" => now'[d].buf \notin last'
    <3> SUFFICES ASSUME NEW d \in FRONTS, now'[d].pc # "idle"
                 PROVE  /\ now'[d].buf \in Cmd!BufsOf(d)
                        /\ d \in POOLED /\ now'[d].pc # "refuse" => now'[d].buf \notin last'
      OBVIOUS
    <3>1. CASE d = c
      BY <3>1, <1>3, <1>4, <1>5, <1>6
    <3>2. CASE d # c
      <4>1. now[d].pc # "idle" /\ now'[d] = now[d] /\ now[d].buf \in Cmd!BufsOf(d)
        BY <3>2, <1>6 DEF Cmd!Owned
      <4>2. now[d].buf # b
        BY <4>1, <3>2, <1>3, CmdBuffers
      <4>3. d \in POOLED /\ now[d].pc # "refuse" => now[d].buf \notin last
        BY <4>1 DEF Cmd!Owned
      <4> QED  BY <4>1, <4>2, <4>3, <1>1
    <3> QED  BY <3>1, <3>2
  <2>2. \A j \in POOL : seen'[j].used =>
           /\ seen'[j].buf \in Cmd!Buffers
           /\ seen'[j].waiter = Cmd!Nobody /\ seen'[j].buf[1] \in POOLED => seen'[j].buf \in last'
    BY <1>1, <1>2, <1>3, <1>7, <1>8, <1>13, CmdNames DEF Cmd!Owned
  <2>3. \A d \in Cmd!Buffers : d[1] \in POOLED /\ d \notin last' /\ ses'[d] # 0 =>
           /\ now'[d[1]].pc \in {"wait", "drain", "answer"}
           /\ now'[d[1]].buf = d /\ now'[d[1]].cmd = ses'[d]
    <3> SUFFICES ASSUME NEW d \in Cmd!Buffers, d[1] \in POOLED, d \notin last', ses'[d] # 0
                 PROVE  /\ now'[d[1]].pc \in {"wait", "drain", "answer"}
                        /\ now'[d[1]].buf = d /\ now'[d[1]].cmd = ses'[d]
      OBVIOUS
    <3>1. d # b /\ d \notin last /\ ses'[d] = ses[d]
      BY <1>1, <1>9
    <3>2. /\ now[d[1]].pc \in {"wait", "drain", "answer"}
          /\ now[d[1]].buf = d /\ now[d[1]].cmd = ses[d]
      BY <3>1, CmdNames DEF Cmd!Owned
    <3>3. d[1] # c
      BY <3>1, <3>2, <1>5
    <3> QED  BY <3>1, <3>2, <3>3, <1>6, CmdBuffers
  <2> QED  BY <2>1, <2>2, <2>3, CmdNames DEF Cmd!Owned
<1>16. Cmd!Armed'
  <2>1. s7.pc \in {"fwd", "fwd_drain"} => s7.slot \in POOL
    BY DEF Cmd!Queued
  <2> QED  BY <2>1, <1>1, <1>13 DEF Cmd!Armed, Cmd!Mine
<1> QED  BY <1>10, <1>12, <1>14, <1>15, <1>16 DEF Cmd!CmdInv

LEMMA CmdTimesOut ==
  ASSUME Cmd!Shapes, Cmd!Handed, Cmd!Queued, Cmd!Owned, Cmd!Armed, NEW c \in FRONTS, Cmd!TimeOut(c)
  PROVE  Cmd!CmdInv'
<1>1. CASE seen[now[c].slot].done
  <2>1. /\ now[c].pc = "wait" /\ now' = [now EXCEPT ![c].pc = "drain"]
        /\ UNCHANGED <<ses, last, seen, s6, s7, s8, s9, s10, s11, s12>>
    BY <1>1 DEF Cmd!TimeOut
  <2> QED  BY <2>1, <1>1, CmdDrains
<1>2. CASE ~ seen[now[c].slot].done
  BY <1>2, CmdOrphans
<1> QED  BY <1>1, <1>2

LEMMA CmdSame ==
  ASSUME Cmd!Handed, Cmd!Queued, Cmd!Owned, UNCHANGED <<now, ses, last, seen, s6>>,
         s7'.slot = s7.slot, s7'.to = s7.to, s7'.pc = "idle" <=> s7.pc = "idle", s7'.pc = "give" <=> s7.pc = "give",
         \A c \in FRONTS : s11'[c] = s11[c]
  PROVE  Cmd!Handed' /\ Cmd!Queued' /\ Cmd!Owned'
<1>1. Cmd!Handed'
  BY DEF Cmd!Handed, Cmd!Awaits
<1>2. Cmd!Queued'
  BY DEF Cmd!Queued, Cmd!Mine
<1>3. Cmd!Owned'
  BY DEF Cmd!Owned
<1> QED  BY <1>1, <1>2, <1>3

LEMMA CmdJobMoves ==
  ASSUME Cmd!Shapes,
         NEW p \in {"idle", "local", "stuck", "submit", "arm", "fwd", "fwd_drain", "finish", "give"},
         \/ s7' = [s7 EXCEPT !.pc = p]
         \/ s7' = [s7 EXCEPT !.pc = p, !.age = 0]
  PROVE  s7' \in Cmd!Jobs /\ s7'.pc = p /\ s7'.slot = s7.slot /\ s7'.to = s7.to
<1>1. s7 \in Cmd!Jobs /\ 0 \in Nat
  BY DEF Cmd!Shapes
<1>2. CASE s7' = [s7 EXCEPT !.pc = p]
  BY <1>1, <1>2 DEF Cmd!Jobs
<1>3. CASE s7' = [s7 EXCEPT !.pc = p, !.age = 0]
  BY <1>1, <1>3 DEF Cmd!Jobs
<1> QED  BY <1>2, <1>3

LEMMA CmdReplies ==
  ASSUME Cmd!Shapes, Cmd!Handed, Cmd!Queued, Cmd!Owned, NEW content,
         s7.pc \notin {"idle", "give"}, content = Cmd!Mine.cmd, Cmd!Replied(content),
         UNCHANGED <<now, last, seen, s6, s9, s12>>,
         s8' \in Cmd!Fwds, ~ s8'.active, s11' \in [Cmd!Tasks -> BOOLEAN], ~ s11'["cmd_task"], s10' = "nobody",
         \A c \in FRONTS : s11'[c] = s11[c]
  PROVE  Cmd!CmdInv'
<1> DEFINE i == s7.slot
           b == seen[i].buf
<1>1. i \in POOL /\ seen[i].used /\ ~ seen[i].done
  BY DEF Cmd!Queued, Cmd!Mine
<1>2. seen[i] \in Cmd!Slots /\ b \in Cmd!Buffers
  BY <1>1 DEF Cmd!Shapes, Cmd!Owned
<1>3. content = seen[i].cmd /\ content \in Nat /\ ses' = [ses EXCEPT ![b] = content] /\ s7' = [s7 EXCEPT !.pc = "finish", !.age = 0]
  BY <1>2 DEF Cmd!Replied, Cmd!Mine, Cmd!Slots
<1>4. i = s7.slot /\ b = seen[i].buf
  OBVIOUS
<1> HIDE DEF i, b
<1>5. ses' \in [Cmd!Buffers -> Nat] /\ ses'[b] = content /\ \A d \in Cmd!Buffers : d # b => ses'[d] = ses[d]
  <2>1. ses \in [Cmd!Buffers -> Nat]
    BY DEF Cmd!Shapes
  <2> QED  BY <1>2, <1>3, <2>1
<1>6. s7' \in Cmd!Jobs /\ s7'.pc = "finish" /\ s7'.slot = s7.slot /\ s7'.to = s7.to
  <2>1. "finish" \in {"idle", "local", "stuck", "submit", "arm", "fwd", "fwd_drain", "finish", "give"}
    OBVIOUS
  <2> QED  BY <2>1, <1>3, CmdJobMoves
<1>7. Cmd!Shapes'
  BY <1>5, <1>6, CmdNames DEF Cmd!Shapes
<1>8. Cmd!Handed'
  BY <1>6 DEF Cmd!Handed, Cmd!Awaits
<1>9. Cmd!Queued'
  BY <1>6 DEF Cmd!Queued, Cmd!Mine
<1>10. Cmd!Owned'
  <2>1. \A d \in Cmd!Buffers : d[1] \in POOLED /\ d \notin last /\ ses'[d] # 0 =>
           /\ now[d[1]].pc \in {"wait", "drain", "answer"}
           /\ now[d[1]].buf = d /\ now[d[1]].cmd = ses'[d]
    <3> SUFFICES ASSUME NEW d \in Cmd!Buffers, d[1] \in POOLED, d \notin last, ses'[d] # 0
                 PROVE  /\ now[d[1]].pc \in {"wait", "drain", "answer"}
                        /\ now[d[1]].buf = d /\ now[d[1]].cmd = ses'[d]
      OBVIOUS
    <3>1. CASE d = b
      <4>1. seen[i].waiter # "nobody"
        BY <3>1, <1>1, <1>4, CmdNames DEF Cmd!Owned
      <4>2. /\ seen[i].waiter \in FRONTS /\ Cmd!Awaits(seen[i].waiter)
            /\ now[seen[i].waiter].slot = i
        BY <4>1, <1>1, <1>2, CmdNames DEF Cmd!Handed, Cmd!Slots
      <4>3. now[seen[i].waiter].buf = b /\ now[seen[i].waiter].cmd = content
        BY <4>2, <1>3, <1>4 DEF Cmd!Handed
      <4>4. now[seen[i].waiter].buf \in Cmd!BufsOf(seen[i].waiter)
        BY <4>2 DEF Cmd!Owned, Cmd!Awaits
      <4>5. d[1] = seen[i].waiter
        BY <3>1, <4>2, <4>3, <4>4, CmdBuffers
      <4> QED  BY <3>1, <4>2, <4>3, <4>5, <1>5 DEF Cmd!Awaits
    <3>2. CASE d # b
      BY <3>2, <1>5, CmdNames DEF Cmd!Owned
    <3> QED  BY <3>1, <3>2
  <2> QED  BY <2>1, CmdNames DEF Cmd!Owned
<1>11. Cmd!Armed'
  BY <1>6, CmdNames DEF Cmd!Armed
<1> QED  BY <1>7, <1>8, <1>9, <1>10, <1>11 DEF Cmd!CmdInv

LEMMA CmdLocal ==
  ASSUME Cmd!Shapes, Cmd!Handed, Cmd!Queued, Cmd!Owned, Cmd!Armed, Cmd!Local
  PROVE  Cmd!CmdInv'
<1>1. /\ s7.pc \in {"local", "submit", "stuck"} /\ Cmd!Replied(Cmd!Mine.cmd)
      /\ UNCHANGED <<now, last, seen, s6, s9, s12>> /\ UNCHANGED <<s8, s10, s11>>
  BY DEF Cmd!Local
<1>2. /\ s8' \in Cmd!Fwds /\ ~ s8'.active /\ s11' \in [Cmd!Tasks -> BOOLEAN] /\ ~ s11'["cmd_task"] /\ s10' = "nobody"
      /\ \A c \in FRONTS : s11'[c] = s11[c]
  BY <1>1, CmdNames DEF Cmd!Armed, Cmd!Shapes
<1> QED  BY <1>1, <1>2, CmdReplies

LEMMA CmdFwdCollects ==
  ASSUME Cmd!Shapes, Cmd!Handed, Cmd!Queued, Cmd!Owned, Cmd!Armed, Cmd!FwdCollect
  PROVE  Cmd!CmdInv'
<1>1. /\ s7.pc \in {"fwd", "fwd_drain"} /\ s11["cmd_task"] /\ s11' = [s11 EXCEPT !["cmd_task"] = FALSE]
      /\ Cmd!Replied(Cmd!ForwardReplies)
      /\ UNCHANGED <<now, last, seen, s6, s9, s12>> /\ UNCHANGED <<s8, s10>>
  BY CmdNames DEF Cmd!FwdCollect
<1>2. /\ s8' \in Cmd!Fwds /\ ~ s8'.active /\ s10' = "nobody" /\ Cmd!ForwardReplies = Cmd!Mine.cmd
  BY <1>1, CmdNames DEF Cmd!Armed, Cmd!Shapes, Cmd!ForwardReplies
<1>3. /\ s11' \in [Cmd!Tasks -> BOOLEAN] /\ ~ s11'["cmd_task"]
      /\ \A c \in FRONTS : s11'[c] = s11[c]
  BY <1>1, CmdNames DEF Cmd!Shapes
<1> QED  BY <1>1, <1>2, <1>3, CmdReplies

LEMMA CmdFwdTimesOut ==
  ASSUME Cmd!Shapes, Cmd!Handed, Cmd!Queued, Cmd!Owned, Cmd!Armed, Cmd!FwdTimeOut
  PROVE  Cmd!CmdInv'
<1>1. /\ s7.pc = "fwd" /\ ~ s11["cmd_task"] /\ UNCHANGED <<now, last, seen, s6, s9, s12>> /\ UNCHANGED <<s10, s11>>
  BY CmdNames DEF Cmd!FwdTimeOut
<1>2. s8 \in Cmd!Fwds
  BY DEF Cmd!Shapes
<1>3. CASE s8.done
  <2>1. s7' = [s7 EXCEPT !.pc = "fwd_drain"] /\ UNCHANGED <<s8, ses>>
    BY <1>3 DEF Cmd!FwdTimeOut
  <2>2. s7' \in Cmd!Jobs /\ s7'.pc = "fwd_drain" /\ s7'.slot = s7.slot /\ s7'.to = s7.to
    <3>1. "fwd_drain" \in {"idle", "local", "stuck", "submit", "arm", "fwd", "fwd_drain", "finish", "give"}
      OBVIOUS
    <3> QED  BY <2>1, <3>1, CmdJobMoves
  <2>3. Cmd!Handed' /\ Cmd!Queued' /\ Cmd!Owned'
    BY <1>1, <2>1, <2>2, CmdSame
  <2>4. Cmd!Shapes' /\ Cmd!Armed'
    BY <1>1, <1>3, <2>1, <2>2 DEF Cmd!Shapes, Cmd!Armed, Cmd!Mine
  <2> QED  BY <2>3, <2>4 DEF Cmd!CmdInv
<1>4. CASE ~ s8.done
  <2>1. s8' = [s8 EXCEPT !.waiter = "nobody", !.active = FALSE] /\ Cmd!Replied(Cmd!Mine.cmd)
    BY <1>4, CmdNames DEF Cmd!FwdTimeOut
  <2>2. "nobody" \in {Cmd!Worker, Cmd!Nobody} /\ FALSE \in BOOLEAN
    BY CmdNames
  <2>3. s8' \in Cmd!Fwds /\ ~ s8'.active
    BY <1>2, <2>1, <2>2 DEF Cmd!Fwds
  <2>4. s11' \in [Cmd!Tasks -> BOOLEAN] /\ ~ s11'["cmd_task"] /\ s10' = "nobody" /\ \A c \in FRONTS : s11'[c] = s11[c]
    BY <1>1, <1>4, CmdNames DEF Cmd!Armed, Cmd!Shapes
  <2> QED  BY <1>1, <2>1, <2>3, <2>4, CmdReplies
<1> QED  BY <1>3, <1>4

LEMMA CmdMoves ==
  ASSUME Cmd!Shapes, Cmd!Handed, Cmd!Queued, Cmd!Owned, Cmd!Armed, Cmd!Slow \/ Cmd!Submit
  PROVE  Cmd!CmdInv'
<1>1. \E p \in {"stuck", "arm"} :
        s7' = [s7 EXCEPT !.pc = p] /\ s7.pc \in {"local", "submit"}
  BY DEF Cmd!Slow, Cmd!Submit
<1>2. s9' \subseteq Nat /\ UNCHANGED <<now, ses, last, seen, s6, s8, s10, s11, s12>>
  <2>1. s7.pc = "submit" => seen[s7.slot] \in Cmd!Slots
    BY DEF Cmd!Queued, Cmd!Shapes
  <2>2. s7.pc = "submit" => seen[s7.slot].cmd \in Nat
    BY <2>1 DEF Cmd!Slots
  <2> QED  BY <2>2 DEF Cmd!Slow, Cmd!Submit, Cmd!Mine, Cmd!Shapes
<1>3. PICK p \in {"stuck", "arm"} : s7' = [s7 EXCEPT !.pc = p]
  BY <1>1
<1>4. p \in {"idle", "local", "stuck", "submit", "arm", "fwd", "fwd_drain", "finish", "give"}
  OBVIOUS
<1>5. s7' \in Cmd!Jobs /\ s7'.pc = p /\ s7'.slot = s7.slot /\ s7'.to = s7.to
  BY <1>3, <1>4, CmdJobMoves
<1>6. Cmd!Handed' /\ Cmd!Queued' /\ Cmd!Owned'
  BY <1>1, <1>2, <1>5, CmdSame
<1>7. Cmd!Shapes' /\ Cmd!Armed'
  BY <1>1, <1>2, <1>5 DEF Cmd!Shapes, Cmd!Armed, Cmd!Mine
<1> QED  BY <1>6, <1>7 DEF Cmd!CmdInv

LEMMA CmdArms ==
  ASSUME Cmd!Shapes, Cmd!Handed, Cmd!Queued, Cmd!Owned, Cmd!Armed, Cmd!Arm
  PROVE  Cmd!CmdInv'
<1> DEFINE n == Cmd!Mine.cmd
<1>1. /\ s7.pc = "arm" /\ s7' = [s7 EXCEPT !.pc = "fwd", !.age = 0]
      /\ s8' = [s8 EXCEPT !.active = TRUE, !.done = FALSE, !.seq = n, !.waiter = "cmd_task", !.failed = FALSE]
      /\ UNCHANGED <<now, ses, last, seen, s6, s9, s10, s11, s12>>
  BY CmdNames DEF Cmd!Arm
<1>2. n \in Nat /\ n = seen[s7.slot].cmd /\ seen[s7.slot] \in Cmd!Slots
  BY <1>1 DEF Cmd!Queued, Cmd!Shapes, Cmd!Slots, Cmd!Mine
<1> HIDE DEF n
<1>3. /\ s8' \in Cmd!Fwds /\ s8'.active /\ ~ s8'.done /\ s8'.seq = n /\ s8'.waiter = "cmd_task"
  <2>1. s8 \in Cmd!Fwds /\ "cmd_task" \in {Cmd!Worker, Cmd!Nobody} /\ FALSE \in BOOLEAN /\ TRUE \in BOOLEAN
    BY CmdNames DEF Cmd!Shapes
  <2> QED  BY <1>1, <1>2, <2>1 DEF Cmd!Fwds
<1>4. s7' \in Cmd!Jobs /\ s7'.pc = "fwd" /\ s7'.slot = s7.slot /\ s7'.to = s7.to
  <2>1. "fwd" \in {"idle", "local", "stuck", "submit", "arm", "fwd", "fwd_drain", "finish", "give"}
    OBVIOUS
  <2> QED  BY <2>1, <1>1, CmdJobMoves
<1>5. Cmd!Handed' /\ Cmd!Queued' /\ Cmd!Owned'
  BY <1>1, <1>4, CmdSame
<1>6. Cmd!Shapes'
  BY <1>1, <1>3, <1>4 DEF Cmd!Shapes
<1>7. Cmd!Armed'
  BY <1>1, <1>2, <1>3, <1>4, CmdNames DEF Cmd!Armed, Cmd!Mine
<1> QED  BY <1>5, <1>6, <1>7 DEF Cmd!CmdInv

LEMMA CmdReceives ==
  ASSUME Cmd!Shapes, Cmd!Handed, Cmd!Queued, Cmd!Owned, Cmd!Armed, Cmd!Receive
  PROVE  Cmd!CmdInv'
<1> DEFINE i == Head(s6)
           p == IF seen[i].zone THEN "submit" ELSE "local"
           b == seen[i].buf
<1>1. /\ s7.pc = "idle" /\ s6 # <<>> /\ s7' = [pc |-> p, slot |-> i, age |-> 0, to |-> "nobody"]
      /\ s6' = Tail(s6) /\ ses' = [ses EXCEPT ![b] = 0]
      /\ UNCHANGED <<now, last, seen, s8, s9, s10, s11, s12>>
  BY CmdNames DEF Cmd!Receive
<1>2. s6 \in Seq(POOL)
  BY DEF Cmd!Shapes
<1>3. /\ Len(s6) \in Nat /\ Len(s6) > 0 /\ DOMAIN s6 = 1 .. Len(s6) /\ 1 \in DOMAIN s6 /\ s6[1] = i /\ i \in POOL
      /\ s6' \in Seq(POOL) /\ DOMAIN s6' = 1 .. Len(s6) - 1
      /\ \A k \in DOMAIN s6' : s6'[k] = s6[k + 1] /\ k + 1 \in DOMAIN s6 /\ k \in Nat
  BY <1>1, <1>2
<1>4. seen[i].used /\ ~ seen[i].done
  BY <1>3 DEF Cmd!Queued
<1>5. b \in Cmd!Buffers /\ b = seen[i].buf
  BY <1>3, <1>4 DEF Cmd!Owned
<1>6. p \in {"submit", "local"}
  OBVIOUS
<1> HIDE DEF i, p, b
<1>7. s7' \in Cmd!Jobs /\ s7'.pc = p /\ s7'.slot = i /\ s7'.to = "nobody"
  <2>1. i \in POOL \cup {0} /\ 0 \in Nat /\ "nobody" \in FRONTS \cup {Cmd!Nobody}
    BY <1>3, CmdNames
  <2> QED  BY <1>1, <1>6, <2>1 DEF Cmd!Jobs
<1>8. ses' \in [Cmd!Buffers -> Nat] /\ ses'[b] = 0 /\ \A d \in Cmd!Buffers : d # b => ses'[d] = ses[d]
  <2>1. ses \in [Cmd!Buffers -> Nat]
    BY DEF Cmd!Shapes
  <2> QED  BY <1>1, <1>5, <2>1
<1>9. Cmd!Shapes'
  BY <1>1, <1>3, <1>7, <1>8 DEF Cmd!Shapes
<1>10. Cmd!Handed'
  BY <1>1, <1>6, <1>7 DEF Cmd!Handed, Cmd!Awaits
<1>11. Cmd!Queued'
  <2>1. \A k \in DOMAIN s6' : seen[s6'[k]].used /\ ~ seen[s6'[k]].done /\ s6'[k] # i
    <3> SUFFICES ASSUME NEW k \in DOMAIN s6' PROVE seen[s6'[k]].used /\ ~ seen[s6'[k]].done /\ s6'[k] # i
      OBVIOUS
    <3>1. s6'[k] = s6[k + 1] /\ k + 1 \in DOMAIN s6 /\ k + 1 # 1
      BY <1>3
    <3>2. s6[k + 1] # s6[1]
      BY <3>1, <1>3 DEF Cmd!Queued
    <3> QED  BY <3>1, <3>2, <1>3 DEF Cmd!Queued
  <2>2. \A j, k \in DOMAIN s6' : s6'[j] = s6'[k] => j = k
    <3> SUFFICES ASSUME NEW j \in DOMAIN s6', NEW k \in DOMAIN s6', s6'[j] = s6'[k] PROVE j = k
      OBVIOUS
    <3>1. s6[j + 1] = s6[k + 1] /\ j + 1 \in DOMAIN s6 /\ k + 1 \in DOMAIN s6 /\ j \in Nat /\ k \in Nat
      BY <1>3
    <3>2. j + 1 = k + 1
      BY <3>1 DEF Cmd!Queued
    <3> QED  BY <3>1, <3>2
  <2> QED  BY <2>1, <2>2, <1>1, <1>3, <1>4, <1>6, <1>7 DEF Cmd!Queued, Cmd!Mine
<1>12. Cmd!Owned'
  <2>1. \A d \in Cmd!Buffers : ses'[d] # 0 => ses'[d] = ses[d]
    BY <1>8
  <2> QED  BY <2>1, <1>1, CmdNames DEF Cmd!Owned
<1>13. Cmd!Armed'
  BY <1>1, <1>6, <1>7 DEF Cmd!Armed
<1> QED  BY <1>9, <1>10, <1>11, <1>12, <1>13 DEF Cmd!CmdInv

LEMMA CmdOutcomes ==
  ASSUME Cmd!Shapes, Cmd!Handed, Cmd!Queued, Cmd!Owned, Cmd!Armed, NEW n \in s9, NEW failed \in BOOLEAN,
         Cmd!Outcome(n, failed)
  PROVE  Cmd!CmdInv'
<1>1. /\ s9' \subseteq Nat /\ n \in Nat /\ s10 = "nobody" /\ s8 \in Cmd!Fwds
      /\ UNCHANGED <<now, ses, last, seen, s6, s7, s11, s12>>
  BY CmdNames DEF Cmd!Outcome, Cmd!Shapes
<1>2. Cmd!Handed' /\ Cmd!Queued' /\ Cmd!Owned'
  BY <1>1, CmdSame
<1>3. CASE s8.active /\ s8.seq = n
  <2> DEFINE v == IF failed THEN s8.detail ELSE n
  <2>1. /\ s8' = [s8 EXCEPT !.active = FALSE, !.done = TRUE, !.failed = failed, !.detail = v]
        /\ s10' = s8.waiter
    BY <1>3 DEF Cmd!Outcome
  <2>2. v \in Nat /\ (~ failed => v = n) /\ TRUE \in BOOLEAN /\ FALSE \in BOOLEAN
    BY <1>1 DEF Cmd!Fwds
  <2> HIDE DEF v
  <2>3. s8' \in Cmd!Fwds /\ ~ s8'.active /\ s8'.done /\ s8'.failed = failed /\ s8'.detail = v /\ s8'.seq = s8.seq
    BY <1>1, <2>1, <2>2 DEF Cmd!Fwds
  <2>4. s7.pc = "fwd" /\ ~ s11["cmd_task"] /\ s8.waiter = "cmd_task" /\ s8.seq = Cmd!Mine.cmd
    BY <1>3, CmdNames DEF Cmd!Armed
  <2>5. Cmd!Shapes'
    BY <1>1, <2>1, <2>3, <2>4, CmdNames DEF Cmd!Shapes
  <2>6. Cmd!Armed'
    <3>1. s10' = "cmd_task" /\ s10' # Cmd!Nobody /\ s11'["cmd_task"] = s11["cmd_task"]
      BY <1>1, <2>1, <2>4, CmdNames
    <3>2. s8'.failed \/ s8'.detail = Cmd!Mine.cmd
      BY <1>3, <2>2, <2>3, <2>4
    <3> QED  BY <1>1, <2>3, <2>4, <3>1, <3>2, CmdNames DEF Cmd!Armed, Cmd!Mine
  <2> QED  BY <1>2, <2>5, <2>6 DEF Cmd!CmdInv
<1>4. CASE ~ (s8.active /\ s8.seq = n)
  <2>1. UNCHANGED <<s8, s10>>
    BY <1>4 DEF Cmd!Outcome
  <2>2. Cmd!Shapes' /\ Cmd!Armed'
    BY <1>1, <2>1 DEF Cmd!Shapes, Cmd!Armed, Cmd!Mine
  <2> QED  BY <1>2, <2>2 DEF Cmd!CmdInv
<1> QED  BY <1>3, <1>4

LEMMA CmdGivesForward ==
  ASSUME Cmd!Shapes, Cmd!Handed, Cmd!Queued, Cmd!Owned, Cmd!Armed, Cmd!GiveForward
  PROVE  Cmd!CmdInv'
<1>1. /\ s10 = "cmd_task" /\ s11' = [s11 EXCEPT !["cmd_task"] = TRUE] /\ s10' = "nobody"
      /\ UNCHANGED <<now, ses, last, seen, s6, s7, s8, s9, s12>>
  BY CmdNames DEF Cmd!GiveForward, Cmd!Shapes
<1>2. s11' \in [Cmd!Tasks -> BOOLEAN] /\ s11'["cmd_task"] /\ \A c \in FRONTS : s11'[c] = s11[c]
  BY <1>1, CmdNames DEF Cmd!Shapes
<1>3. Cmd!Handed' /\ Cmd!Queued' /\ Cmd!Owned'
  BY <1>1, <1>2, CmdSame
<1>4. Cmd!Shapes' /\ Cmd!Armed'
  BY <1>1, <1>2, CmdNames DEF Cmd!Shapes, Cmd!Armed, Cmd!Mine
<1> QED  BY <1>3, <1>4 DEF Cmd!CmdInv

LEMMA CmdGives ==
  ASSUME Cmd!Shapes, Cmd!Handed, Cmd!Queued, Cmd!Owned, Cmd!Armed, Cmd!Give
  PROVE  Cmd!CmdInv'
<1> DEFINE t == s7.to
<1>1. /\ s7.pc = "give" /\ s11' = [s11 EXCEPT ![t] = TRUE] /\ s7' = Cmd!Resting
      /\ UNCHANGED <<now, ses, last, seen, s6, s8, s9, s10, s12>>
  BY DEF Cmd!Give
<1>2. t \in FRONTS /\ ~ s11[t] /\ Cmd!Awaits(t) /\ seen[now[t].slot].done /\ s7.slot = 0
  BY <1>1 DEF Cmd!Handed, Cmd!Queued
<1> HIDE DEF t
<1>3. s7' \in Cmd!Jobs /\ s7'.pc = "idle" /\ s7'.slot = 0
  BY <1>1, CmdNames DEF Cmd!Resting, Cmd!Jobs
<1>4. s11' \in [Cmd!Tasks -> BOOLEAN] /\ s11'[t] /\ \A c \in Cmd!Tasks : c # t => s11'[c] = s11[c]
  BY <1>1, <1>2, CmdNames DEF Cmd!Shapes
<1>5. s11'["cmd_task"] = s11["cmd_task"]
  BY <1>2, <1>4, CmdNames
<1>6. Cmd!Shapes'
  BY <1>1, <1>3, <1>4 DEF Cmd!Shapes
<1>7. Cmd!Handed'
  <2>1. \A d \in FRONTS : s11'[d] => Cmd!Awaits(d) /\ seen[now[d].slot].done
    BY <1>2, <1>4, CmdNames DEF Cmd!Handed
  <2> QED  BY <2>1, <1>1, <1>3 DEF Cmd!Handed, Cmd!Awaits
<1>8. Cmd!Queued'
  BY <1>1, <1>2, <1>3 DEF Cmd!Queued
<1>9. Cmd!Owned'
  BY <1>1 DEF Cmd!Owned
<1>10. Cmd!Armed'
  BY <1>1, <1>3, <1>5, CmdNames DEF Cmd!Armed
<1> QED  BY <1>6, <1>7, <1>8, <1>9, <1>10 DEF Cmd!CmdInv

LEMMA CmdFinishes ==
  ASSUME Cmd!Shapes, Cmd!Handed, Cmd!Queued, Cmd!Owned, Cmd!Armed, Cmd!Finish
  PROVE  Cmd!CmdInv'
<1> DEFINE i == s7.slot
           w == seen[i].waiter
           u == w # "nobody"
           s == [seen[i] EXCEPT !.done = TRUE, !.used = u]
<1>1. /\ s7.pc = "finish" /\ seen' = [seen EXCEPT ![i].done = TRUE, ![i].used = u]
      /\ s7' = IF w = "nobody" THEN Cmd!Resting ELSE [Cmd!Resting EXCEPT !.pc = "give", !.to = w]
      /\ UNCHANGED <<now, ses, last, s6, s8, s9, s10, s11, s12>>
  BY CmdNames DEF Cmd!Finish, Cmd!Mine
<1>2. i \in POOL /\ seen[i].used /\ ~ seen[i].done /\ seen[i] \in Cmd!Slots /\ w \in FRONTS \cup {"nobody"}
  <2>1. i \in POOL /\ seen[i].used /\ ~ seen[i].done
    BY <1>1 DEF Cmd!Queued, Cmd!Mine
  <2>2. seen[i] \in Cmd!Slots
    BY <2>1 DEF Cmd!Shapes
  <2> QED  BY <2>1, <2>2, CmdNames DEF Cmd!Slots
<1>3. u \in BOOLEAN /\ TRUE \in BOOLEAN /\ (u <=> w # "nobody") /\ w = seen[i].waiter /\ i = s7.slot
  OBVIOUS
<1> HIDE DEF i, w, u
<1>4. /\ s \in Cmd!Slots /\ s.used = u /\ s.done /\ s.waiter = w
      /\ s.cmd = seen[i].cmd /\ s.buf = seen[i].buf
  BY <1>2, <1>3 DEF Cmd!Slots
<1>5. seen' \in [POOL -> Cmd!Slots] /\ seen'[i] = s /\ \A j \in POOL : j # i => seen'[j] = seen[j]
  BY <1>1, <1>2, <1>4 DEF Cmd!Shapes
<1> HIDE DEF s
<1>6. s7' \in Cmd!Jobs /\ s7'.slot = 0 /\ (IF u THEN s7'.pc = "give" /\ s7'.to = w ELSE s7'.pc = "idle")
  <2>1. /\ Cmd!Resting \in Cmd!Jobs /\ Cmd!Resting.pc = "idle" /\ Cmd!Resting.slot = 0
        /\ "give" \in {"idle", "local", "stuck", "submit", "arm", "fwd", "fwd_drain", "finish", "give"}
    BY CmdNames DEF Cmd!Resting, Cmd!Jobs
  <2>2. w \in FRONTS \cup {Cmd!Nobody}
    BY <1>2, CmdNames
  <2> QED  BY <2>1, <2>2, <1>1, <1>3 DEF Cmd!Jobs
<1>7. Cmd!Shapes'
  BY <1>1, <1>5, <1>6 DEF Cmd!Shapes
<1>8. w # "nobody" => w \in FRONTS /\ Cmd!Awaits(w) /\ now[w].slot = i /\ ~ s11[w]
  <2> SUFFICES ASSUME w # "nobody" PROVE w \in FRONTS /\ Cmd!Awaits(w) /\ now[w].slot = i /\ ~ s11[w]
    OBVIOUS
  <2>1. w \in FRONTS /\ Cmd!Awaits(w) /\ now[w].slot = i
    BY <1>2, <1>3, CmdNames DEF Cmd!Handed
  <2> QED  BY <2>1, <1>2 DEF Cmd!Handed
<1>9. Cmd!Handed'
  <2>1. \A d \in FRONTS : Cmd!Awaits(d) =>
           LET r == seen'[now[d].slot] IN
             /\ now[d].slot \in POOL /\ r.used /\ r.waiter = d /\ r.buf = now[d].buf /\ r.cmd = now[d].cmd
             /\ now[d].pc = "drain" => r.done
    <3> SUFFICES ASSUME NEW d \in FRONTS, Cmd!Awaits(d)
                 PROVE  LET r == seen'[now[d].slot] IN
                          /\ now[d].slot \in POOL /\ r.used /\ r.waiter = d /\ r.buf = now[d].buf /\ r.cmd = now[d].cmd
                          /\ now[d].pc = "drain" => r.done
      OBVIOUS
    <3>1. CASE now[d].slot = i
      <4>1. w = d /\ seen[i].buf = now[d].buf /\ seen[i].cmd = now[d].cmd
        BY <3>1, <1>3 DEF Cmd!Handed
      <4> QED  BY <3>1, <4>1, <1>2, <1>3, <1>4, <1>5, CmdNames
    <3>2. CASE now[d].slot # i
      BY <3>2, <1>5 DEF Cmd!Handed
    <3> QED  BY <3>1, <3>2
  <2>2. \A j \in POOL : seen'[j].used /\ seen'[j].waiter # Cmd!Nobody =>
           now[seen'[j].waiter].pc \in {"wait", "drain"} /\ now[seen'[j].waiter].slot = j
    <3> SUFFICES ASSUME NEW j \in POOL, seen'[j].used, seen'[j].waiter # Cmd!Nobody
                 PROVE  now[seen'[j].waiter].pc \in {"wait", "drain"} /\ now[seen'[j].waiter].slot = j
      OBVIOUS
    <3>1. seen'[j].waiter = seen[j].waiter /\ seen[j].used
      BY <1>2, <1>3, <1>4, <1>5
    <3>2. Cmd!Awaits(seen[j].waiter) /\ now[seen[j].waiter].slot = j
      BY <3>1 DEF Cmd!Handed
    <3> QED  BY <3>1, <3>2 DEF Cmd!Awaits
  <2>3. \A d \in FRONTS : s11[d] \/ (s7'.pc = "give" /\ s7'.to = d) => Cmd!Awaits(d) /\ seen'[now[d].slot].done
    <3> SUFFICES ASSUME NEW d \in FRONTS, s11[d] \/ (s7'.pc = "give" /\ s7'.to = d)
                 PROVE  Cmd!Awaits(d) /\ seen'[now[d].slot].done
      OBVIOUS
    <3>1. CASE s11[d]
      <4>1. Cmd!Awaits(d) /\ seen[now[d].slot].done /\ now[d].slot \in POOL
        BY <3>1 DEF Cmd!Handed
      <4> QED  BY <4>1, <1>2, <1>5
    <3>2. CASE s7'.pc = "give" /\ s7'.to = d
      <4>1. d = w /\ w # "nobody"
        BY <3>2, <1>3, <1>6
      <4> QED  BY <4>1, <1>4, <1>5, <1>8
    <3> QED  BY <3>1, <3>2
  <2>4. s7'.pc = "give" => s7'.to \in FRONTS /\ ~ s11[s7'.to]
    BY <1>3, <1>6, <1>8
  <2>5. now' = now /\ s11' = s11
    BY <1>1
  <2>6. \A d \in FRONTS : Cmd!Awaits(d)' <=> Cmd!Awaits(d)
    BY <2>5 DEF Cmd!Awaits
  <2>7. \A d \in FRONTS : Cmd!Awaits(d)' =>
           LET r == seen'[now'[d].slot] IN
             /\ now'[d].slot \in POOL /\ r.used /\ r.waiter = d /\ r.buf = now'[d].buf /\ r.cmd = now'[d].cmd
             /\ now'[d].pc = "drain" => r.done
    BY <2>1, <2>5, <2>6
  <2>8. \A j \in POOL : seen'[j].used /\ seen'[j].waiter # Cmd!Nobody =>
           now'[seen'[j].waiter].pc \in {"wait", "drain"} /\ now'[seen'[j].waiter].slot = j
    BY <2>2, <2>5
  <2>9. \A d \in FRONTS : s11'[d] \/ (s7'.pc = "give" /\ s7'.to = d) => Cmd!Awaits(d)' /\ seen'[now'[d].slot].done
    BY <2>3, <2>5, <2>6
  <2>10. s7'.pc = "give" => s7'.to \in FRONTS /\ ~ s11'[s7'.to]
    BY <2>4, <2>5
  <2> QED  BY <2>7, <2>8, <2>9, <2>10 DEF Cmd!Handed, Cmd!Awaits
<1>10. Cmd!Queued'
  <2>1. \A k \in DOMAIN s6 : s6[k] \in POOL /\ s6[k] # i
    BY <1>3 DEF Cmd!Shapes, Cmd!Queued
  <2> QED  BY <2>1, <1>1, <1>5, <1>6, CmdNames DEF Cmd!Queued, Cmd!Mine
<1>11. Cmd!Owned'
  <2>1. \A j \in POOL : seen'[j].used =>
           /\ seen'[j].buf \in Cmd!Buffers
           /\ seen'[j].waiter = Cmd!Nobody /\ seen'[j].buf[1] \in POOLED => seen'[j].buf \in last
    BY <1>2, <1>3, <1>4, <1>5, CmdNames DEF Cmd!Owned
  <2> QED  BY <2>1, <1>1 DEF Cmd!Owned
<1>12. Cmd!Armed'
  BY <1>1, <1>6 DEF Cmd!Armed
<1> QED  BY <1>7, <1>9, <1>10, <1>11, <1>12 DEF Cmd!CmdInv

LEMMA CmdTicks ==
  ASSUME Cmd!Shapes, Cmd!Handed, Cmd!Queued, Cmd!Owned, Cmd!Armed, Cmd!Tick
  PROVE  Cmd!CmdInv'
<1>1. /\ now' = [c \in FRONTS |-> IF Cmd!Waits(c) THEN [now[c] EXCEPT !.age = @ + 1] ELSE now[c]]
      /\ s7' = IF s7.pc = "fwd" THEN [s7 EXCEPT !.age = @ + 1] ELSE s7
      /\ UNCHANGED <<ses, last, seen, s6, s8, s9, s10, s11, s12>>
  BY DEF Cmd!Tick
<1>2. \A c \in FRONTS : /\ now'[c] \in Cmd!Calls /\ now'[c].pc = now[c].pc /\ now'[c].cmd = now[c].cmd
                        /\ now'[c].slot = now[c].slot /\ now'[c].buf = now[c].buf
  <2> SUFFICES ASSUME NEW c \in FRONTS
               PROVE  /\ now'[c] \in Cmd!Calls /\ now'[c].pc = now[c].pc /\ now'[c].cmd = now[c].cmd
                      /\ now'[c].slot = now[c].slot /\ now'[c].buf = now[c].buf
    OBVIOUS
  <2>1. now[c] \in Cmd!Calls
    BY DEF Cmd!Shapes
  <2>2. now[c].age + 1 \in Nat
    BY <2>1 DEF Cmd!Calls
  <2>3. [now[c] EXCEPT !.age = @ + 1] \in Cmd!Calls
    BY <2>1, <2>2 DEF Cmd!Calls
  <2> QED  BY <1>1, <2>1, <2>3 DEF Cmd!Calls
<1>3. s7' \in Cmd!Jobs /\ s7'.pc = s7.pc /\ s7'.slot = s7.slot /\ s7'.to = s7.to
  <2>1. s7 \in Cmd!Jobs
    BY DEF Cmd!Shapes
  <2>2. s7.age + 1 \in Nat
    BY <2>1 DEF Cmd!Jobs
  <2> QED  BY <1>1, <2>1, <2>2 DEF Cmd!Jobs
<1>4. Cmd!Shapes'
  BY <1>1, <1>2, <1>3 DEF Cmd!Shapes
<1>5. Cmd!Handed'
  <2>1. \A j \in POOL : seen[j].used /\ seen[j].waiter # Cmd!Nobody =>
           now'[seen[j].waiter].pc \in {"wait", "drain"} /\ now'[seen[j].waiter].slot = j
    <3> SUFFICES ASSUME NEW j \in POOL, seen[j].used, seen[j].waiter # Cmd!Nobody
                 PROVE  now'[seen[j].waiter].pc \in {"wait", "drain"} /\ now'[seen[j].waiter].slot = j
      OBVIOUS
    <3>1. seen[j] \in Cmd!Slots
      BY DEF Cmd!Shapes
    <3>2. seen[j].waiter \in FRONTS /\ now[seen[j].waiter].slot = j /\ now[seen[j].waiter].pc \in {"wait", "drain"}
      BY <3>1 DEF Cmd!Slots, Cmd!Handed, Cmd!Awaits
    <3> QED  BY <3>2, <1>2
  <2>2. \A d \in FRONTS : Cmd!Awaits(d)' =>
           LET r == seen[now'[d].slot] IN
             /\ now'[d].slot \in POOL /\ r.used /\ r.waiter = d /\ r.buf = now'[d].buf /\ r.cmd = now'[d].cmd
             /\ now'[d].pc = "drain" => r.done
    BY <1>2 DEF Cmd!Handed, Cmd!Awaits
  <2>3. \A d \in FRONTS : s11[d] \/ (s7'.pc = "give" /\ s7'.to = d) => Cmd!Awaits(d)' /\ seen[now'[d].slot].done
    BY <1>2, <1>3 DEF Cmd!Handed, Cmd!Awaits
  <2>4. s7'.pc = "give" => s7'.to \in FRONTS /\ ~ s11[s7'.to]
    BY <1>3 DEF Cmd!Handed
  <2> QED  BY <2>1, <2>2, <2>3, <2>4, <1>1 DEF Cmd!Handed, Cmd!Awaits
<1>6. Cmd!Queued' /\ Cmd!Armed'
  BY <1>1, <1>3 DEF Cmd!Queued, Cmd!Armed, Cmd!Mine
<1>7. Cmd!Owned'
  BY <1>1, <1>2, CmdBuffers DEF Cmd!Owned
<1> QED  BY <1>4, <1>5, <1>6, <1>7 DEF Cmd!CmdInv

LEMMA CmdStill ==
  ASSUME Cmd!Shapes, Cmd!Handed, Cmd!Queued, Cmd!Owned, Cmd!Armed, UNCHANGED slots
  PROVE  Cmd!CmdInv'
<1>1. /\ UNCHANGED <<now, ses, last, seen, s6>> /\ UNCHANGED <<s7, s8, s9, s10, s11, s12>>
      /\ s7'.slot = s7.slot /\ s7'.to = s7.to /\ s7'.pc = s7.pc /\ \A c \in FRONTS : s11'[c] = s11[c]
  BY DEF slots
<1>2. Cmd!Handed' /\ Cmd!Queued' /\ Cmd!Owned'
  BY <1>1, CmdSame
<1>3. Cmd!Shapes' /\ Cmd!Armed'
  BY <1>1 DEF Cmd!Shapes, Cmd!Armed, Cmd!Mine
<1> QED  BY <1>2, <1>3 DEF Cmd!CmdInv

LEMMA CmdSteps == Cmd!CmdInv /\ (Cmd!Next \/ UNCHANGED slots) => Cmd!CmdInv'
<1> SUFFICES ASSUME Cmd!CmdInv, Cmd!Next \/ UNCHANGED slots PROVE Cmd!CmdInv'
  OBVIOUS
<1>1. CASE s14
  <2>1. s14'
    BY <1>1 DEF Cmd!Next, Cmd!CallerStep, Cmd!WorkerStep, Cmd!NodeStep, Cmd!Collect, Cmd!TimeOut, Cmd!AnswerSent,
         Cmd!DrainEnds, Cmd!Issue, Cmd!Receive, Cmd!Local, Cmd!Arm, Cmd!FwdCollect, Cmd!FwdTimeOut, Cmd!Finish,
         Cmd!Give, Cmd!GiveForward, Cmd!Outcome, Cmd!Tick, Cmd!Slow, Cmd!Submit, Cmd!FwdDrainEnds, slots
  <2> QED  BY <2>1 DEF Cmd!CmdInv
<1>2. CASE ~ s14
  <2>1. Cmd!Shapes /\ Cmd!Handed /\ Cmd!Queued /\ Cmd!Owned /\ Cmd!Armed
    BY <1>2 DEF Cmd!CmdInv
  <2>2. CASE UNCHANGED slots
    BY <2>1, <2>2, CmdStill
  <2>3. CASE \E c \in FRONTS : Cmd!CallerStep(c)
    BY <2>1, <2>3, CmdCollects, CmdTimesOut, CmdAnswers DEF Cmd!CallerStep
  <2>4. CASE \E c \in FRONTS : Cmd!DrainEnds(c)
    BY <2>4 DEF Cmd!DrainEnds, Cmd!CmdInv
  <2>5. CASE \E c \in FRONTS : \E zone \in BOOLEAN : Cmd!Issue(c, zone)
    BY <2>1, <2>5, CmdIssues
  <2>6. CASE Cmd!WorkerStep
    BY <2>1, <2>6, CmdReceives, CmdLocal, CmdArms, CmdFwdCollects, CmdFwdTimesOut, CmdFinishes, CmdGives
       DEF Cmd!WorkerStep
  <2>7. CASE Cmd!NodeStep
    BY <2>1, <2>7, CmdGivesForward, CmdOutcomes DEF Cmd!NodeStep
  <2>8. CASE Cmd!Tick
    BY <2>1, <2>8, CmdTicks
  <2>9. CASE Cmd!Slow \/ Cmd!Submit
    BY <2>1, <2>9, CmdMoves
  <2>10. CASE Cmd!FwdDrainEnds
    BY <2>10 DEF Cmd!FwdDrainEnds, Cmd!CmdInv
  <2> QED  BY <2>2, <2>3, <2>4, <2>5, <2>6, <2>7, <2>8, <2>9, <2>10 DEF Cmd!Next
<1> QED  BY <1>1, <1>2

LEMMA CmdMeans == Cmd!CmdInv => Cmd!AnswersBelong /\ Cmd!OneOwner
<1> SUFFICES ASSUME Cmd!Shapes, Cmd!Handed, Cmd!Queued, Cmd!Owned, Cmd!Armed
             PROVE  Cmd!AnswersBelong /\ Cmd!OneOwner
  BY DEF Cmd!CmdInv, Cmd!AnswersBelong, Cmd!OneOwner
<1>1. \A c \in POOLED : now[c].pc = "answer" => ses[now[c].buf] \in {0, now[c].cmd}
  <2> SUFFICES ASSUME NEW c \in POOLED, now[c].pc = "answer" PROVE ses[now[c].buf] \in {0, now[c].cmd}
    OBVIOUS
  <2>1. c \in FRONTS /\ now[c].buf \in Cmd!BufsOf(c) /\ now[c].buf \notin last
    BY CmdNames DEF Cmd!Owned
  <2>2. now[c].buf \in Cmd!Buffers /\ now[c].buf[1] = c
    BY <2>1, CmdBuffers
  <2> QED  BY <2>1, <2>2, CmdNames DEF Cmd!Owned
<1>2. \A i \in POOL : ~ seen[i].used => /\ \A k \in DOMAIN s6 : s6[k] # i
                                        /\ s7.slot # i
                                        /\ \A c \in FRONTS : now[c].pc \in {"wait", "drain"} => now[c].slot # i
  BY CmdNames DEF Cmd!Queued, Cmd!Handed, Cmd!Mine, Cmd!Awaits
<1> QED  BY <1>1, <1>2, CmdNames DEF Cmd!AnswersBelong, Cmd!OneOwner, Cmd!Queued

(* The two parts of which it speaks stand in their invariants.               *)
AnswersInv == (part = "cmd" => Cmd!CmdInv) /\ (part = "http" => Http!HttpInv)

(* What web and panel send is the reply to their own command or an error    *)
(* line, a slot of cmd_task has one owner, a request has one answer, and a   *)
(* connection that is kept has no byte of an old body left (cmd_task.c,      *)
(* node_mgr_fwd.c, http_cmd.c, http_srv.c).                                  *)
THEOREM AnswersHold == FrontsSpec => []AnswersTrue
<1>1. FrontsInit => AnswersInv
  BY CmdStarts, HttpStarts DEF FrontsInit, AnswersInv
<1>2. AnswersInv /\ [FrontsNext]_<<part, slots>> => AnswersInv'
  <2> SUFFICES ASSUME AnswersInv, [FrontsNext]_<<part, slots>> PROVE AnswersInv'
    OBVIOUS
  <2>1. part' = part
    BY DEF FrontsNext
  <2>2. part = "cmd" => Cmd!Next \/ UNCHANGED slots
    BY DEF FrontsNext
  <2>3. part = "http" => Http!Next \/ UNCHANGED <<now, ses>>
    BY DEF FrontsNext, slots
  <2> QED  BY <2>1, <2>2, <2>3, CmdSteps, HttpSteps DEF AnswersInv
<1>3. AnswersInv => AnswersTrue
  <2>1. Http!HttpInv => Http!InStep
    BY DEF Http!HttpInv, Http!Counted, Http!InStep
  <2>2. Http!HttpInv => Http!AnsweredOnce
    BY DEF Http!HttpInv, Http!TypeOK, Http!Servers, Http!OneToCome, Http!AnsweredOnce
  <2> QED  BY <2>1, <2>2, CmdMeans DEF AnswersInv, AnswersTrue
<1> QED  BY <1>1, <1>2, <1>3, PTL DEF FrontsSpec

-----------------------------------------------------------------------------
(* WebLogin.  Its variables are the slots now to s12.                       *)

LEMMA LoginNames ==
  /\ Login!Forever = WA_TTL_S + 1 /\ Login!Forever \in Nat /\ WA_TTL_S \in Nat /\ WA_TTL_S > 0
  /\ WA_TTL_S \in 0 .. Login!Forever /\ 0 \in 0 .. Login!Forever /\ WA_TTL_S # Login!Forever
  /\ Login!Forever \in 0 .. Login!Forever /\ Login!Forever # 0
  /\ Login!NoSess \in Login!Sessions /\ Login!NoSess.tok = 0 /\ Login!NoSess.left = 0 /\ Login!NoSess.seq = 0
  /\ Login!Slots = 1 .. WA_SESSIONS
<1>1. Login!Forever = WA_TTL_S + 1 /\ WA_TTL_S \in Nat /\ WA_TTL_S > 0
  BY LoginBounds DEF Login!Forever
<1> HIDE DEF Login!Forever
<1> QED  BY <1>1, LoginBounds DEF Login!NoSess, Login!Sessions, Login!Slots

LEMMA LoginStarts == Login!Init => Login!LoginInv
<1> SUFFICES ASSUME Login!Init PROVE Login!LoginInv
  OBVIOUS
<1>1. /\ ses \in [Login!Slots -> Login!Sessions] /\ clock \in [Login!Slots -> Login!Sessions]
      /\ \A i \in Login!Slots : ses[i] = Login!NoSess /\ clock[i] = Login!NoSess
      /\ s9 = 0 /\ s10 = 0 /\ s11 = {} /\ s7 = 1 /\ now = FALSE
  BY LoginNames DEF Login!Init
<1>2. s8 \in Login!Changes
  BY DEF Login!Init, Login!NoChange, Login!Changes
<1>3. Login!Numbered
  <2>1. \A i \in Login!Slots : /\ ses[i].tok = 0 /\ ses[i].seq = 0 /\ clock[i].tok = 0
                              /\ ses[i].tok <= s9 /\ clock[i].tok <= s9
    BY <1>1, LoginNames
  <2>2. s9 \in Nat /\ s10 \in Nat /\ s7 \in Nat /\ now \in BOOLEAN
    BY <1>1
  <2> QED  BY <1>1, <1>2, <2>1, <2>2 DEF Login!Numbered, Login!Unique
<1>4. Login!Newer /\ Login!OfPassword
  BY <1>1, LoginNames DEF Login!Newer, Login!OfPassword
<1> QED  BY <1>3, <1>4 DEF Login!LoginInv

LEMMA LoginFaults ==
  ASSUME Login!LoginInv, UNCHANGED s10 \/ Login!Fault
  PROVE  s10' \in Nat
<1>1. s10 \in Nat
  BY DEF Login!LoginInv, Login!Numbered
<1> QED  BY <1>1 DEF Login!Fault

LEMMA LoginSaves ==
  ASSUME NEW T \in [Login!Slots -> Login!Sessions], Login!Saved(T)
  PROVE  \/ clock' = clock
         \/ /\ clock' \in [Login!Slots -> Login!Sessions]
            /\ \A i \in Login!Slots : clock'[i] = T[i] \/ clock'[i] = Login!NoSess
<1>1. CASE clock' = [i \in Login!Slots |-> IF T[i].left = Login!Forever THEN Login!NoSess ELSE T[i]]
  BY <1>1, LoginNames
<1>2. CASE UNCHANGED clock
  BY <1>2
<1> QED  BY <1>1, <1>2 DEF Login!Saved

(* What every change of the table that mints nothing keeps.                 *)
LEMMA LoginKeeps ==
  ASSUME Login!LoginInv, UNCHANGED <<now, s7, s9>>, s10' \in Nat,
         ses' \in [Login!Slots -> Login!Sessions],
         \A i \in Login!Slots : ses'[i] = ses[i] \/ ses'[i] = Login!NoSess,
         Login!Saved(ses') \/ clock' = clock,
         s11' \subseteq s11,
         \A tok \in s11' : \A i \in Login!Slots : ses[i].tok = tok => ses'[i] = ses[i],
         \A tok \in s11 \ s11' : \A i \in Login!Slots : ses[i].tok = tok => ses'[i] = Login!NoSess,
         s8' \in Login!Changes,
         \A i \in Login!Slots : s8'.pc # "committed" /\ ~ s12' =>
           \/ s8.pc # "committed" /\ ~ s12
           \/ ses'[i] = Login!NoSess /\ clock'[i] = Login!NoSess
  PROVE  Login!LoginInv'
<1>1. /\ ses \in [Login!Slots -> Login!Sessions] /\ clock \in [Login!Slots -> Login!Sessions]
      /\ now \in BOOLEAN /\ s7 \in Nat /\ s9 \in Nat
      /\ \A i \in Login!Slots : ses[i].tok <= s9 /\ clock[i].tok <= s9 /\ ses[i].seq \in {0, ses[i].tok}
      /\ \A i, j \in Login!Slots : ses[i].tok = ses[j].tok /\ i # j => ses[i].tok = 0
      /\ \A i, j \in Login!Slots : clock[i].tok = clock[j].tok /\ i # j => clock[i].tok = 0
  BY DEF Login!LoginInv, Login!Numbered, Login!Unique
<1>2. /\ \A i \in Login!Slots : ses'[i].tok <= s9 /\ ses'[i].seq \in {0, ses'[i].tok}
      /\ \A i, j \in Login!Slots : ses'[i].tok = ses'[j].tok /\ i # j => ses'[i].tok = 0
  BY <1>1, LoginNames
<1>3. \/ clock' = clock
      \/ /\ clock' \in [Login!Slots -> Login!Sessions]
         /\ \A i \in Login!Slots : clock'[i] = ses'[i] \/ clock'[i] = Login!NoSess
  BY LoginSaves
<1>4. /\ clock' \in [Login!Slots -> Login!Sessions]
      /\ \A i \in Login!Slots : clock'[i].tok <= s9
      /\ \A i, j \in Login!Slots : clock'[i].tok = clock'[j].tok /\ i # j => clock'[i].tok = 0
  <2>1. CASE clock' = clock
    BY <2>1, <1>1
  <2>2. CASE \A i \in Login!Slots : clock'[i] = ses'[i] \/ clock'[i] = Login!NoSess
    BY <2>2, <1>1, <1>2, <1>3, LoginNames
  <2> QED  BY <1>3, <2>1, <2>2
<1>5. Login!Numbered'
  BY <1>1, <1>2, <1>4 DEF Login!Numbered, Login!Unique
<1>6. Login!Newer'
  <2>1. s11' \subseteq 1 .. s9'
    BY DEF Login!LoginInv, Login!Newer
  <2>2. ASSUME NEW tok \in s11'
        PROVE  \E i \in Login!Slots : ses'[i].tok = tok /\ ses'[i].seq = tok /\ Login!Live(ses'[i])
    <3>1. PICK i \in Login!Slots : ses[i].tok = tok /\ ses[i].seq = tok /\ Login!Live(ses[i])
      BY DEF Login!LoginInv, Login!Newer
    <3>2. ses'[i] = ses[i]
      BY <3>1
    <3> QED  BY <3>1, <3>2
  <2>3. ASSUME NEW i \in Login!Slots, ses'[i].tok # 0, ses'[i].left # 0, ses'[i].seq \notin s11', NEW tok \in s11'
        PROVE  ses'[i].seq < tok
    <3>1. ses'[i] = ses[i]
      BY <2>3, LoginNames
    <3>2. ses[i].seq \notin s11
      <4> SUFFICES ASSUME ses[i].seq \in s11 PROVE FALSE
        OBVIOUS
      <4>1. ses[i].seq \in s11 \ s11' /\ ses[i].seq # 0
        BY <2>3, <3>1 DEF Login!LoginInv, Login!Newer
      <4>2. ses[i].seq = ses[i].tok
        BY <4>1, <1>1
      <4>3. ses'[i] = Login!NoSess
        BY <4>1, <4>2
      <4> QED  BY <4>3, <2>3, LoginNames
    <3> QED  BY <2>3, <3>1, <3>2 DEF Login!LoginInv, Login!Newer
  <2>4. \A k : Login!Live(k)' = Login!Live(k)
    BY DEF Login!Live
  <2> QED  BY <2>1, <2>2, <2>3 DEF Login!Newer, Login!Live
<1>7. Login!OfPassword'
  <2> SUFFICES ASSUME s8'.pc # "committed", ~ s12', NEW i \in Login!Slots
               PROVE  /\ ses'[i].tok # 0 => ses'[i].pw = s7
                      /\ clock'[i].tok # 0 => clock'[i].pw = s7
    BY DEF Login!OfPassword
  <2>1. CASE s8.pc # "committed" /\ ~ s12
    <3>1. /\ ses[i].tok # 0 => ses[i].pw = s7
          /\ clock[i].tok # 0 => clock[i].pw = s7
      BY <2>1 DEF Login!LoginInv, Login!OfPassword
    <3> QED  BY <3>1, <1>3, LoginNames
  <2>2. CASE ~ (s8.pc # "committed" /\ ~ s12)
    BY <2>2, LoginNames
  <2> QED  BY <2>1, <2>2
<1> QED  BY <1>5, <1>6, <1>7 DEF Login!LoginInv

(* Steps that touch no session. *)
LEMMA LoginAside ==
  ASSUME Login!LoginInv, UNCHANGED <<now, ses, clock, s7, s9, s11>>, UNCHANGED s10 \/ Login!Fault, s8' \in Login!Changes,
         s8'.pc # "committed" /\ ~ s12' => s8.pc # "committed" /\ ~ s12
  PROVE  Login!LoginInv'
<1>1. ses' \in [Login!Slots -> Login!Sessions]
  BY DEF Login!LoginInv, Login!Numbered, Login!Unique
<1>2. \A i \in Login!Slots : ses'[i] = ses[i] \/ ses'[i] = Login!NoSess
  OBVIOUS
<1>3. s11' \subseteq s11 /\ s11 \ s11' = {} /\ clock' = clock /\ s10' \in Nat
  BY LoginFaults
<1> QED  BY <1>1, <1>2, <1>3, LoginKeeps

LEMMA LoginChanging == Login!LoginInv => s8 \in Login!Changes /\ s8.pc \in {"none", "hashed", "committed", "dropped"} /\ s8.web \in BOOLEAN
BY DEF Login!LoginInv, Login!Numbered, Login!Changes

LEMMA LoginLogsOut ==
  ASSUME Login!LoginInv, NEW i \in Login!Slots, Login!Logout(i)
  PROVE  Login!LoginInv'
<1>1. /\ ses[i].tok # 0 /\ ses' = [ses EXCEPT ![i] = Login!NoSess] /\ Login!Saved(ses')
      /\ s11' = s11 \ {ses[i].tok} /\ UNCHANGED <<now, s7, s9>> /\ UNCHANGED <<s8, s12>>
  BY DEF Login!Logout
<1>2. ses \in [Login!Slots -> Login!Sessions]
  BY DEF Login!LoginInv, Login!Numbered, Login!Unique
<1>3. /\ ses' \in [Login!Slots -> Login!Sessions] /\ ses'[i] = Login!NoSess
      /\ \A j \in Login!Slots : j # i => ses'[j] = ses[j]
  BY <1>1, <1>2, LoginNames
<1>4. \A j \in Login!Slots : ses[j].tok = ses[i].tok => j = i
  BY <1>1 DEF Login!LoginInv, Login!Numbered, Login!Unique
<1>5. /\ \A tok \in s11' : \A j \in Login!Slots : ses[j].tok = tok => ses'[j] = ses[j]
      /\ \A tok \in s11 \ s11' : \A j \in Login!Slots : ses[j].tok = tok => ses'[j] = Login!NoSess
  BY <1>1, <1>3, <1>4
<1>6. s8' \in Login!Changes /\ s11' \subseteq s11 /\ s10' \in Nat
  BY <1>1, LoginChanging, LoginFaults DEF Login!Saved
<1>7. \A j \in Login!Slots : ses'[j] = ses[j] \/ ses'[j] = Login!NoSess
  BY <1>3
<1> QED  BY <1>1, <1>3, <1>5, <1>6, <1>7, LoginKeeps

LEMMA LoginDrops ==
  ASSUME Login!LoginInv, Login!Drop
  PROVE  Login!LoginInv'
<1>1. /\ ses' = [i \in Login!Slots |-> Login!NoSess] /\ Login!Saved(ses') /\ s11' = {}
      /\ s12' = (s12 \/ s10' # s10) /\ s8' = IF s8.web THEN [s8 EXCEPT !.pc = "dropped"] ELSE Login!NoChange
      /\ UNCHANGED <<now, s7, s9>>
  BY DEF Login!Drop
<1>2. s8' \in Login!Changes
  BY <1>1, LoginChanging DEF Login!Changes, Login!NoChange
<1>3. ses' \in [Login!Slots -> Login!Sessions] /\ \A i \in Login!Slots : ses'[i] = Login!NoSess
  BY <1>1, LoginNames
<1>4. ~ s12' => \A i \in Login!Slots : clock'[i] = Login!NoSess
  <2>1. CASE clock' = [i \in Login!Slots |-> IF ses'[i].left = Login!Forever THEN Login!NoSess ELSE ses'[i]]
    BY <2>1, <1>3
  <2>2. CASE Login!Fault
    <3>1. s10' # s10
      <4>1. s10' = s10 + 1
        BY <2>2 DEF Login!Fault
      <4>2. s10 \in Nat
        BY DEF Login!LoginInv, Login!Numbered
      <4> QED  BY <4>1, <4>2
    <3> QED  BY <3>1, <1>1
  <2> QED  BY <1>1, <2>1, <2>2 DEF Login!Saved
<1>5. s10' \in Nat
  BY <1>1, LoginFaults DEF Login!Saved
<1> QED  BY <1>1, <1>2, <1>3, <1>4, <1>5, LoginKeeps

LEMMA LoginBegins ==
  ASSUME Login!LoginInv, \/ \E web \in BOOLEAN : Login!StartChange(web)
                         \/ Login!Commit
                         \/ Login!ClockSet
  PROVE  Login!LoginInv'
<1>1. CASE \E web \in BOOLEAN : Login!StartChange(web)
  <2>1. s8' \in Login!Changes /\ s8.pc = "none" /\ UNCHANGED <<now, ses, clock, s7, s9, s11>> /\ UNCHANGED <<s10, s12>>
    BY <1>1 DEF Login!StartChange, Login!Changes
  <2> QED  BY <2>1, LoginAside
<1>2. CASE Login!Commit /\ s7' = s7 + 1 /\ s8' = [s8 EXCEPT !.pc = "committed"] /\ UNCHANGED s10
  <2>1. /\ s8' \in Login!Changes /\ s8'.pc = "committed" /\ s7 \in Nat
        /\ UNCHANGED <<now, ses, clock, s9, s11>> /\ s10' \in Nat
    BY <1>2, LoginChanging, LoginFaults DEF Login!Commit, Login!Changes, Login!LoginInv, Login!Numbered
  <2> QED  BY <1>2, <2>1 DEF Login!LoginInv, Login!Numbered, Login!Unique, Login!Newer, Login!Live, Login!OfPassword
<1>3. CASE Login!Commit /\ s8' = Login!NoChange /\ UNCHANGED s7 /\ Login!Fault
  <2>1. /\ s8' \in Login!Changes /\ s8.pc = "hashed"
        /\ UNCHANGED <<now, ses, clock, s7, s9, s11>> /\ UNCHANGED s12 /\ (UNCHANGED s10 \/ Login!Fault)
    BY <1>3 DEF Login!Commit, Login!Changes, Login!NoChange
  <2> QED  BY <2>1, LoginAside
<1>4. CASE Login!ClockSet
  <2>1. ~ now /\ now' = TRUE /\ UNCHANGED <<ses, clock, s7, s8, s9, s10, s11, s12>>
    BY <1>4 DEF Login!ClockSet
  <2>2. \A k : Login!Live(k) => Login!Live(k)'
    BY <2>1 DEF Login!Live
  <2>3. Login!Newer'
    BY <2>1 DEF Login!LoginInv, Login!Newer, Login!Live
  <2> QED  BY <2>1, <2>3 DEF Login!LoginInv, Login!Numbered, Login!Unique, Login!OfPassword
<1> QED  BY <1>1, <1>2, <1>3, <1>4 DEF Login!Commit

LEMMA LoginCounts ==
  /\ IsFiniteSet(Login!Slots) /\ Cardinality(Login!Slots) = WA_SESSIONS
  /\ \A S : Login!Cardinality(S) = Cardinality(S)
<1>1. \A S : Login!Cardinality(S) = Cardinality(S)
  BY DEF Login!Cardinality, Cardinality
<1>2. IsFiniteSet(1 .. WA_SESSIONS) /\ Cardinality(1 .. WA_SESSIONS) = WA_SESSIONS
  BY LoginBounds, FS_Interval
<1> QED  BY <1>1, <1>2 DEF Login!Slots

(* With fewer recent logins than slots, one slot holds none of them.        *)
LEMMA LoginSpare ==
  ASSUME Login!LoginInv, IsFiniteSet(s11), Cardinality(s11) < WA_SESSIONS
  PROVE  \E j \in Login!Slots : ses[j].tok \notin s11
<1> SUFFICES ASSUME \A j \in Login!Slots : ses[j].tok \in s11 PROVE FALSE
  OBVIOUS
<1> DEFINE f == [j \in Login!Slots |-> ses[j].tok]
<1>1. f \in [Login!Slots -> s11]
  OBVIOUS
<1>2. \E i, j \in Login!Slots : i # j /\ f[i] = f[j]
  <2> HIDE DEF f
  <2> QED  BY <1>1, LoginCounts, FS_PigeonHole
<1>3. PICK i \in Login!Slots, j \in Login!Slots : i # j /\ ses[i].tok = ses[j].tok
  BY <1>2
<1>4. ses[i].tok = 0
  BY <1>3 DEF Login!LoginInv, Login!Numbered, Login!Unique
<1>5. ses[i].tok > 0
  <2>1. s9 \in Nat /\ s11 \subseteq 1 .. s9 /\ ses[i].tok \in s11
    BY DEF Login!LoginInv, Login!Newer, Login!Numbered
  <2>2. ses[i].tok \in 1 .. s9
    BY <2>1
  <2> QED  BY <2>1, <2>2
<1> QED  BY <1>4, <1>5

LEMMA LoginFinite == Login!LoginInv => IsFiniteSet(s11)
<1> SUFFICES ASSUME Login!LoginInv PROVE IsFiniteSet(s11)
  OBVIOUS
<1>1. s9 \in Nat /\ s11 \subseteq 1 .. s9
  BY DEF Login!LoginInv, Login!Newer, Login!Numbered
<1>2. IsFiniteSet(1 .. s9)
  BY <1>1, FS_Interval
<1> QED  BY <1>1, <1>2, FS_Subset

(* Whose slot is taken is not one of the newest any more.                   *)
LEMMA LoginTakes ==
  ASSUME Login!LoginInv, NEW v \in Login!Slots, Login!Victim(v), s9' = s9 + 1,
         s11' = Login!Newest(s11 \cup {s9 + 1})
  PROVE  \A tok \in s11' : tok = s9 + 1 \/ (tok \in s11 /\ \A i \in Login!Slots :
                                              ses[i].tok = tok => i # v)
<1> DEFINE S == s11 \cup {s9 + 1}
<1>1. s9 \in Nat /\ s11 \subseteq 1 .. s9
  BY DEF Login!LoginInv, Login!Newer, Login!Numbered
<1>2. /\ \A i \in Login!Slots : ses[i].tok \in Nat /\ ses[i].seq \in Nat /\ ses[i].seq \in {0, ses[i].tok}
      /\ \A i, j \in Login!Slots : ses[i].tok = ses[j].tok /\ i # j => ses[i].tok = 0
  BY DEF Login!LoginInv, Login!Numbered, Login!Unique, Login!Sessions
<1> SUFFICES ASSUME NEW tok \in s11', tok # s9 + 1, ses[v].tok = tok PROVE FALSE
  <2>1. s11' \subseteq S
    BY DEF Login!Newest
  <2> QED  BY <2>1
<1>3. tok \in s11 /\ tok > 0
  BY <1>1 DEF Login!Newest
<1>4. PICK i \in Login!Slots : ses[i].tok = tok /\ ses[i].seq = tok /\ Login!Live(ses[i])
  BY <1>3 DEF Login!LoginInv, Login!Newer
<1>5. i = v
  BY <1>2, <1>3, <1>4
<1>6. ~ \E j \in Login!Slots : ~ Login!Live(ses[j])
  BY <1>4, <1>5 DEF Login!Victim
<1>7. \A j \in Login!Slots : tok <= ses[j].seq
  BY <1>2, <1>4, <1>5, <1>6 DEF Login!Victim
<1>8. \A u \in s11 : tok <= u
  <2> SUFFICES ASSUME NEW u \in s11 PROVE tok <= u
    OBVIOUS
  <2>1. PICK j \in Login!Slots : ses[j].seq = u
    BY DEF Login!LoginInv, Login!Newer
  <2> QED  BY <2>1, <1>7
<1>9. ~ Cardinality(S) > WA_SESSIONS
  <2> SUFFICES ASSUME Cardinality(S) > WA_SESSIONS PROVE FALSE
    OBVIOUS
  <2>1. s11' = {t \in S : \E u \in S : u < t}
    BY LoginCounts DEF Login!Newest
  <2>2. PICK u \in S : u < tok
    BY <2>1
  <2> QED  BY <2>2, <1>1, <1>3, <1>8
<1>10. Cardinality(s11) < WA_SESSIONS
  <2>1. IsFiniteSet(s11) /\ s9 + 1 \notin s11
    BY <1>1, LoginFinite
  <2>2. Cardinality(S) = Cardinality(s11) + 1 /\ Cardinality(s11) \in Nat
    BY <2>1, FS_AddElement, FS_CardinalityType
  <2> QED  BY <2>2, <1>9, LoginBounds
<1>11. PICK j \in Login!Slots : ses[j].tok \notin s11
  BY <1>10, LoginFinite, LoginSpare
<1>12. /\ ses[j].tok # 0 /\ ses[j].left # 0 /\ ses[j].seq \notin s11
  <2>1. ses[j].tok # 0 /\ ses[j].left # 0
    BY <1>6, LoginNames DEF Login!Live
  <2>2. ses[j].seq \notin s11
    BY <1>1, <1>2, <1>11
  <2> QED  BY <2>1, <2>2
<1>13. ses[j].seq < tok
  BY <1>3, <1>12 DEF Login!LoginInv, Login!Newer
<1> QED  BY <1>2, <1>3, <1>7, <1>13, <1>1

LEMMA LoginAccepts ==
  ASSUME Login!LoginInv, Login!Accepted, UNCHANGED <<now, s7>>, UNCHANGED s12, s8' \in Login!Changes,
         s8'.pc = "committed" <=> s8.pc = "committed"
  PROVE  Login!LoginInv'
<1> DEFINE n == s9 + 1
           m == [tok |-> n, left |-> IF now THEN WA_TTL_S ELSE Login!Forever, seq |-> n, pw |-> s7]
<1>1. PICK v \in Login!Slots : Login!Victim(v) /\ ses' = [ses EXCEPT ![v] = m]
  BY DEF Login!Accepted, Login!Minted
<1>2. s9' = n /\ Login!Saved(ses') /\ s11' = Login!Newest(s11 \cup {n})
  BY DEF Login!Accepted
<1>3. /\ ses \in [Login!Slots -> Login!Sessions] /\ clock \in [Login!Slots -> Login!Sessions]
      /\ now \in BOOLEAN /\ s7 \in Nat /\ s9 \in Nat /\ s11 \subseteq 1 .. s9
      /\ \A i \in Login!Slots : ses[i].tok <= s9 /\ clock[i].tok <= s9 /\ ses[i].seq \in {0, ses[i].tok}
      /\ \A i, j \in Login!Slots : ses[i].tok = ses[j].tok /\ i # j => ses[i].tok = 0
      /\ \A i, j \in Login!Slots : clock[i].tok = clock[j].tok /\ i # j => clock[i].tok = 0
  BY DEF Login!LoginInv, Login!Numbered, Login!Unique, Login!Newer
<1>4. m \in Login!Sessions /\ m.tok = n /\ m.seq = n /\ m.left # 0 /\ m.pw = s7 /\ Login!Live(m) /\ n \in Nat
  <2>1. n \in Nat
    BY <1>3
  <2> DEFINE l == IF now THEN WA_TTL_S ELSE Login!Forever
  <2>2. l \in 0 .. Login!Forever /\ l # 0 /\ (l = Login!Forever \/ (now /\ l > 0))
    BY <1>3, LoginNames
  <2>3. m = [tok |-> n, left |-> l, seq |-> n, pw |-> s7]
    OBVIOUS
  <2> HIDE DEF l, n, m
  <2>4. m \in Login!Sessions /\ m.tok = n /\ m.seq = n /\ m.left = l /\ m.pw = s7
    BY <1>3, <2>1, <2>2, <2>3 DEF Login!Sessions
  <2>5. Login!Live(m)
    BY <2>1, <2>2, <2>4, <1>3 DEF Login!Live, n
  <2> QED  BY <2>1, <2>2, <2>4, <2>5
<1> HIDE DEF m
<1>5. /\ ses' \in [Login!Slots -> Login!Sessions] /\ ses'[v] = m
      /\ \A i \in Login!Slots : i # v => ses'[i] = ses[i]
  BY <1>1, <1>3, <1>4
<1>6. /\ \A i \in Login!Slots : ses'[i].tok <= n /\ ses'[i].seq \in {0, ses'[i].tok}
      /\ \A i, j \in Login!Slots : ses'[i].tok = ses'[j].tok /\ i # j => ses'[i].tok = 0
  <2>1. \A i \in Login!Slots : ses[i].tok \in Nat /\ ses[i].tok <= s9
    BY <1>3 DEF Login!Sessions
  <2>2. \A i \in Login!Slots : i # v => ses'[i].tok # n
    BY <2>1, <1>3, <1>5
  <2>3. \A i \in Login!Slots : ses'[i].tok <= n /\ ses'[i].seq \in {0, ses'[i].tok}
    BY <2>1, <1>3, <1>4, <1>5
  <2>4. ASSUME NEW i \in Login!Slots, NEW j \in Login!Slots, ses'[i].tok = ses'[j].tok, i # j PROVE ses'[i].tok = 0
    <3>1. i # v /\ j # v
      BY <2>2, <2>4, <1>4, <1>5
    <3> QED  BY <3>1, <2>4, <1>3, <1>5
  <2> QED  BY <2>3, <2>4
<1>7. \/ clock' = clock
      \/ /\ clock' \in [Login!Slots -> Login!Sessions]
         /\ \A i \in Login!Slots : clock'[i] = ses'[i] \/ clock'[i] = Login!NoSess
  BY <1>2, <1>5, LoginSaves
<1>8. /\ clock' \in [Login!Slots -> Login!Sessions]
      /\ \A i \in Login!Slots : clock'[i].tok <= n
      /\ \A i, j \in Login!Slots : clock'[i].tok = clock'[j].tok /\ i # j => clock'[i].tok = 0
  <2>1. CASE clock' = clock
    <3>1. \A i \in Login!Slots : clock[i].tok \in Nat /\ clock[i].tok <= s9
      BY <1>3 DEF Login!Sessions
    <3> QED  BY <2>1, <3>1, <1>3
  <2>2. CASE \A i \in Login!Slots : clock'[i] = ses'[i] \/ clock'[i] = Login!NoSess
    BY <2>2, <1>3, <1>6, <1>7, LoginNames
  <2> QED  BY <1>7, <2>1, <2>2
<1>9. Login!Numbered'
  <2>1. s10' \in Nat
    BY <1>2, LoginFaults DEF Login!Saved
  <2> QED  BY <2>1, <1>2, <1>3, <1>4, <1>5, <1>6, <1>8 DEF Login!Numbered, Login!Unique
<1>10. s11' \subseteq s11 \cup {n} /\ s9 + 1 = n
  BY <1>2 DEF Login!Newest
<1>11. \A tok \in s11' : tok = n \/ (tok \in s11 /\ \A i \in Login!Slots : ses[i].tok = tok => i # v)
  <2>1. \A tok \in s11' : tok = s9 + 1 \/ (tok \in s11 /\ \A i \in Login!Slots :
                                              ses[i].tok = tok => i # v)
    BY <1>1, <1>2, LoginTakes
  <2> QED  BY <2>1
<1>12. \A t \in s11' : n \in s11' \/ n \notin s11'
  OBVIOUS
<1>13. Login!Newer'
  <2>1. s11' \subseteq 1 .. s9'
    <3>1. n \in 1 .. n /\ s9' = n
      BY <1>2, <1>3
    <3>2. \A t \in s11 : t \in 1 .. n
      BY <1>3
    <3> HIDE DEF n
    <3> QED  BY <3>1, <3>2, <1>10
  <2>2. ASSUME NEW tok \in s11'
        PROVE  \E i \in Login!Slots : ses'[i].tok = tok /\ ses'[i].seq = tok /\ Login!Live(ses'[i])
    <3>1. CASE tok = n
      BY <3>1, <1>4, <1>5
    <3>2. CASE tok # n
      <4>1. tok \in s11 /\ \A i \in Login!Slots : ses[i].tok = tok => i # v
        BY <3>2, <1>11
      <4>2. PICK i \in Login!Slots : ses[i].tok = tok /\ ses[i].seq = tok /\ Login!Live(ses[i])
        BY <4>1 DEF Login!LoginInv, Login!Newer
      <4>3. ses'[i] = ses[i]
        BY <4>1, <4>2, <1>5
      <4> QED  BY <4>2, <4>3
    <3> QED  BY <3>1, <3>2
  <2>3. ASSUME NEW i \in Login!Slots, ses'[i].tok # 0, ses'[i].left # 0, ses'[i].seq \notin s11', NEW tok \in s11'
        PROVE  ses'[i].seq < tok
    <3>1. CASE i = v
      <4>1. n \notin s11'
        BY <3>1, <2>3, <1>4, <1>5
      <4>2. PICK u \in s11 \cup {n} : u \notin s11' /\ Login!Newest(s11 \cup {n}) # s11 \cup {n}
        BY <4>1, <1>2
      <4>3. s11' = {t \in s11 \cup {n} : \E w \in s11 \cup {n} : w < t}
        BY <4>2, <1>2 DEF Login!Newest
      <4>4. tok \in s11 /\ tok < n
        BY <4>1, <2>3, <1>3, <1>10
      <4>5. n \in s11'
        BY <4>3, <4>4
      <4> QED  BY <4>1, <4>5
    <3>2. CASE i # v
      <4>1. ses'[i] = ses[i] /\ ses[i].seq \in Nat /\ ses[i].tok \in Nat
        BY <3>2, <1>3, <1>5 DEF Login!Sessions
      <4>2. CASE ses[i].seq \in s11
        <5>1. ses[i].seq \notin s11' /\ ses[i].seq \in s11 \cup {n}
          BY <4>1, <4>2, <2>3
        <5>2. s11' = {t \in s11 \cup {n} : \E w \in s11 \cup {n} : w < t}
          BY <5>1, <1>2 DEF Login!Newest
        <5>3. PICK w \in s11 \cup {n} : w < tok
          BY <5>2, <2>3
        <5>4. ~ (w < ses[i].seq)
          BY <5>1, <5>2
        <5>5. w \in Nat /\ tok \in Nat
          BY <1>3, <1>4, <1>10, <2>3
        <5> QED  BY <4>1, <5>3, <5>4, <5>5
      <4>3. CASE ses[i].seq \notin s11
        <5>1. \A t \in s11 : ses[i].seq < t
          BY <4>1, <4>3, <2>3 DEF Login!LoginInv, Login!Newer
        <5>2. ses[i].seq < n
          BY <4>1, <1>3
        <5> QED  BY <4>1, <5>1, <5>2, <2>3, <1>10
      <4> QED  BY <4>2, <4>3
    <3> QED  BY <3>1, <3>2
  <2> QED  BY <2>1, <2>2, <2>3 DEF Login!Newer, Login!Live
<1>14. Login!OfPassword'
  <2> SUFFICES ASSUME s8'.pc # "committed", ~ s12', NEW i \in Login!Slots
               PROVE  /\ ses'[i].tok # 0 => ses'[i].pw = s7
                      /\ clock'[i].tok # 0 => clock'[i].pw = s7
    BY DEF Login!OfPassword
  <2>1. /\ ses[i].tok # 0 => ses[i].pw = s7
        /\ clock[i].tok # 0 => clock[i].pw = s7
    BY DEF Login!LoginInv, Login!OfPassword
  <2> QED  BY <2>1, <1>4, <1>5, <1>7, LoginNames
<1> QED  BY <1>9, <1>13, <1>14 DEF Login!LoginInv

LEMMA LoginLogsIn ==
  ASSUME Login!LoginInv, NEW right \in BOOLEAN, Login!LoginWith(right), UNCHANGED <<now, s7>>, UNCHANGED s12,
         s8' \in Login!Changes, s8'.pc = "committed" <=> s8.pc = "committed"
  PROVE  Login!LoginInv'
<1>1. CASE Login!Accepted
  BY <1>1, LoginAccepts
<1>2. CASE UNCHANGED <<ses, clock, s9, s10, s11>>
  BY <1>2, LoginAside
<1> QED  BY <1>1, <1>2 DEF Login!LoginWith, Login!LockedOut, Login!Refused

LEMMA LoginTicks ==
  ASSUME Login!LoginInv, Login!Tick
  PROVE  Login!LoginInv'
<1>1. /\ ses' = [i \in Login!Slots |-> Login!Older(ses[i])] /\ clock' = [i \in Login!Slots |-> Login!Older(clock[i])]
      /\ s11' = s11 \ Login!Expired(ses')
      /\ UNCHANGED <<now, s7, s8, s9, s10, s12>>
  BY DEF Login!Tick
<1>2. ASSUME NEW s \in Login!Sessions
      PROVE  /\ Login!Older(s) \in Login!Sessions /\ Login!Older(s).tok = s.tok
             /\ Login!Older(s).seq = s.seq /\ Login!Older(s).pw = s.pw
             /\ s.left = 0 => Login!Older(s).left = 0
             /\ Login!Live(s) /\ Login!Older(s).left # 0 => Login!Live(Login!Older(s))
  <2>1. CASE s.left \in 1 .. WA_TTL_S
    <3>1. s.left - 1 \in 0 .. Login!Forever
      BY <2>1, LoginNames
    <3>2. Login!Older(s) = [s EXCEPT !.left = s.left - 1]
      BY <2>1 DEF Login!Older
    <3>3. /\ Login!Older(s) \in Login!Sessions /\ Login!Older(s).tok = s.tok /\ Login!Older(s).left = s.left - 1
          /\ Login!Older(s).seq = s.seq /\ Login!Older(s).pw = s.pw
      BY <3>1, <3>2 DEF Login!Sessions
    <3>4. s.left # Login!Forever /\ s.left # 0
      BY <2>1, LoginNames
    <3>5. Login!Live(s) => now
      BY <3>4 DEF Login!Live
    <3>6. s.left - 1 # 0 => s.left - 1 > 0
      BY <2>1
    <3>7. Login!Live(s) /\ Login!Older(s).left # 0 => Login!Live(Login!Older(s))
      BY <3>3, <3>4, <3>5, <3>6 DEF Login!Live, Login!LoginInv, Login!Numbered
    <3> QED  BY <3>3, <3>4, <3>7
  <2>2. CASE s.left \notin 1 .. WA_TTL_S
    BY <2>2 DEF Login!Older
  <2> QED  BY <2>1, <2>2
<1>3. /\ ses \in [Login!Slots -> Login!Sessions] /\ clock \in [Login!Slots -> Login!Sessions]
      /\ s11 \subseteq 1 .. s9
  BY DEF Login!LoginInv, Login!Numbered, Login!Unique, Login!Newer
<1>4. /\ ses' \in [Login!Slots -> Login!Sessions] /\ clock' \in [Login!Slots -> Login!Sessions]
      /\ \A i \in Login!Slots :
           /\ ses'[i] = Login!Older(ses[i]) /\ ses'[i].tok = ses[i].tok /\ ses'[i].seq = ses[i].seq
           /\ ses'[i].pw = ses[i].pw /\ (ses[i].left = 0 => ses'[i].left = 0)
           /\ (Login!Live(ses[i]) /\ ses'[i].left # 0 => Login!Live(ses'[i]))
           /\ clock'[i].tok = clock[i].tok /\ clock'[i].pw = clock[i].pw
  <2>1. ASSUME NEW i \in Login!Slots
        PROVE  /\ ses[i] \in Login!Sessions /\ ses'[i] = Login!Older(ses[i])
               /\ clock[i] \in Login!Sessions /\ clock'[i] = Login!Older(clock[i])
    BY <1>1, <1>3
  <2>2. ASSUME NEW i \in Login!Slots
        PROVE  /\ ses'[i] \in Login!Sessions /\ ses'[i].tok = ses[i].tok /\ ses'[i].seq = ses[i].seq
               /\ ses'[i].pw = ses[i].pw /\ (ses[i].left = 0 => ses'[i].left = 0)
               /\ (Login!Live(ses[i]) /\ ses'[i].left # 0 => Login!Live(ses'[i]))
    BY <1>2, <2>1
  <2>3. ASSUME NEW i \in Login!Slots
        PROVE  clock'[i] \in Login!Sessions /\ clock'[i].tok = clock[i].tok /\ clock'[i].pw = clock[i].pw
    BY <1>2, <2>1
  <2>4. ses' \in [Login!Slots -> Login!Sessions] /\ clock' \in [Login!Slots -> Login!Sessions]
    BY <1>1, <2>2, <2>3
  <2> QED  BY <2>1, <2>2, <2>3, <2>4
<1>5. Login!Numbered'
  <2>1. Login!Unique(ses) /\ Login!Unique(clock) /\ \A i \in Login!Slots : ses[i].seq \in {0, ses[i].tok}
    BY DEF Login!LoginInv, Login!Numbered
  <2>2. Login!Unique(ses)' /\ Login!Unique(clock)'
    BY <1>1, <1>4, <2>1 DEF Login!Unique
  <2>3. \A i \in Login!Slots : ses'[i].seq \in {0, ses'[i].tok}
    BY <1>4, <2>1
  <2> QED  BY <1>1, <2>2, <2>3 DEF Login!LoginInv, Login!Numbered
<1>6. Login!Newer'
  <2>1. s11' \subseteq 1 .. s9' /\ s11' \subseteq s11
    BY <1>1, <1>3
  <2>2. ASSUME NEW tok \in s11'
        PROVE  \E i \in Login!Slots : ses'[i].tok = tok /\ ses'[i].seq = tok /\ Login!Live(ses'[i])
    <3>1. PICK i \in Login!Slots : ses[i].tok = tok /\ ses[i].seq = tok /\ Login!Live(ses[i])
      BY <2>1 DEF Login!LoginInv, Login!Newer
    <3>2. ses'[i].left # 0
      BY <3>1, <1>1, <1>4, <2>2 DEF Login!Expired
    <3> QED  BY <3>1, <3>2, <1>4
  <2>3. ASSUME NEW i \in Login!Slots, ses'[i].tok # 0, ses'[i].left # 0, ses'[i].seq \notin s11', NEW tok \in s11'
        PROVE  ses'[i].seq < tok
    <3>1. ses[i].tok # 0 /\ ses[i].left # 0 /\ ses'[i].seq = ses[i].seq
      BY <1>4, <2>3
    <3>2. ses[i].seq \notin s11
      <4> SUFFICES ASSUME ses[i].seq \in s11 PROVE FALSE
        OBVIOUS
      <4>1. ses[i].seq = ses[i].tok /\ ses[i].tok \in Login!Expired(ses')
        BY <3>1, <2>3, <1>1, <1>3 DEF Login!LoginInv, Login!Numbered
      <4>2. PICK j \in Login!Slots : ses'[j].left = 0 /\ ses'[j].tok = ses[i].tok
        BY <4>1 DEF Login!Expired
      <4>3. j = i
        BY <4>2, <3>1, <1>4 DEF Login!LoginInv, Login!Numbered, Login!Unique
      <4> QED  BY <4>2, <4>3, <2>3
    <3> QED  BY <3>1, <3>2, <2>1, <2>3 DEF Login!LoginInv, Login!Newer
  <2>4. now' = now
    BY <1>1
  <2> QED  BY <2>1, <2>2, <2>3, <2>4 DEF Login!Newer, Login!Live
<1>7. Login!OfPassword'
  BY <1>1, <1>4 DEF Login!LoginInv, Login!OfPassword
<1> QED  BY <1>5, <1>6, <1>7 DEF Login!LoginInv

LEMMA LoginResets ==
  ASSUME Login!LoginInv, Login!Reset
  PROVE  Login!LoginInv'
<1>1. /\ ses' = [i \in Login!Slots |-> IF clock[i].left = 0 THEN Login!NoSess ELSE [clock[i] EXCEPT !.seq = 0]]
      /\ now' = FALSE /\ s8' = Login!NoChange /\ s11' = {} /\ s12' = (s12 \/ s8.pc = "committed")
      /\ UNCHANGED <<clock, s7, s9>> /\ Login!Fault
  BY DEF Login!Reset
<1>2. /\ clock \in [Login!Slots -> Login!Sessions] /\ s7 \in Nat /\ s9 \in Nat
      /\ \A i \in Login!Slots : clock[i].tok <= s9
      /\ \A i, j \in Login!Slots : clock[i].tok = clock[j].tok /\ i # j => clock[i].tok = 0
  BY DEF Login!LoginInv, Login!Numbered, Login!Unique
<1>3. \A s \in Login!Sessions : /\ [s EXCEPT !.seq = 0] \in Login!Sessions /\ [s EXCEPT !.seq = 0].seq = 0
                                /\ [s EXCEPT !.seq = 0].tok = s.tok /\ [s EXCEPT !.seq = 0].pw = s.pw
  <2>1. 0 \in Nat
    OBVIOUS
  <2> QED  BY <2>1 DEF Login!Sessions
<1>4. /\ ses' \in [Login!Slots -> Login!Sessions]
      /\ \A i \in Login!Slots : /\ ses'[i].seq = 0 /\ ses'[i].tok \in {0, clock[i].tok}
                                /\ ses'[i].tok # 0 => ses'[i].pw = clock[i].pw
  BY <1>1, <1>2, <1>3, LoginNames
<1>5. s8' \in Login!Changes
  BY <1>1 DEF Login!NoChange, Login!Changes
<1>6. Login!Numbered'
  <2>1. s10' \in Nat
    BY <1>1, LoginFaults
  <2>2. \A i \in Login!Slots : ses'[i].tok <= s9 /\ ses'[i].seq \in {0, ses'[i].tok}
    BY <1>2, <1>4
  <2>3. ASSUME NEW i \in Login!Slots, NEW j \in Login!Slots, ses'[i].tok = ses'[j].tok, i # j PROVE ses'[i].tok = 0
    BY <2>3, <1>2, <1>4
  <2>4. now' \in BOOLEAN
    BY <1>1
  <2> QED  BY <2>1, <2>2, <2>3, <2>4, <1>1, <1>2, <1>4, <1>5 DEF Login!Numbered, Login!Unique
<1>7. Login!Newer'
  BY <1>1 DEF Login!Newer
<1>8. Login!OfPassword'
  <2> SUFFICES ASSUME ~ s12', NEW i \in Login!Slots
               PROVE  /\ ses'[i].tok # 0 => ses'[i].pw = s7
                      /\ clock[i].tok # 0 => clock[i].pw = s7
    BY <1>1 DEF Login!OfPassword
  <2>1. s8.pc # "committed" /\ ~ s12
    BY <1>1
  <2>2. clock[i].tok # 0 => clock[i].pw = s7
    BY <2>1 DEF Login!LoginInv, Login!OfPassword
  <2> QED  BY <2>2, <1>4
<1> QED  BY <1>6, <1>7, <1>8 DEF Login!LoginInv

LEMMA LoginSteps == Login!LoginInv /\ (Login!Next \/ UNCHANGED slots) => Login!LoginInv'
<1> SUFFICES ASSUME Login!LoginInv, Login!Next \/ UNCHANGED slots PROVE Login!LoginInv'
  OBVIOUS
<1>1. CASE UNCHANGED slots
  <2>1. UNCHANGED <<now, ses, clock, s7, s9, s11>> /\ UNCHANGED <<s8, s10, s12>>
    BY <1>1 DEF slots
  <2> QED  BY <2>1, LoginAside, LoginChanging
<1>2. CASE \E right \in BOOLEAN : Login!Login(right)
  <2>1. PICK right \in BOOLEAN : Login!LoginWith(right) /\ UNCHANGED <<now, s7>> /\ UNCHANGED <<s8, s12>>
    BY <1>2 DEF Login!Login
  <2> QED  BY <2>1, LoginLogsIn, LoginChanging
<1>3. CASE Login!Relogin
  <2>1. /\ Login!LoginWith(TRUE) /\ UNCHANGED <<now, s7>> /\ UNCHANGED s12 /\ s8.pc = "dropped"
        /\ s8' \in Login!Changes /\ s8'.pc = "none" /\ TRUE \in BOOLEAN
    BY <1>3 DEF Login!Relogin, Login!NoChange, Login!Changes
  <2> QED  BY <2>1, LoginLogsIn
<1>4. CASE \E i \in Login!Slots : Login!Logout(i)
  BY <1>4, LoginLogsOut
<1>5. CASE (\E web \in BOOLEAN : Login!StartChange(web)) \/ Login!Commit \/ Login!ClockSet
  BY <1>5, LoginBegins
<1>6. CASE Login!Drop
  BY <1>6, LoginDrops
<1>7. CASE Login!Tick
  BY <1>7, LoginTicks
<1>8. CASE Login!Reset
  BY <1>8, LoginResets
<1> QED  BY <1>1, <1>2, <1>3, <1>4, <1>5, <1>6, <1>7, <1>8 DEF Login!Next

LEMMA LoginMeans == Login!LoginInv => Login!RecentLoginsHold /\ Login!OldCookiesDie
BY DEF Login!LoginInv, Login!Newer, Login!OfPassword, Login!RecentLoginsHold, Login!OldCookiesDie, Login!Present, Login!Live

-----------------------------------------------------------------------------
(* MasterEdit.  Its variables are the slots now to s13.                     *)

LEMMA EditStarts == MEditor!Init => MEditor!EditInv
<1> SUFFICES ASSUME MEditor!Init PROVE MEditor!EditInv
  OBVIOUS
<1>1. /\ s7 = <<>> /\ s6 = [saving |-> FALSE, ui |-> FALSE, kept |-> FALSE]
      /\ s10 = [open |-> FALSE, redraw |-> FALSE, nav |-> FALSE]
      /\ s11 = [now |-> FALSE, wiped |-> FALSE, catcher |-> FALSE]
  BY DEF MEditor!Init
<1>2. s7 \in Seq(MEditor!Jobs)
  BY <1>1
<1> QED  BY <1>1, <1>2 DEF MEditor!EditInv, MEditor!Formed, MEditor!SavingHasJob, MEditor!WipedClean

LEMMA EditTaps == MEditor!EditInv /\ MEditor!Tap =>
                    s11' \in [now : BOOLEAN, wiped : BOOLEAN, catcher : BOOLEAN] /\ ~ s11'.now
<1> SUFFICES ASSUME MEditor!EditInv, MEditor!Tap
             PROVE  s11' \in [now : BOOLEAN, wiped : BOOLEAN, catcher : BOOLEAN] /\ ~ s11'.now
  OBVIOUS
<1>1. s11 \in [now : BOOLEAN, wiped : BOOLEAN, catcher : BOOLEAN] /\ s11' = [s11 EXCEPT !.now = FALSE] /\ FALSE \in BOOLEAN
  BY DEF MEditor!EditInv, MEditor!Formed, MEditor!Tap
<1> QED  BY <1>1

(* A tap that adds no job and moves no save. *)
LEMMA EditTouches ==
  ASSUME MEditor!EditInv, MEditor!Tap, UNCHANGED <<s6, s7>>,
         s10' \in [open : BOOLEAN, redraw : BOOLEAN, nav : BOOLEAN]
  PROVE  MEditor!EditInv'
<1>1. s11' \in [now : BOOLEAN, wiped : BOOLEAN, catcher : BOOLEAN] /\ ~ s11'.now
  BY EditTaps
<1> QED  BY <1>1 DEF MEditor!EditInv, MEditor!Formed, MEditor!SavingHasJob, MEditor!WipedClean

LEMMA EditAppends ==
  ASSUME MEditor!EditInv, NEW k \in {"save", "import"},
         s7' = Append(s7, [kind |-> k, live |-> TRUE, ran |-> FALSE, ok |-> FALSE])
  PROVE  /\ s7' \in Seq(MEditor!Jobs)
         /\ k = "save" => \E i \in DOMAIN s7' : s7'[i].kind = "save"
         /\ (\E i \in DOMAIN s7 : s7[i].kind = "save") => \E i \in DOMAIN s7' : s7'[i].kind = "save"
<1> DEFINE j == [kind |-> k, live |-> TRUE, ran |-> FALSE, ok |-> FALSE]
<1>1. j \in MEditor!Jobs /\ j.kind = k
  BY DEF MEditor!Jobs
<1>2. s7 \in Seq(MEditor!Jobs) /\ s7' = Append(s7, j)
  BY DEF MEditor!EditInv, MEditor!Formed
<1> HIDE DEF j
<1>3. /\ s7' \in Seq(MEditor!Jobs) /\ DOMAIN s7' = 1 .. Len(s7) + 1 /\ s7'[Len(s7) + 1] = j
      /\ DOMAIN s7 = 1 .. Len(s7) /\ Len(s7) \in Nat /\ \A i \in DOMAIN s7 : s7'[i] = s7[i]
  BY <1>1, <1>2
<1>4. Len(s7) + 1 \in DOMAIN s7' /\ \A i \in DOMAIN s7 : i \in DOMAIN s7'
  BY <1>3
<1> QED  BY <1>1, <1>3, <1>4

LEMMA EditSubmits ==
  ASSUME MEditor!EditInv, MEditor!Tap, MEditor!Submit, UNCHANGED s10
  PROVE  MEditor!EditInv'
<1>1. s11' \in [now : BOOLEAN, wiped : BOOLEAN, catcher : BOOLEAN] /\ ~ s11'.now
  BY EditTaps
<1>2. s7' \in Seq(MEditor!Jobs) /\ \E i \in DOMAIN s7' : s7'[i].kind = "save"
  BY EditAppends DEF MEditor!Submit
<1>3. s6' \in [saving : BOOLEAN, ui : BOOLEAN, kept : BOOLEAN] /\ s10 \in [open : BOOLEAN, redraw : BOOLEAN, nav : BOOLEAN]
  BY DEF MEditor!Submit, MEditor!EditInv, MEditor!Formed
<1> QED  BY <1>1, <1>2, <1>3 DEF MEditor!EditInv, MEditor!Formed, MEditor!SavingHasJob, MEditor!WipedClean

LEMMA EditKindsKept ==
  ASSUME MEditor!EditInv, s7' \in Seq(MEditor!Jobs), DOMAIN s7' = DOMAIN s7,
         \A i \in DOMAIN s7 : s7'[i].kind = s7[i].kind
  PROVE  (\E i \in DOMAIN s7 : s7[i].kind = "save") => \E i \in DOMAIN s7' : s7'[i].kind = "save"
OBVIOUS

LEMMA EditCloses ==
  ASSUME MEditor!EditInv, MEditor!Close
  PROVE  /\ s7' \in Seq(MEditor!Jobs) /\ (s7 = <<>> => s7' = <<>>)
         /\ (\E i \in DOMAIN s7 : s7[i].kind = "save") => \E i \in DOMAIN s7' : s7'[i].kind = "save"
         /\ s10' \in [open : BOOLEAN, redraw : BOOLEAN, nav : BOOLEAN] /\ ~ s10'.open
<1>1. s7 \in Seq(MEditor!Jobs) /\ s7' = [i \in DOMAIN s7 |-> [s7[i] EXCEPT !.live = FALSE]]
  BY DEF MEditor!Close, MEditor!EditInv, MEditor!Formed
<1>2. \A j \in MEditor!Jobs : [j EXCEPT !.live = FALSE] \in MEditor!Jobs /\ [j EXCEPT !.live = FALSE].kind = j.kind
  BY DEF MEditor!Jobs
<1>3. Len(s7) \in Nat /\ DOMAIN s7 = 1 .. Len(s7) /\ \A i \in DOMAIN s7 : s7[i] \in MEditor!Jobs
  BY <1>1
<1>4. DOMAIN s7' = DOMAIN s7 /\ \A i \in DOMAIN s7 : s7'[i] \in MEditor!Jobs /\ s7'[i].kind = s7[i].kind
  BY <1>1, <1>2, <1>3
<1>5. s7' \in Seq(MEditor!Jobs)
  <2>1. s7' = [i \in 1 .. Len(s7) |-> [s7[i] EXCEPT !.live = FALSE]]
    BY <1>1, <1>3
  <2>2. \A i \in 1 .. Len(s7) : [s7[i] EXCEPT !.live = FALSE] \in MEditor!Jobs
    BY <1>2, <1>3
  <2> QED  BY <2>1, <2>2, <1>3
<1>6. s7 = <<>> => s7' = <<>>
  BY <1>4, <1>5
<1>7. s10' \in [open : BOOLEAN, redraw : BOOLEAN, nav : BOOLEAN] /\ ~ s10'.open
  BY DEF MEditor!Close
<1> QED  BY <1>4, <1>5, <1>6, <1>7, EditKindsKept

LEMMA EditOperates == MEditor!EditInv /\ MEditor!Operator => MEditor!EditInv'
<1> SUFFICES ASSUME MEditor!EditInv, MEditor!Operator PROVE MEditor!EditInv'
  OBVIOUS
<1>1. /\ s10 \in [open : BOOLEAN, redraw : BOOLEAN, nav : BOOLEAN] /\ s6 \in [saving : BOOLEAN, ui : BOOLEAN, kept : BOOLEAN]
      /\ s7 \in Seq(MEditor!Jobs)
  BY DEF MEditor!EditInv, MEditor!Formed
<1>2. CASE \/ MEditor!Reveal
           \/ MEditor!Eye
           \/ MEditor!Finish
           \/ MEditor!DontSave
           \/ MEditor!AskImport
           \/ \E f \in MEditor!Fields : MEditor!OpenKb(f)
  <2>1. MEditor!Tap /\ UNCHANGED <<s6, s7>> /\ UNCHANGED s10
    BY <1>2 DEF MEditor!Reveal, MEditor!Eye, MEditor!Finish, MEditor!DontSave, MEditor!AskImport, MEditor!OpenKb
  <2> QED  BY <2>1, <1>1, EditTouches
<1>3. CASE MEditor!Save \/ MEditor!SaveAnyway
  <2>1. MEditor!Tap /\ UNCHANGED s10 /\ (UNCHANGED <<s6, s7>> \/ MEditor!Submit)
    BY <1>3 DEF MEditor!Save, MEditor!SaveAnyway
  <2> QED  BY <2>1, <1>1, EditTouches, EditSubmits
<1>4. CASE MEditor!ImportAnswer
  <2>1. MEditor!Tap /\ UNCHANGED <<s6, s10>>
    BY <1>4 DEF MEditor!ImportAnswer
  <2>2. CASE s7' = s7
    BY <2>1, <2>2, <1>1, EditTouches
  <2>3. CASE s7' = Append(s7, [kind |-> "import", live |-> TRUE, ran |-> FALSE, ok |-> FALSE])
    <3>1. /\ s7' \in Seq(MEditor!Jobs)
          /\ (\E i \in DOMAIN s7 : s7[i].kind = "save") => \E i \in DOMAIN s7' : s7'[i].kind = "save"
      BY <2>3, EditAppends
    <3>2. s11' \in [now : BOOLEAN, wiped : BOOLEAN, catcher : BOOLEAN] /\ ~ s11'.now
      BY <2>1, EditTaps
    <3> QED  BY <2>1, <3>1, <3>2, <1>1 DEF MEditor!EditInv, MEditor!Formed, MEditor!SavingHasJob, MEditor!WipedClean
  <2> QED  BY <1>4, <2>2, <2>3 DEF MEditor!ImportAnswer
<1>5. CASE MEditor!Open
  <2> DEFINE x == s6.saving
             y == s6.kept /\ s6.saving
  <2>1. /\ MEditor!Tap /\ UNCHANGED s7 /\ s10' = [open |-> TRUE, redraw |-> FALSE, nav |-> FALSE]
        /\ s6' = [s6 EXCEPT !.ui = x, !.kept = y]
    BY <1>5 DEF MEditor!Open
  <2>2. x \in BOOLEAN /\ y \in BOOLEAN
    BY <1>1
  <2> HIDE DEF x, y
  <2>3. s6' \in [saving : BOOLEAN, ui : BOOLEAN, kept : BOOLEAN] /\ s6'.saving = s6.saving
    BY <2>1, <2>2, <1>1
  <2>4. s10' \in [open : BOOLEAN, redraw : BOOLEAN, nav : BOOLEAN]
    BY <2>1
  <2>5. s11' \in [now : BOOLEAN, wiped : BOOLEAN, catcher : BOOLEAN] /\ ~ s11'.now
    BY <2>1, EditTaps
  <2> QED  BY <2>1, <2>3, <2>4, <2>5, <1>1 DEF MEditor!EditInv, MEditor!Formed, MEditor!SavingHasJob, MEditor!WipedClean
<1>6. CASE MEditor!Leave
  <2>1. MEditor!Tap /\ MEditor!Close /\ UNCHANGED s6
    BY <1>6 DEF MEditor!Leave
  <2>2. s11' \in [now : BOOLEAN, wiped : BOOLEAN, catcher : BOOLEAN] /\ ~ s11'.now
    BY <2>1, EditTaps
  <2> QED  BY <2>1, <2>2, <1>1, EditCloses DEF MEditor!EditInv, MEditor!Formed, MEditor!SavingHasJob, MEditor!WipedClean
<1> QED  BY <1>2, <1>3, <1>4, <1>5, <1>6 DEF MEditor!Operator

LEMMA EditRuns ==
  ASSUME MEditor!EditInv, MEditor!Run
  PROVE  MEditor!EditInv'
<1>1. PICK i \in DOMAIN s7, ok \in BOOLEAN : s7' = [s7 EXCEPT ![i].ran = TRUE, ![i].ok = ok]
  BY DEF MEditor!Run
<1>2. s7 \in Seq(MEditor!Jobs) /\ UNCHANGED <<s6, s10, s11>>
  BY DEF MEditor!EditInv, MEditor!Formed, MEditor!Run
<1> DEFINE j == [s7[i] EXCEPT !.ran = TRUE, !.ok = ok]
<1>3. s7[i] \in MEditor!Jobs
  BY <1>2
<1>4. j \in MEditor!Jobs /\ j.kind = s7[i].kind
  BY <1>3 DEF MEditor!Jobs
<1>5. s7' = [s7 EXCEPT ![i] = j]
  BY <1>1, <1>2, <1>3 DEF MEditor!Jobs
<1> HIDE DEF j
<1>6. /\ s7' \in Seq(MEditor!Jobs) /\ DOMAIN s7' = DOMAIN s7
      /\ \A k \in DOMAIN s7 : s7'[k].kind = s7[k].kind
  BY <1>2, <1>4, <1>5
<1>7. ~ (s11.now /\ s11.wiped)
  <2>1. s7 # <<>>
    OBVIOUS
  <2> QED  BY <2>1 DEF MEditor!EditInv, MEditor!WipedClean
<1> QED  BY <1>2, <1>6, <1>7, EditKindsKept DEF MEditor!EditInv, MEditor!Formed, MEditor!SavingHasJob, MEditor!WipedClean

LEMMA EditRerenders ==
  ASSUME MEditor!EditInv
  PROVE  MEditor!Rerender(s10) \in [open : BOOLEAN, redraw : BOOLEAN, nav : BOOLEAN]
<1>1. s10 \in [open : BOOLEAN, redraw : BOOLEAN, nav : BOOLEAN] /\ TRUE \in BOOLEAN /\ FALSE \in BOOLEAN
  BY DEF MEditor!EditInv, MEditor!Formed
<1> QED  BY <1>1 DEF MEditor!Rerender

LEMMA EditSaved ==
  ASSUME MEditor!EditInv, MEditor!SaveDone
  PROVE  MEditor!EditInv'
<1> DEFINE ok == Head(s7).ok
           live == Head(s7).live /\ s10.open
           r == s10.redraw \/ (ok /\ s10.open)
<1>1. /\ s7 # <<>> /\ s7' = Tail(s7)
      /\ s6' = IF live THEN [saving |-> FALSE, ui |-> FALSE, kept |-> FALSE]
               ELSE [s6 EXCEPT !.saving = FALSE, !.kept = TRUE]
      /\ s10' = IF live THEN MEditor!Rerender(s10) ELSE [s10 EXCEPT !.redraw = r]
      /\ UNCHANGED s11
  BY DEF MEditor!SaveDone
<1>2. s7 \in Seq(MEditor!Jobs) /\ s6 \in [saving : BOOLEAN, ui : BOOLEAN, kept : BOOLEAN]
      /\ s10 \in [open : BOOLEAN, redraw : BOOLEAN, nav : BOOLEAN] /\ TRUE \in BOOLEAN /\ FALSE \in BOOLEAN
  BY DEF MEditor!EditInv, MEditor!Formed
<1>3. s7' \in Seq(MEditor!Jobs)
  BY <1>1, <1>2
<1>4. s6' \in [saving : BOOLEAN, ui : BOOLEAN, kept : BOOLEAN] /\ ~ s6'.saving
  <2> HIDE DEF live
  <2>1. CASE live
    BY <2>1, <1>1
  <2>2. CASE ~ live
    BY <2>2, <1>1, <1>2
  <2> QED  BY <2>1, <2>2
<1>5. s10' \in [open : BOOLEAN, redraw : BOOLEAN, nav : BOOLEAN]
  <2>1. r \in BOOLEAN
    OBVIOUS
  <2> HIDE DEF live, r
  <2> QED  BY <2>1, <1>1, <1>2, EditRerenders
<1>6. ~ (s11.now /\ s11.wiped)
  BY <1>1 DEF MEditor!EditInv, MEditor!WipedClean
<1> QED  BY <1>1, <1>3, <1>4, <1>5, <1>6 DEF MEditor!EditInv, MEditor!Formed, MEditor!SavingHasJob, MEditor!WipedClean

LEMMA EditImported ==
  ASSUME MEditor!EditInv, MEditor!ImportDone
  PROVE  MEditor!EditInv'
<1> DEFINE r == s10.redraw \/ (Head(s7).ok /\ s10.open)
<1>1. /\ s7 # <<>> /\ s7' = Tail(s7) /\ Head(s7).kind = "import"
      /\ s10' = [s10 EXCEPT !.redraw = r]
      /\ UNCHANGED <<s6, s11>>
  BY DEF MEditor!ImportDone
<1>2. s7 \in Seq(MEditor!Jobs) /\ s10 \in [open : BOOLEAN, redraw : BOOLEAN, nav : BOOLEAN]
  BY DEF MEditor!EditInv, MEditor!Formed
<1>3. /\ s7' \in Seq(MEditor!Jobs) /\ Len(s7) \in Nat /\ DOMAIN s7 = 1 .. Len(s7) /\ DOMAIN s7' = 1 .. Len(s7) - 1
      /\ s7[1].kind = "import" /\ \A i \in 1 .. Len(s7) - 1 : s7'[i] = s7[i + 1]
  BY <1>1, <1>2
<1>4. (\E i \in DOMAIN s7 : s7[i].kind = "save") => \E i \in DOMAIN s7' : s7'[i].kind = "save"
  <2> SUFFICES ASSUME NEW i \in DOMAIN s7, s7[i].kind = "save" PROVE \E k \in DOMAIN s7' : s7'[k].kind = "save"
    OBVIOUS
  <2>1. i # 1
    BY <1>3
  <2>2. i - 1 \in 1 .. Len(s7) - 1 /\ (i - 1) + 1 = i
    BY <2>1, <1>3
  <2> QED  BY <2>2, <1>3
<1>5. s10' \in [open : BOOLEAN, redraw : BOOLEAN, nav : BOOLEAN]
  <2>1. r \in BOOLEAN
    OBVIOUS
  <2> HIDE DEF r
  <2> QED  BY <2>1, <1>1, <1>2
<1>6. ~ (s11.now /\ s11.wiped)
  BY <1>1 DEF MEditor!EditInv, MEditor!WipedClean
<1> QED  BY <1>1, <1>3, <1>4, <1>5, <1>6 DEF MEditor!EditInv, MEditor!Formed, MEditor!SavingHasJob, MEditor!WipedClean

LEMMA EditPasses ==
  ASSUME MEditor!EditInv, \/ MEditor!RowRemask
                          \/ MEditor!KbRemask
                          \/ MEditor!GrowsIdle
                          \/ MEditor!Wake
                          \/ MEditor!Update
                          \/ UNCHANGED slots
  PROVE  MEditor!EditInv'
<1>1. /\ s10 \in [open : BOOLEAN, redraw : BOOLEAN, nav : BOOLEAN] /\ s6 \in [saving : BOOLEAN, ui : BOOLEAN, kept : BOOLEAN]
      /\ s7 \in Seq(MEditor!Jobs) /\ s11 \in [now : BOOLEAN, wiped : BOOLEAN, catcher : BOOLEAN]
      /\ TRUE \in BOOLEAN /\ FALSE \in BOOLEAN
  BY DEF MEditor!EditInv, MEditor!Formed
<1>2. CASE MEditor!RowRemask
  BY <1>2, <1>1 DEF MEditor!RowRemask, MEditor!EditInv, MEditor!Formed, MEditor!SavingHasJob, MEditor!WipedClean
<1>3. CASE MEditor!KbRemask
  <2>1. s9 # MEditor!NoKb /\ UNCHANGED <<s6, s7, s10, s11>>
    BY <1>3 DEF MEditor!KbRemask, MEditor!NoKb
  <2> QED  BY <2>1, <1>1 DEF MEditor!EditInv, MEditor!Formed, MEditor!SavingHasJob, MEditor!WipedClean
<1>4. CASE MEditor!GrowsIdle
  <2>1. ~ s11.wiped /\ s11' = [s11 EXCEPT !.now = TRUE] /\ UNCHANGED <<s6, s7, s10>>
    BY <1>4 DEF MEditor!GrowsIdle
  <2>2. s11' \in [now : BOOLEAN, wiped : BOOLEAN, catcher : BOOLEAN] /\ ~ s11'.wiped
    BY <2>1, <1>1
  <2> QED  BY <2>1, <2>2, <1>1 DEF MEditor!EditInv, MEditor!Formed, MEditor!SavingHasJob, MEditor!WipedClean
<1>5. CASE MEditor!Wake
  <2>1. s11' = [s11 EXCEPT !.now = FALSE, !.catcher = FALSE] /\ UNCHANGED <<s6, s7, s10>>
    BY <1>5 DEF MEditor!Wake
  <2>2. s11' \in [now : BOOLEAN, wiped : BOOLEAN, catcher : BOOLEAN] /\ ~ s11'.now
    BY <2>1, <1>1
  <2> QED  BY <2>1, <2>2, <1>1 DEF MEditor!EditInv, MEditor!Formed, MEditor!SavingHasJob, MEditor!WipedClean
<1>6. CASE MEditor!Update
  <2> DEFINE x == s6.saving
             y == s6.kept /\ s6.saving
  <2>1. /\ s10.open /\ ~ s10.nav /\ UNCHANGED <<s7, s11>> /\ s10' = MEditor!Rerender(s10)
        /\ s6' = s6 \/ s6' = [s6 EXCEPT !.ui = x, !.kept = y]
    BY <1>6 DEF MEditor!Update
  <2>2. x \in BOOLEAN /\ y \in BOOLEAN
    BY <1>1
  <2> HIDE DEF x, y
  <2>3. s6' \in [saving : BOOLEAN, ui : BOOLEAN, kept : BOOLEAN] /\ s6'.saving = s6.saving
    BY <2>1, <2>2, <1>1
  <2>4. ~ (s11.now /\ s11.wiped)
    BY <2>1 DEF MEditor!EditInv, MEditor!WipedClean
  <2> QED  BY <2>1, <2>3, <2>4, <1>1, EditRerenders
           DEF MEditor!EditInv, MEditor!Formed, MEditor!SavingHasJob, MEditor!WipedClean
<1>7. CASE UNCHANGED slots
  <2>1. UNCHANGED <<ses, clock, last, seen, s6, s7, s8, s9, s10, s11>>
    BY <1>7 DEF slots
  <2> QED  BY <2>1 DEF MEditor!EditInv, MEditor!Formed, MEditor!SavingHasJob, MEditor!WipedClean
<1> QED  BY <1>2, <1>3, <1>4, <1>5, <1>6, <1>7

LEMMA EditGoesHome ==
  ASSUME MEditor!EditInv, MEditor!GoHome
  PROVE  MEditor!EditInv'
<1>1. /\ s10.nav /\ MEditor!Close /\ UNCHANGED <<ses, s6, s11>>
      /\ last' = "none" /\ ~ seen' /\ s8' = MEditor!Masked /\ s9' = MEditor!NoKb
      /\ clock' = IF seen THEN MEditor!Cancelled ELSE clock
  BY DEF MEditor!GoHome, MEditor!Close
<1>2. /\ s7' \in Seq(MEditor!Jobs) /\ (s7 = <<>> => s7' = <<>>)
      /\ (\E i \in DOMAIN s7 : s7[i].kind = "save") => \E i \in DOMAIN s7' : s7'[i].kind = "save"
      /\ s10' \in [open : BOOLEAN, redraw : BOOLEAN, nav : BOOLEAN] /\ ~ s10'.open
  BY <1>1, EditCloses
<1>3. MEditor!Formed' /\ MEditor!SavingHasJob'
  BY <1>1, <1>2 DEF MEditor!EditInv, MEditor!Formed, MEditor!SavingHasJob
<1>4. MEditor!WipedClean'
  BY <1>1, <1>2 DEF MEditor!EditInv, MEditor!WipedClean
<1> QED  BY <1>3, <1>4 DEF MEditor!EditInv

(* The wipe.                                                                *)
LEMMA EditWipes ==
  ASSUME MEditor!EditInv, MEditor!IdleTick
  PROVE  MEditor!EditInv'
<1>1. /\ s10 \in [open : BOOLEAN, redraw : BOOLEAN, nav : BOOLEAN] /\ s6 \in [saving : BOOLEAN, ui : BOOLEAN, kept : BOOLEAN]
      /\ s7 \in Seq(MEditor!Jobs) /\ s11 \in [now : BOOLEAN, wiped : BOOLEAN, catcher : BOOLEAN]
      /\ TRUE \in BOOLEAN /\ FALSE \in BOOLEAN
  BY DEF MEditor!EditInv, MEditor!Formed
<1>2. PICK dim \in BOOLEAN :
        s11' = [s11 EXCEPT !.wiped = s11.now /\ (s11.wiped \/ MEditor!WipeDue), !.catcher = s11.now /\ dim]
  BY DEF MEditor!IdleTick
<1> DEFINE w == s11.now /\ (s11.wiped \/ MEditor!WipeDue)
           d == s11.now /\ dim
           r == s10.redraw \/ s10.open
<1>3. w \in BOOLEAN /\ d \in BOOLEAN /\ r \in BOOLEAN /\ s11' = [s11 EXCEPT !.wiped = w, !.catcher = d]
      /\ (w => s11.now /\ (s11.wiped \/ MEditor!WipeDue))
  BY <1>1, <1>2
<1>4. MEditor!WipeDue => s10' = [s10 EXCEPT !.nav = TRUE, !.redraw = r]
  BY DEF MEditor!IdleTick
<1> HIDE DEF w, d, r
<1>5. s11' \in [now : BOOLEAN, wiped : BOOLEAN, catcher : BOOLEAN] /\ s11'.now = s11.now /\ s11'.wiped = w
  BY <1>1, <1>3
<1>6. CASE MEditor!WipeDue
  <2>1. /\ s7 = <<>> /\ UNCHANGED s7 /\ ses' = MEditor!Blank /\ clock' = MEditor!Cancelled /\ last' = "none" /\ ~ seen'
        /\ s9' = MEditor!NoKb /\ s6' = [s6 EXCEPT !.kept = FALSE]
    BY <1>6 DEF MEditor!IdleTick, MEditor!WipeDue
  <2>2. ~ s6.saving
    BY <2>1 DEF MEditor!EditInv, MEditor!SavingHasJob
  <2>3. clock' = MEditor!Blank
    BY <2>1, <2>2 DEF MEditor!Cancelled
  <2>4. /\ s6' \in [saving : BOOLEAN, ui : BOOLEAN, kept : BOOLEAN] /\ ~ s6'.saving /\ ~ s6'.kept
        /\ s10' \in [open : BOOLEAN, redraw : BOOLEAN, nav : BOOLEAN] /\ s10'.nav
    BY <2>1, <2>2, <1>1, <1>3, <1>4, <1>6
  <2>5. MEditor!Formed' /\ MEditor!SavingHasJob'
    BY <2>1, <2>4, <1>1, <1>5 DEF MEditor!Formed, MEditor!SavingHasJob
  <2>6. MEditor!WipedClean'
    BY <2>1, <2>3, <2>4 DEF MEditor!WipedClean, MEditor!Blank, MEditor!NoKb, MEditor!Masked
  <2> QED  BY <2>5, <2>6 DEF MEditor!EditInv
<1>7. CASE ~ MEditor!WipeDue
  <2>1. UNCHANGED <<ses, clock, last, seen, s6, s7, s8, s9, s10>>
    BY <1>7 DEF MEditor!IdleTick
  <2>2. s11'.now /\ s11'.wiped => s11.now /\ s11.wiped
    BY <1>3, <1>5, <1>7
  <2> QED  BY <2>1, <2>2, <1>5 DEF MEditor!EditInv, MEditor!Formed, MEditor!SavingHasJob, MEditor!WipedClean
<1> QED  BY <1>6, <1>7

LEMMA EditSteps == MEditor!EditInv /\ (MEditor!Next \/ UNCHANGED slots) => MEditor!EditInv'
BY EditOperates, EditPasses, EditRuns, EditSaved, EditImported, EditGoesHome, EditWipes DEF MEditor!Next, MEditor!Timed

(* So do the logins and the master's editor,                                 *)
SecretsInv == (part = "login" => Login!LoginInv) /\ (part = "meditor" => MEditor!EditInv)

(* web_auth.c and http_auth.c: the newest logins of a boot stay logged in,   *)
(* and no cookie outlives its password or comes back from flash; cfg_master.c *)
(* and pnl_idle.c: a panel that was wiped holds no value the operator typed  *)
(* or uncovered, and none comes back.                                        *)
THEOREM SecretsHold == FrontsSpec => []SecretsKept
<1>1. FrontsInit => SecretsInv
  BY LoginStarts, EditStarts DEF FrontsInit, SecretsInv
<1>2. SecretsInv /\ [FrontsNext]_<<part, slots>> => SecretsInv'
  <2> SUFFICES ASSUME SecretsInv, [FrontsNext]_<<part, slots>> PROVE SecretsInv'
    OBVIOUS
  <2>1. part' = part
    BY DEF FrontsNext
  <2>2. part = "login" => Login!Next \/ UNCHANGED slots
    BY DEF FrontsNext
  <2>3. part = "meditor" => MEditor!Next \/ UNCHANGED slots
    BY DEF FrontsNext
  <2> QED  BY <2>1, <2>2, <2>3, LoginSteps, EditSteps DEF SecretsInv
<1>3. SecretsInv => SecretsKept
  <2>1. MEditor!EditInv => MEditor!SecretsGone
    BY DEF MEditor!EditInv, MEditor!WipedClean, MEditor!SecretsGone
  <2> QED  BY <2>1, LoginMeans DEF SecretsInv, SecretsKept
<1> QED  BY <1>1, <1>2, <1>3, PTL DEF FrontsSpec

-----------------------------------------------------------------------------
(* MasterNet.  Its variables are all the slots.                             *)

(* What the lock, the store and the readers say; and what the radio says.    *)
NetStore ==
  /\ Net!Writers /\ Net!Readers /\ Net!Locked /\ Net!OwnFields /\ Net!Flashed /\ Net!NoEditLost
  /\ Net!Copies
NetRadio == Net!Dark /\ Net!Behind /\ Net!Clears /\ Net!Retried

LEMMA NetSplits == Net!NetInv <=> Net!TypeOK /\ NetStore /\ NetRadio
BY DEF Net!NetInv, NetStore, NetRadio

LEMMA NetStarts == Net!Init => Net!NetInv
<1> SUFFICES ASSUME Net!Init PROVE Net!NetInv
  OBVIOUS
<1>1. /\ now = Net!Cfg0 /\ ses = [i \in 1 .. 2 |-> Net!Cfg0] /\ clock = 1 /\ s18 = Net!Cfg0 /\ last = "none"
      /\ seen = [w \in WRITERS |-> Net!Idle] /\ s6 = [r \in READERS |-> Net!NoCopy] /\ s7 = "init"
      /\ s8 = TRUE /\ s9 = 0 /\ s10 = FALSE /\ s11 = "none" /\ s12 = [st |-> "idle", net |-> 0] /\ s13 = 1
      /\ s14 = FALSE /\ s15 = <<>> /\ s19 = FALSE
  BY DEF Net!Init, Net!NONE
<1>2. Net!Cfg0 \in Net!Configs
  BY DEF Net!Cfg0, Net!Configs
<1>3. /\ ses \in [1 .. 2 -> Net!Configs] /\ ses[clock] = s18 /\ now = s18
  BY <1>1, <1>2
<1>4. Net!TypeOK
  <2>1. {s8, s10, s14, s19} \subseteq BOOLEAN
    BY <1>1
  <2>2. s12.st \in {"idle", "joining", "up"} /\ s9 \in 0 .. 2 /\ s13 \in 0 .. 2 /\ clock \in 1 .. 2 /\ last \in WRITERS \cup {"none"}
    BY <1>1
  <2>3. now \in Net!Configs /\ s18 \in Net!Configs
    BY <1>1, <1>2
  <2> QED  BY <2>1, <2>2, <2>3, <1>3 DEF Net!TypeOK, Net!NONE
<1>5. /\ Net!Idle \in [at : Net!Places, op : Net!Asks \cup {"none"}, m : Net!Configs]
      /\ Net!Idle.at = "idle"
  <2> HIDE DEF Net!Configs, Net!Cfg0
  <2>1. "idle" \in Net!Places /\ "none" \in Net!Asks \cup {"none"}
    BY DEF Net!Places
  <2> QED  BY <1>2, <2>1 DEF Net!Idle, Net!NONE
<1>6. /\ Net!NoCopy \in [ptr : 0 .. 2, half : Net!Configs, commits : Nat] /\ Net!NoCopy.ptr = 0
  <2> HIDE DEF Net!Configs, Net!Cfg0
  <2> QED  BY <1>2 DEF Net!NoCopy
<1>7. /\ seen \in [WRITERS -> [at : Net!Places, op : Net!Asks \cup {"none"}, m : Net!Configs]]
      /\ \A w \in WRITERS : seen[w].at = "idle"
  BY <1>1, <1>5
<1>8. /\ s6 \in [READERS -> [ptr : 0 .. 2, half : Net!Configs, commits : Nat]]
      /\ \A r \in READERS : s6[r].ptr = 0
  BY <1>1, <1>6
<1>9. NetStore
  BY <1>1, <1>3, <1>7, <1>8, NetBounds
     DEF NetStore, Net!Writers, Net!Readers, Net!Locked, Net!OwnFields, Net!Flashed, Net!NoEditLost, Net!Copies,
         Net!NONE, Net!Edits
<1>10. NetRadio
  <2>1. Net!Dark
    BY <1>1, <1>7 DEF Net!Dark, Net!Scans
  <2>2. Net!Behind
    BY <1>1 DEF Net!Behind
  <2>3. Net!Clears /\ Net!Retried
    BY <1>1, <1>7 DEF Net!Clears, Net!Retried, Net!Somebody
  <2> QED  BY <2>1, <2>2, <2>3 DEF NetRadio
<1> QED  BY <1>4, <1>9, <1>10, NetSplits

(* Steps that leave the store, the lock and the readers alone.               *)
LEMMA NetAside ==
  ASSUME NetStore, UNCHANGED <<now, ses, clock, s18, last, seen, s6>>
  PROVE  NetStore'
BY DEF NetStore, Net!Writers, Net!Readers, Net!Locked, Net!OwnFields, Net!Flashed, Net!NoEditLost, Net!Copies

(* A writer's step under the lock that writes neither the store nor a buffer. *)
LEMMA NetMoves ==
  ASSUME NetStore, NEW w \in WRITERS, UNCHANGED <<now, ses, clock, s18, s6>>,
         seen' \in [WRITERS -> [at : Net!Places, op : Net!Asks \cup {"none"}, m : Net!Configs]],
         \A v \in WRITERS \ {w} : seen'[v] = seen[v],
         last = w,
         seen[w].at # "publish", seen'[w].at \notin {"wait", "commit", "publish"},
         seen'[w].at # "idle" => seen'[w].op \in Net!Asks /\ last' = last,
         seen'[w].at = "idle" => last' = "none",
         seen'[w].at \in Net!Edits => seen'[w].op # "scan"
  PROVE  NetStore'
<1>1. Net!Writers' /\ Net!Readers'
  BY DEF NetStore, Net!Writers, Net!Readers, Net!NONE
<1>2. Net!Locked'
  <2> SUFFICES ASSUME NEW v \in WRITERS PROVE seen'[v].at \notin {"idle", "wait"} <=> last' = v
    BY DEF Net!Locked
  <2>1. \A u \in WRITERS : u # "none"
    BY NetBounds
  <2>2. CASE v = w
    BY <2>1, <2>2
  <2>3. CASE v # w
    BY <2>1, <2>3 DEF NetStore, Net!Locked
  <2> QED  BY <2>2, <2>3
<1>3. Net!OwnFields'
  BY DEF NetStore, Net!OwnFields
<1>4. Net!Flashed'
  BY DEF NetStore, Net!Flashed
<1>5. Net!NoEditLost'
  BY DEF NetStore, Net!NoEditLost
<1>6. Net!Copies'
  BY DEF NetStore, Net!Copies
<1> QED  BY <1>1, <1>2, <1>3, <1>4, <1>5, <1>6 DEF NetStore

(* Who is past the lock has it. *)
LEMMA NetOwner == ASSUME NetStore, NEW w \in WRITERS, seen[w].at \notin {"idle", "wait"} PROVE last = w
BY DEF NetStore, Net!Locked

LEMMA NetAlone ==
  ASSUME NetStore, NEW w \in WRITERS, last = w
  PROVE  \A v \in WRITERS \ {w} : seen[v].at \in {"idle", "wait"}
BY DEF NetStore, Net!Locked

LEMMA NetGoes ==
  ASSUME NetStore, NEW w \in WRITERS, NEW at \in Net!Places, Net!Goes(w, at)
  PROVE  /\ seen' \in [WRITERS -> [at : Net!Places, op : Net!Asks \cup {"none"}, m : Net!Configs]]
         /\ seen'[w].at = at /\ seen'[w].op = seen[w].op /\ seen'[w].m = seen[w].m
         /\ \A v \in WRITERS \ {w} : seen'[v] = seen[v]
<1> DEFINE R == [at : Net!Places, op : Net!Asks \cup {"none"}, m : Net!Configs]
           n == [seen[w] EXCEPT !.at = at]
<1>1. seen \in [WRITERS -> R] /\ seen' = [seen EXCEPT ![w] = n]
  BY DEF NetStore, Net!Writers, Net!Goes, Net!NONE
<1>2. seen[w] \in R
  BY <1>1
<1>3. n \in R /\ n.at = at /\ n.op = seen[w].op /\ n.m = seen[w].m
  BY <1>2
<1> HIDE DEF R, n
<1>4. seen' \in [WRITERS -> R] /\ seen'[w] = n /\ \A v \in WRITERS \ {w} : seen'[v] = seen[v]
  BY <1>1, <1>3
<1> QED  BY <1>3, <1>4 DEF R

LEMMA NetEnds ==
  ASSUME NetStore, NEW w \in WRITERS, Net!Ends(w)
  PROVE  /\ seen' \in [WRITERS -> [at : Net!Places, op : Net!Asks \cup {"none"}, m : Net!Configs]]
         /\ seen'[w].at = "idle" /\ last' = "none"
         /\ \A v \in WRITERS \ {w} : seen'[v] = seen[v]
<1> DEFINE R == [at : Net!Places, op : Net!Asks \cup {"none"}, m : Net!Configs]
<1>1. seen \in [WRITERS -> R] /\ seen' = [seen EXCEPT ![w] = Net!Idle] /\ last' = "none"
  BY DEF NetStore, Net!Writers, Net!Ends, Net!NONE
<1>2. Net!Cfg0 \in Net!Configs
  BY DEF Net!Cfg0, Net!Configs
<1>3. Net!Idle \in R /\ Net!Idle.at = "idle"
  BY <1>2 DEF Net!Idle, Net!NONE, Net!Places
<1> HIDE DEF R
<1> QED  BY <1>1, <1>3 DEF R

(* The queue of the event task, one event shorter and one longer.            *)
LEMMA NetHears ==
  ASSUME Net!Behind, s15 # <<>>, s15' = Tail(s15)
  PROVE  /\ s15' \in Seq({"start", "down", "ip"}) /\ Head(s15) \in {"start", "down", "ip"}
         /\ Len(s15) > 1 <=> s15' # <<>>
         /\ s15' # <<>> => s15'[Len(s15')] = s15[Len(s15)]
         /\ s15' = <<>> => Head(s15) = s15[Len(s15)]
         /\ (\E i \in 1 .. Len(s15) : s15[i] = "start") /\ Head(s15) # "start"
              => \E i \in 1 .. Len(s15') : s15'[i] = "start"
<1>1. s15 \in Seq({"start", "down", "ip"})
  BY DEF Net!Behind
<1>2. /\ s15' \in Seq({"start", "down", "ip"}) /\ Len(s15) \in Nat /\ Len(s15) > 0 /\ Len(s15') = Len(s15) - 1
      /\ Head(s15) = s15[1] /\ s15[1] \in {"start", "down", "ip"}
      /\ \A i \in 1 .. Len(s15) - 1 : s15'[i] = s15[i + 1]
  BY <1>1
<1>3. s15' # <<>> <=> Len(s15') > 0
  BY <1>2
<1>4. s15' # <<>> => s15'[Len(s15')] = s15[Len(s15)]
  BY <1>2, <1>3
<1>5. ASSUME NEW i \in 1 .. Len(s15), s15[i] = "start", Head(s15) # "start"
      PROVE  \E k \in 1 .. Len(s15') : s15'[k] = "start"
  <2>1. i # 1 /\ i - 1 \in 1 .. Len(s15') /\ (i - 1) + 1 = i /\ i - 1 \in 1 .. Len(s15) - 1
    BY <1>2, <1>5
  <2> QED  BY <2>1, <1>2, <1>5
<1> QED  BY <1>2, <1>3, <1>4, <1>5

LEMMA NetPosts ==
  ASSUME Net!Behind, NEW e \in {"start", "down", "ip"}, s15' = Append(s15, e)
  PROVE  /\ s15' \in Seq({"start", "down", "ip"}) /\ s15' # <<>> /\ s15'[Len(s15')] = e
         /\ s15 # <<>> => Len(s15') > 1
         /\ (\E i \in 1 .. Len(s15) : s15[i] = "start") => \E i \in 1 .. Len(s15') : s15'[i] = "start"
         /\ e = "start" => \E i \in 1 .. Len(s15') : s15'[i] = "start"
<1>1. s15 \in Seq({"start", "down", "ip"})
  BY DEF Net!Behind
<1>2. /\ s15' \in Seq({"start", "down", "ip"}) /\ Len(s15) \in Nat /\ Len(s15') = Len(s15) + 1
      /\ s15'[Len(s15) + 1] = e /\ \A i \in 1 .. Len(s15) : s15'[i] = s15[i]
  BY <1>1
<1>3. s15 # <<>> => Len(s15) > 0
  BY <1>1
<1>4. s15' # <<>> /\ Len(s15') \in 1 .. Len(s15') /\ \A i \in 1 .. Len(s15) : i \in 1 .. Len(s15')
  BY <1>2
<1> QED  BY <1>2, <1>3, <1>4

LEMMA NetConnects ==
  ASSUME Net!TypeOK, Net!Behind, Net!Connects
  PROVE  /\ s10' \in BOOLEAN /\ s12' \in [st : {"idle", "joining", "up"}, net : 0 .. 2]
         /\ s8 => s10' \/ s12'.st # "idle"
         /\ s12'.st = "up" => s12.st = "up"
         /\ s12.st = "up" => s12' = s12
         /\ s12'.st # "idle" \/ s12' = s12
<1>1. s13 \in 0 .. 2 /\ s8 \in BOOLEAN /\ s10 \in BOOLEAN /\ s12 \in [st : {"idle", "joining", "up"}, net : 0 .. 2]
  BY DEF Net!TypeOK, Net!Behind
<1>2. CASE Net!Accepts /\ s12' = [st |-> "joining", net |-> s13] /\ UNCHANGED <<s10, s17>>
  BY <1>1, <1>2 DEF Net!Accepts
<1>3. CASE s10' = s8 /\ UNCHANGED s12
  BY <1>1, <1>3
<1> QED  BY <1>2, <1>3 DEF Net!Connects

(* A writer's step under the lock that leaves the radio alone.               *)
LEMMA NetRadioMoves ==
  ASSUME Net!TypeOK, NetStore, NetRadio, NEW w \in WRITERS, last = w,
         UNCHANGED <<s7, s8, s9, s10, s11, s12, s15>>, s19 => s19',
         \A v \in WRITERS \ {w} : seen'[v] = seen[v],
         seen'[w].at \in {"stop", "leave", "config", "connect"} \cup (Net!Scans \ {"scan"}) => Net!Up,
         seen'[w].at \notin {"leave", "config"},
         \/ seen[w].at \notin {"leave", "config", "connect", "again", "parked", "resume"}
         \/ seen'[w].at \in {"leave", "config", "connect", "again", "parked", "resume"}
         \/ s19' \/ ~ s8
  PROVE  NetRadio'
<1>0. \A v \in WRITERS \ {w} : seen'[v].at \in {"idle", "wait"} /\ seen[v].at \in {"idle", "wait"}
  BY NetAlone
<1>1. Net!Dark'
  BY <1>0 DEF NetRadio, Net!Dark, Net!Up, Net!Scans
<1>2. Net!Behind'
  BY DEF NetRadio, Net!Behind, Net!Newest
<1>3. Net!Clears'
  BY <1>0 DEF Net!Clears
<1>4. Net!Retried'
  <2> SUFFICES ASSUME s8, ~ s19', s12.st = "idle" PROVE Net!Somebody'
    BY DEF Net!Retried
  <2>1. Net!Somebody
    BY DEF NetRadio, Net!Retried
  <2>2. CASE Net!WillConnect
    <3>1. seen[w].at \in {"leave", "config", "connect", "again", "parked", "resume"}
      BY <2>2, <1>0 DEF Net!WillConnect
    <3>2. Net!WillConnect'
      BY <3>1 DEF Net!WillConnect
    <3> QED  BY <3>2 DEF Net!Somebody
  <2>3. CASE ~ Net!WillConnect
    BY <2>1, <2>3 DEF Net!Somebody, Net!WillArm, Net!StartDue, Net!Newest
  <2> QED  BY <2>2, <2>3
<1> QED  BY <1>1, <1>2, <1>3, <1>4 DEF NetRadio

(* The driver, the event task, the timer task and boot.                      *)
LEMMA NetJoins ==
  ASSUME Net!TypeOK, NetRadio, Net!Joins
  PROVE  NetRadio' /\ s12'.st \in {"idle", "joining", "up"}
<1>1. /\ s12.st = "joining" /\ s12' = [s12 EXCEPT !.st = "up"] /\ s15' = Append(s15, "ip")
      /\ UNCHANGED <<now, ses, clock, s18, last, seen, s6, s7, s8, s9, s10, s11, s13, s14, s19>>
  BY DEF Net!Joins, Net!mcfg
<1>2. s12 \in [st : {"idle", "joining", "up"}, net : 0 .. 2] /\ Net!Behind /\ Net!Dark
  BY DEF NetRadio, Net!Behind
<1>3. s12' \in [st : {"idle", "joining", "up"}, net : 0 .. 2] /\ s12'.st = "up"
  BY <1>1, <1>2
<1>4. s15' \in Seq({"start", "down", "ip"}) /\ s15' # <<>> /\ s15'[Len(s15')] = "ip"
  BY <1>1, <1>2, NetPosts
<1>5. Net!Behind'
  BY <1>3, <1>4 DEF Net!Behind, Net!Newest
<1>6. Net!Dark'
  BY <1>1, <1>2 DEF Net!Dark, Net!Up
<1>7. Net!Clears' /\ Net!Retried'
  BY <1>1, <1>3 DEF NetRadio, Net!Clears, Net!Retried
<1> QED  BY <1>3, <1>5, <1>6, <1>7 DEF NetRadio

LEMMA NetDrops ==
  ASSUME Net!TypeOK, NetRadio, Net!Drops
  PROVE  NetRadio' /\ s12'.st \in {"idle", "joining", "up"}
<1>1. /\ s12.st = "up" \/ (s12.st = "joining" /\ s9 # 2)
      /\ s12' = [st |-> "idle", net |-> 0] /\ s15' = Append(s15, "down")
      /\ UNCHANGED <<now, ses, clock, s18, last, seen, s6, s7, s8, s9, s10, s11, s13, s14, s19>>
  BY DEF Net!Drops, Net!mcfg
<1>2. Net!Behind /\ Net!Dark
  BY DEF NetRadio
<1>3. s12' \in [st : {"idle", "joining", "up"}, net : 0 .. 2] /\ s12'.st = "idle"
  BY <1>1
<1>4. /\ s15' \in Seq({"start", "down", "ip"}) /\ s15' # <<>> /\ s15'[Len(s15')] = "down"
      /\ s15 # <<>> => Len(s15') > 1
  BY <1>1, <1>2, NetPosts
<1>5. Net!Behind'
  BY <1>3, <1>4 DEF Net!Behind, Net!Newest
<1>6. Net!Dark'
  BY <1>1, <1>2 DEF Net!Dark, Net!Up
<1>7. Net!Clears'
  BY <1>1 DEF NetRadio, Net!Clears
<1>8. Net!WillArm'
  BY <1>1, <1>2, <1>4 DEF Net!WillArm, Net!Newest, Net!Behind
<1> QED  BY <1>3, <1>5, <1>6, <1>7, <1>8 DEF NetRadio, Net!Retried, Net!Somebody

LEMMA NetAges ==
  ASSUME Net!TypeOK, NetRadio, Net!MarkerAges
  PROVE  NetRadio' /\ s9' \in 0 .. 2
<1>1. s9 = 2 /\ s9' = 1 /\ UNCHANGED <<ses, clock, seen, s7, s8, s10, s11, s12, s15, s19>>
  BY DEF Net!MarkerAges, Net!mcfg
<1>2. Net!Dark' /\ Net!Clears'
  BY <1>1 DEF NetRadio, Net!Dark, Net!Clears, Net!Up
<1>3. Net!Behind'
  BY <1>1 DEF NetRadio, Net!Behind, Net!Newest
<1>4. Net!Retried'
  BY <1>1 DEF NetRadio, Net!Retried, Net!Somebody, Net!WillArm, Net!WillConnect, Net!StartDue, Net!Newest
<1> QED  BY <1>1, <1>2, <1>3, <1>4 DEF NetRadio

LEMMA NetEvent ==
  ASSUME Net!TypeOK, NetRadio, Net!EventTask
  PROVE  NetRadio' /\ s12'.st \in {"idle", "joining", "up"} /\ s10' \in BOOLEAN /\ s9' \in 0 .. 2
<1>1. /\ s15 # <<>> /\ s15' = Tail(s15)
      /\ UNCHANGED <<ses, clock, seen, s7, s8, s11, s19>>
  BY DEF Net!EventTask, Net!mcfg, Net!OnStart, Net!OnDown, Net!OnIp
<1>2. /\ Net!Behind /\ Net!Dark /\ Net!Clears /\ Net!Retried
      /\ s12 \in [st : {"idle", "joining", "up"}, net : 0 .. 2] /\ s8 \in BOOLEAN /\ s10 \in BOOLEAN /\ s9 \in 0 .. 2
  BY DEF NetRadio, Net!Behind, Net!TypeOK
<1>3. /\ s15' \in Seq({"start", "down", "ip"}) /\ Head(s15) \in {"start", "down", "ip"}
      /\ Len(s15) > 1 <=> s15' # <<>>
      /\ s15' # <<>> => s15'[Len(s15')] = s15[Len(s15)]
      /\ s15' = <<>> => Head(s15) = s15[Len(s15)]
      /\ Net!StartDue /\ Head(s15) # "start" => Net!StartDue'
  BY <1>1, <1>2, NetHears DEF Net!StartDue
<1>4. Net!Clears' /\ s7 # "init"
  BY <1>1, <1>2 DEF Net!Clears, Net!Dark
<1>5. Net!Dark'
  BY <1>1, <1>2, <1>4 DEF Net!Dark, Net!Up
<1>6. CASE Net!OnStart
  <2>1. Head(s15) = "start" /\ s9' = s9
    BY <1>6 DEF Net!OnStart
  <2>2. /\ s10' \in BOOLEAN /\ s12' \in [st : {"idle", "joining", "up"}, net : 0 .. 2]
        /\ s8 => s10' \/ s12'.st # "idle"
        /\ s12'.st = "up" => s12.st = "up"
        /\ s12.st = "up" => s12' = s12
    BY <1>6, <1>2, NetConnects DEF Net!OnStart
  <2>3. Net!Behind'
    BY <1>1, <1>2, <1>3, <2>1, <2>2 DEF Net!Behind, Net!Newest
  <2>4. Net!Retried'
    BY <1>1, <2>2 DEF Net!Retried, Net!Somebody
  <2> QED  BY <1>2, <1>4, <1>5, <2>1, <2>2, <2>3, <2>4 DEF NetRadio
<1>7. CASE Net!OnDown
  <2>1. /\ Head(s15) = "down" /\ s10' = (IF s9 = 2 THEN s10 ELSE s10 \/ s8) /\ s9' = 0 /\ UNCHANGED s12
    BY <1>7 DEF Net!OnDown
  <2>2. Net!Behind'
    BY <1>2, <1>3, <2>1 DEF Net!Behind, Net!Newest
  <2>3. s10' \in BOOLEAN /\ (s10 => s10') /\ (s9 # 2 /\ s8 => s10')
    BY <1>2, <2>1
  <2>4. Net!Retried'
    <3> SUFFICES ASSUME s8, ~ s19, s12.st = "idle", s9 = 2 PROVE Net!Somebody'
      BY <1>1, <2>1, <2>3 DEF Net!Retried, Net!Somebody
    <3>1. Net!Somebody
      BY <1>2 DEF Net!Retried
    <3>2. CASE Net!WillArm
      BY <3>2, <1>3, <2>1 DEF Net!WillArm, Net!Newest, Net!Somebody
    <3>3. CASE Net!WillConnect
      BY <3>3, <1>1 DEF Net!WillConnect, Net!Somebody
    <3>4. CASE Net!StartDue
      BY <3>4, <1>3, <2>1 DEF Net!Somebody
    <3> QED  BY <3>1, <3>2, <3>3, <3>4, <1>1, <1>4, <2>3 DEF Net!Somebody
  <2>5. s12'.st \in {"idle", "joining", "up"} /\ s10' \in BOOLEAN /\ s9' \in 0 .. 2
    BY <1>2, <2>1
  <2>6. NetRadio'
    BY <1>4, <1>5, <2>2, <2>4 DEF NetRadio
  <2> QED  BY <2>5, <2>6
<1>8. CASE Net!OnIp
  <2>1. Head(s15) = "ip" /\ s10' = FALSE /\ s9' = 0 /\ UNCHANGED s12
    BY <1>8 DEF Net!OnIp
  <2>2. Net!Behind'
    BY <1>2, <1>3, <2>1 DEF Net!Behind, Net!Newest
  <2>3. Net!Retried'
    <3> SUFFICES ASSUME s8, ~ s19, s12.st = "idle" PROVE Net!Somebody'
      BY <1>1, <2>1 DEF Net!Retried
    <3>1. s15[Len(s15)] # "ip"
      BY <1>1, <1>2 DEF Net!Behind, Net!Newest
    <3>2. s15' # <<>> /\ s15'[Len(s15')] = s15[Len(s15)]
      BY <3>1, <1>3, <2>1
    <3>3. CASE s15[Len(s15)] = "down"
      BY <3>2, <3>3, <2>1 DEF Net!Somebody, Net!WillArm, Net!Newest
    <3>4. CASE s15[Len(s15)] = "start"
      <4>1. Len(s15') \in 1 .. Len(s15')
        BY <3>2, <1>3
      <4> QED  BY <4>1, <3>2, <3>4 DEF Net!Somebody, Net!StartDue
    <3>5. s15[Len(s15)] \in {"start", "down", "ip"}
      BY <1>1, <1>2 DEF Net!Behind
    <3> QED  BY <3>1, <3>3, <3>4, <3>5
  <2>4. s12'.st \in {"idle", "joining", "up"} /\ s10' \in BOOLEAN /\ s9' \in 0 .. 2
    <3>1. s10' \in BOOLEAN
      BY <2>1
    <3>2. s12'.st \in {"idle", "joining", "up"} /\ s9' \in 0 .. 2
      BY <1>2, <2>1
    <3> QED  BY <3>1, <3>2
  <2>5. NetRadio'
    BY <1>4, <1>5, <2>2, <2>3 DEF NetRadio
  <2> QED  BY <2>4, <2>5
<1> QED  BY <1>6, <1>7, <1>8 DEF Net!EventTask

LEMMA NetRetries ==
  ASSUME Net!TypeOK, NetRadio, Net!Retries
  PROVE  NetRadio' /\ s12'.st \in {"idle", "joining", "up"} /\ s10' \in BOOLEAN
<1>1. UNCHANGED <<ses, clock, seen, s7, s8, s9, s15, s19>>
  BY DEF Net!Retries, Net!TimerFires, Net!RetryChecks, Net!RetryConnects, Net!mcfg
<1>2. /\ Net!Behind /\ Net!Dark /\ Net!Clears /\ Net!Retried
      /\ s12 \in [st : {"idle", "joining", "up"}, net : 0 .. 2] /\ s8 \in BOOLEAN /\ s10 \in BOOLEAN /\ s9 \in 0 .. 2
  BY DEF NetRadio, Net!Behind, Net!TypeOK
<1>3. Net!Clears'
  BY <1>1, <1>2 DEF Net!Clears
<1>4. s7 # "init"
  BY <1>2 DEF Net!Retries, Net!TimerFires, Net!RetryChecks, Net!RetryConnects, Net!Dark
<1>5. Net!Dark'
  BY <1>1, <1>2, <1>4 DEF Net!Dark, Net!Up
<1>6. CASE Net!TimerFires \/ Net!RetryChecks
  <2>1. s12' = s12 /\ s10' \in BOOLEAN /\ (s8 => s11' # "none")
    BY <1>6, <1>2 DEF Net!TimerFires, Net!RetryChecks
  <2>2. Net!Behind'
    BY <1>1, <1>2, <2>1 DEF Net!Behind, Net!Newest
  <2>3. Net!Retried'
    BY <1>1, <2>1 DEF Net!Retried, Net!Somebody
  <2> QED  BY <1>2, <1>3, <1>5, <2>1, <2>2, <2>3 DEF NetRadio
<1>7. CASE Net!RetryConnects
  <2>1. /\ s10' \in BOOLEAN /\ s12' \in [st : {"idle", "joining", "up"}, net : 0 .. 2]
        /\ s8 => s10' \/ s12'.st # "idle"
        /\ s12'.st = "up" => s12.st = "up"
        /\ s12.st = "up" => s12' = s12
    BY <1>7, <1>2, NetConnects DEF Net!RetryConnects
  <2>2. Net!Behind'
    BY <1>1, <1>2, <2>1 DEF Net!Behind, Net!Newest
  <2>3. Net!Retried'
    BY <1>1, <2>1 DEF Net!Retried, Net!Somebody
  <2> QED  BY <1>2, <1>3, <1>5, <2>1, <2>2, <2>3 DEF NetRadio
<1> QED  BY <1>6, <1>7 DEF Net!Retries

LEMMA NetBoots ==
  ASSUME Net!TypeOK, NetRadio, Net!Boots
  PROVE  NetRadio'
<1>1. UNCHANGED <<ses, clock, seen, s8, s9, s10, s11, s12, s19>>
  BY DEF Net!Boots, Net!StartRadio, Net!Started, Net!OnSta, Net!mcfg, Net!sta
<1>2. /\ Net!Behind /\ Net!Dark /\ Net!Clears /\ Net!Retried
      /\ s12 \in [st : {"idle", "joining", "up"}, net : 0 .. 2]
  BY DEF NetRadio, Net!Behind
<1>3. Net!Clears'
  BY <1>1, <1>2 DEF Net!Clears
<1>4. CASE Net!StartRadio
  <2>1. s7 = "init" /\ s7' = "radio" /\ s15' = Append(s15, "start") /\ s12.st = "idle"
    BY <1>4, <1>2 DEF Net!StartRadio, Net!Dark
  <2>2. /\ s15' \in Seq({"start", "down", "ip"}) /\ s15' # <<>> /\ s15'[Len(s15')] = "start"
        /\ Net!StartDue'
    BY <2>1, <1>2, NetPosts DEF Net!StartDue
  <2>3. Net!Dark'
    BY <1>1, <1>2, <2>1 DEF Net!Dark, Net!Up
  <2>4. Net!Behind'
    BY <1>1, <1>2, <2>1, <2>2 DEF Net!Behind, Net!Newest
  <2> QED  BY <1>3, <2>2, <2>3, <2>4 DEF NetRadio, Net!Retried, Net!Somebody
<1>5. CASE Net!Started \/ Net!OnSta
  <2>1. s7 # "init" /\ s7' \in {"started", "observed"} /\ UNCHANGED s15
    BY <1>5 DEF Net!Started, Net!OnSta, Net!sta
  <2>2. Net!Dark'
    BY <1>1, <1>2, <2>1 DEF Net!Dark, Net!Up
  <2>3. Net!Behind'
    BY <1>1, <1>2, <2>1 DEF Net!Behind, Net!Newest
  <2>4. Net!Retried'
    BY <1>1, <1>2, <2>1 DEF Net!Retried, Net!Somebody, Net!WillArm, Net!WillConnect, Net!StartDue, Net!Newest
  <2> QED  BY <1>3, <2>2, <2>3, <2>4 DEF NetRadio
<1> QED  BY <1>4, <1>5 DEF Net!Boots

(* A writer asks, and one that does not get the lock gives up.               *)
LEMMA NetAsks ==
  ASSUME Net!TypeOK, NetStore, NetRadio, NEW w \in WRITERS, Net!Asked(w) \/ Net!Busy(w)
  PROVE  NetStore' /\ NetRadio'
<1> DEFINE R == [at : Net!Places, op : Net!Asks \cup {"none"}, m : Net!Configs]
<1>1. UNCHANGED <<now, ses, clock, s18, last, s6, s7, s8, s9, s10, s11, s12, s15, s19>>
  BY DEF Net!Asked, Net!Busy, Net!mcfg, Net!sta
<1>2. seen \in [WRITERS -> R] /\ seen[w].at \in {"idle", "wait"}
  BY DEF NetStore, Net!Writers, Net!NONE, Net!Asked, Net!Busy
<1>3. /\ seen' \in [WRITERS -> R] /\ \A v \in WRITERS \ {w} : seen'[v] = seen[v]
      /\ seen'[w].at \in {"idle", "wait"} /\ (seen'[w].at # "idle" => seen'[w].op \in Net!Asks)
  <2>1. CASE Net!Asked(w)
    <3>1. PICK op \in OPS : seen' = [seen EXCEPT ![w] = [at |-> "wait", op |-> op, m |-> ses[clock]]]
      BY <2>1 DEF Net!Asked
    <3> DEFINE n == [at |-> "wait", op |-> op, m |-> ses[clock]]
    <3>2. op \in Net!Asks /\ ses[clock] \in Net!Configs /\ "wait" \in Net!Places
      BY NetBounds DEF Net!TypeOK, Net!Asks, Net!Fields, Net!Places
    <3>3. n \in R /\ n.at = "wait" /\ n.op \in Net!Asks
      BY <3>2
    <3> HIDE DEF R, n
    <3>4. seen' \in [WRITERS -> R] /\ seen'[w] = n /\ \A v \in WRITERS \ {w} : seen'[v] = seen[v]
      BY <1>2, <3>1, <3>3 DEF n
    <3> QED  BY <3>3, <3>4
  <2>2. CASE Net!Busy(w)
    <3>1. seen' = [seen EXCEPT ![w] = Net!Idle]
      BY <2>2 DEF Net!Busy
    <3>2. Net!Cfg0 \in Net!Configs
      BY DEF Net!Cfg0, Net!Configs
    <3>3. Net!Idle \in R /\ Net!Idle.at = "idle"
      BY <3>2 DEF Net!Idle, Net!NONE, Net!Places
    <3> HIDE DEF R
    <3> QED  BY <1>2, <3>1, <3>3
  <2> QED  BY <2>1, <2>2
<1>4. \A v \in WRITERS : seen'[v].at \notin {"idle", "wait"} => seen'[v] = seen[v] /\ seen[v].at \notin {"idle", "wait"}
  BY <1>3
<1>5. \A v \in WRITERS : seen[v].at \notin {"idle", "wait"} => seen'[v] = seen[v]
  BY <1>2, <1>3
<1>6. NetStore'
  <2>1. Net!Writers'
    BY <1>3, <1>4 DEF NetStore, Net!Writers, Net!NONE, Net!Edits
  <2>2. Net!Locked'
    BY <1>1, <1>2, <1>3 DEF NetStore, Net!Locked
  <2>3. Net!OwnFields' /\ Net!Flashed' /\ Net!NoEditLost'
    BY <1>1, <1>4, <1>5 DEF NetStore, Net!OwnFields, Net!Flashed, Net!NoEditLost
  <2>4. Net!Readers' /\ Net!Copies'
    BY <1>1 DEF NetStore, Net!Readers, Net!Copies
  <2> QED  BY <2>1, <2>2, <2>3, <2>4 DEF NetStore
<1>7. NetRadio'
  <2>1. Net!Dark' /\ Net!Clears'
    BY <1>1, <1>4 DEF NetRadio, Net!Dark, Net!Clears, Net!Up, Net!Scans
  <2>2. Net!Behind'
    BY <1>1 DEF NetRadio, Net!Behind, Net!Newest
  <2>3. Net!WillConnect => Net!WillConnect'
    BY <1>5 DEF Net!WillConnect
  <2>4. Net!Retried'
    BY <1>1, <2>3 DEF NetRadio, Net!Retried, Net!Somebody, Net!WillArm, Net!StartDue, Net!Newest
  <2> QED  BY <2>1, <2>2, <2>4 DEF NetRadio
<1> QED  BY <1>6, <1>7

(* A field that is edited is one of the operation's own.                     *)
LEMMA NetEdited ==
  ASSUME NEW m \in Net!Configs, NEW op \in {"sta", "ap", "tz", "all"}, NEW n \in Net!Edited(op, m)
  PROVE  /\ n \in Net!Configs
         /\ \A f \in Net!Fields : op \notin {f, "all"} => n[f] = m[f]
<1>1. m \in [sta : 0 .. 2, ap : 1 .. 2, tz : 1 .. 2]
  BY DEF Net!Configs
<1> DEFINE a == 3 - m.ap
           t == 3 - m.tz
<1>2. a \in 1 .. 2 /\ t \in 1 .. 2
  BY <1>1
<1>3. CASE op = "sta"
  <2>1. PICK k \in 0 .. 2 : n = [m EXCEPT !.sta = k]
    BY <1>3 DEF Net!Edited
  <2> QED  BY <1>1, <1>3, <2>1 DEF Net!Configs, Net!Fields
<1>4. CASE op = "ap"
  <2>1. n = [m EXCEPT !.ap = a]
    BY <1>4 DEF Net!Edited
  <2> HIDE DEF a
  <2> QED  BY <1>1, <1>2, <1>4, <2>1 DEF Net!Configs, Net!Fields
<1>5. CASE op = "tz"
  <2>1. n = [m EXCEPT !.tz = t]
    BY <1>5 DEF Net!Edited
  <2> HIDE DEF t
  <2> QED  BY <1>1, <1>2, <1>5, <2>1 DEF Net!Configs, Net!Fields
<1>6. CASE op = "all"
  <2>1. PICK k \in 0 .. 2 : n = [m EXCEPT !.sta = k, !.ap = a, !.tz = t]
    BY <1>6 DEF Net!Edited
  <2> HIDE DEF a, t
  <2> QED  BY <1>1, <1>2, <1>6, <2>1 DEF Net!Configs, Net!Fields
<1> QED  BY <1>3, <1>4, <1>5, <1>6

LEMMA NetLocks ==
  ASSUME Net!TypeOK, NetStore, NetRadio, NEW w \in WRITERS, Net!Lock(w)
  PROVE  NetStore' /\ NetRadio'
<1> DEFINE R == [at : Net!Places, op : Net!Asks \cup {"none"}, m : Net!Configs]
<1>1. /\ seen[w].at = "wait" /\ last = "none" /\ last' = w
      /\ UNCHANGED <<now, ses, clock, s18, s6, s7, s8, s9, s10, s11, s12, s15, s19>>
  BY DEF Net!Lock, Net!mcfg, Net!sta, Net!NONE
<1>2. /\ seen \in [WRITERS -> R] /\ seen[w] \in R /\ seen[w].op \in Net!Asks
      /\ ses[clock] = s18 /\ s18 \in Net!Configs
  BY <1>1 DEF NetStore, Net!Writers, Net!NONE, Net!NoEditLost, Net!TypeOK
<1>3. /\ seen' \in [WRITERS -> R] /\ \A v \in WRITERS \ {w} : seen'[v] = seen[v]
      /\ seen'[w].op = seen[w].op
      /\ \/ seen'[w].at = "scan"
         \/ /\ seen'[w].at = "commit" /\ seen[w].op # "scan"
            /\ \A f \in Net!Fields : seen[w].op \notin {f, "all"} => seen'[w].m[f] = s18[f]
  <2>1. CASE seen[w].op = "scan"
    <3>1. Net!Goes(w, "scan") /\ "scan" \in Net!Places
      BY <2>1 DEF Net!Lock, Net!Places, Net!Scans
    <3> QED  BY <3>1, NetGoes
  <2>2. CASE seen[w].op # "scan"
    <3>1. PICK m \in Net!Edited(seen[w].op, ses[clock]) : seen' = [seen EXCEPT ![w].at = "commit", ![w].m = m]
      BY <2>2 DEF Net!Lock
    <3>2. seen[w].op \in {"sta", "ap", "tz", "all"}
      BY <1>2, <2>2 DEF Net!Asks, Net!Fields
    <3>3. m \in Net!Configs /\ \A f \in Net!Fields : seen[w].op \notin {f, "all"} => m[f] = s18[f]
      BY <1>2, <3>1, <3>2, NetEdited
    <3> DEFINE n == [seen[w] EXCEPT !.at = "commit", !.m = m]
    <3>4. seen' = [seen EXCEPT ![w] = n] /\ "commit" \in Net!Places
      BY <1>2, <3>1 DEF Net!Places, Net!Edits
    <3>5. n \in R /\ n.at = "commit" /\ n.op = seen[w].op /\ n.m = m
      BY <1>2, <3>3, <3>4
    <3> HIDE DEF R, n
    <3>6. seen' \in [WRITERS -> R] /\ seen'[w] = n /\ \A v \in WRITERS \ {w} : seen'[v] = seen[v]
      BY <1>2, <3>4, <3>5
    <3> QED  BY <2>2, <3>3, <3>5, <3>6
  <2> QED  BY <2>1, <2>2
<1>4. \A v \in WRITERS : seen[v].at \in {"idle", "wait"}
  BY <1>1, NetBounds DEF NetStore, Net!Locked
<1>5. \A v \in WRITERS \ {w} : seen'[v].at \in {"idle", "wait"}
  BY <1>3, <1>4
<1>6. NetStore'
  <2>1. Net!Writers'
    <3>1. \A v \in WRITERS : (seen'[v].at # "idle" => seen'[v].op \in Net!Asks) /\ (seen'[v].at \in Net!Edits => seen'[v].op # "scan")
      <4> SUFFICES ASSUME NEW v \in WRITERS
                   PROVE  (seen'[v].at # "idle" => seen'[v].op \in Net!Asks) /\ (seen'[v].at \in Net!Edits => seen'[v].op # "scan")
        OBVIOUS
      <4>1. CASE v = w
        BY <4>1, <1>2, <1>3 DEF Net!Edits
      <4>2. CASE v # w
        BY <4>2, <1>3 DEF NetStore, Net!Writers
      <4> QED  BY <4>1, <4>2
    <3> QED  BY <3>1, <1>3 DEF Net!Writers, Net!NONE
  <2>2. Net!Locked'
    BY <1>1, <1>3, <1>5 DEF Net!Locked
  <2>3. Net!OwnFields' /\ Net!Flashed'
    BY <1>1, <1>3, <1>5 DEF Net!OwnFields, Net!Flashed
  <2>4. Net!NoEditLost'
    BY <1>1, <1>4 DEF NetStore, Net!NoEditLost
  <2>5. Net!Readers' /\ Net!Copies'
    BY <1>1 DEF NetStore, Net!Readers, Net!Copies
  <2> QED  BY <2>1, <2>2, <2>3, <2>4, <2>5 DEF NetStore
<1>7. NetRadio'
  <2>1. Net!Dark' /\ Net!Clears'
    BY <1>1, <1>3, <1>5 DEF NetRadio, Net!Dark, Net!Clears, Net!Up, Net!Scans
  <2>2. Net!Behind'
    BY <1>1 DEF NetRadio, Net!Behind, Net!Newest
  <2>3. ~ Net!WillConnect
    BY <1>4 DEF Net!WillConnect
  <2>4. Net!Retried'
    BY <1>1, <2>3 DEF NetRadio, Net!Retried, Net!Somebody, Net!WillArm, Net!StartDue, Net!Newest
  <2> QED  BY <2>1, <2>2, <2>4 DEF NetRadio
<1> QED  BY <1>6, <1>7

LEMMA NetCommits ==
  ASSUME Net!TypeOK, NetStore, NetRadio, NEW w \in WRITERS, Net!Commit(w)
  PROVE  NetStore' /\ NetRadio' /\ now' \in Net!Configs
<1>1. /\ seen[w].at = "commit"
      /\ UNCHANGED <<ses, clock, s18, s6, s7, s8, s9, s10, s11, s12, s15, s19>>
  BY DEF Net!Commit, Net!sta
<1>2. last = w /\ \A v \in WRITERS \ {w} : seen[v].at \in {"idle", "wait"}
  BY <1>1, NetOwner, NetAlone
<1>3. seen[w].op \in Net!Asks /\ seen[w].op # "scan" /\ seen[w].m \in Net!Configs
  BY <1>1 DEF NetStore, Net!Writers, Net!Edits
<1>4. CASE Net!Ends(w) /\ UNCHANGED now
  <2>1. /\ seen' \in [WRITERS -> [at : Net!Places, op : Net!Asks \cup {"none"}, m : Net!Configs]]
        /\ seen'[w].at = "idle" /\ last' = "none"
        /\ \A v \in WRITERS \ {w} : seen'[v] = seen[v]
    BY <1>4, NetEnds
  <2>2. NetStore'
    BY <1>1, <1>2, <1>4, <2>1, NetMoves DEF Net!Edits
  <2>3. NetRadio'
    BY <1>1, <1>2, <2>1, NetRadioMoves DEF Net!Scans
  <2> QED  BY <1>4, <2>2, <2>3 DEF Net!TypeOK
<1>5. CASE now' = seen[w].m /\ Net!Goes(w, "publish") /\ UNCHANGED last
  <2>1. "publish" \in Net!Places
    BY DEF Net!Places, Net!Edits
  <2>2. /\ seen' \in [WRITERS -> [at : Net!Places, op : Net!Asks \cup {"none"}, m : Net!Configs]]
        /\ seen'[w].at = "publish" /\ seen'[w].op = seen[w].op /\ seen'[w].m = seen[w].m
        /\ \A v \in WRITERS \ {w} : seen'[v] = seen[v]
    BY <1>5, <2>1, NetGoes
  <2>3. NetRadio'
    BY <1>1, <1>2, <2>2, NetRadioMoves DEF Net!Scans
  <2>4. Net!Writers'
    BY <1>3, <2>2 DEF NetStore, Net!Writers, Net!NONE
  <2>5. Net!Locked'
    BY <1>1, <1>2, <1>5, <2>2 DEF NetStore, Net!Locked
  <2>6. Net!OwnFields'
    BY <1>1, <2>2 DEF NetStore, Net!OwnFields
  <2>7. Net!Flashed'
    BY <1>2, <1>5, <2>2 DEF Net!Flashed
  <2>8. Net!NoEditLost'
    BY <1>1, <2>2 DEF NetStore, Net!NoEditLost
  <2>9. Net!Readers' /\ Net!Copies'
    BY <1>1 DEF NetStore, Net!Readers, Net!Copies
  <2> QED  BY <1>3, <1>5, <2>3, <2>4, <2>5, <2>6, <2>7, <2>8, <2>9 DEF NetStore
<1> QED  BY <1>4, <1>5 DEF Net!Commit

LEMMA NetPublishes ==
  ASSUME Net!TypeOK, NetStore, NetRadio, NEW w \in WRITERS, Net!Publish(w)
  PROVE  /\ NetStore' /\ NetRadio'
         /\ ses' \in [1 .. 2 -> Net!Configs] /\ clock' \in 1 .. 2 /\ s18' \in Net!Configs
<1> DEFINE at == IF seen[w].op = "tz" THEN "tz" ELSE "ap"
           M == seen[w].m
<1>1. /\ seen[w].at = "publish" /\ ses' = [ses EXCEPT ![3 - clock] = M] /\ clock' = 3 - clock
      /\ s18' = Net!Told(w) /\ Net!Goes(w, at)
      /\ s6' = [r \in READERS |-> [s6[r] EXCEPT !.commits = IF s6[r].ptr = 0 THEN 0 ELSE s6[r].commits + 1]]
      /\ UNCHANGED <<now, last, s7, s8, s9, s10, s11, s12, s15, s19>>
  BY DEF Net!Publish, Net!sta
<1>2. last = w /\ \A v \in WRITERS \ {w} : seen[v].at \in {"idle", "wait"}
  BY <1>1, NetOwner, NetAlone
<1>3. seen[w].op \in Net!Asks /\ seen[w].op # "scan" /\ M \in Net!Configs /\ now = M
  BY <1>1 DEF NetStore, Net!Writers, Net!Edits, Net!Flashed
<1>4. s18 \in Net!Configs /\ ses \in [1 .. 2 -> Net!Configs] /\ clock \in 1 .. 2 /\ 3 - clock \in 1 .. 2 /\ 3 - clock # clock
      /\ 3 - (3 - clock) = clock
  BY DEF Net!TypeOK
<1>5. s18' = M
  <2>1. s18' = [f \in {"sta", "ap", "tz"} |-> IF seen[w].op \in {f, "all"} THEN M[f] ELSE s18[f]]
    BY <1>1 DEF Net!Told
  <2>2. \A f \in {"sta", "ap", "tz"} : s18'[f] = M[f]
    BY <1>1, <2>1 DEF NetStore, Net!OwnFields, Net!Fields
  <2>3. s18' = [f \in {"sta", "ap", "tz"} |-> M[f]]
    BY <2>1, <2>2
  <2>4. M = [f \in {"sta", "ap", "tz"} |-> M[f]]
    <3> HIDE DEF M
    <3> QED  BY <1>3 DEF Net!Configs
  <2> QED  BY <2>3, <2>4
<1>6. /\ at \in Net!Places /\ at \in {"tz", "ap"}
  BY DEF Net!Places, Net!Edits
<1> HIDE DEF at, M
<1>7. /\ seen' \in [WRITERS -> [at : Net!Places, op : Net!Asks \cup {"none"}, m : Net!Configs]]
      /\ seen'[w].at = at /\ seen'[w].op = seen[w].op
      /\ \A v \in WRITERS \ {w} : seen'[v] = seen[v]
  BY <1>1, <1>6, NetGoes
<1>8. /\ ses' \in [1 .. 2 -> Net!Configs] /\ ses'[3 - clock] = M /\ ses'[clock] = ses[clock]
  BY <1>1, <1>3, <1>4
<1>9. NetRadio'
  BY <1>1, <1>2, <1>6, <1>7, NetRadioMoves DEF Net!Scans
<1>10. Net!Writers'
  BY <1>3, <1>7 DEF NetStore, Net!Writers, Net!NONE
<1>11. Net!Locked'
  BY <1>1, <1>2, <1>6, <1>7 DEF NetStore, Net!Locked
<1>12. Net!OwnFields' /\ Net!Flashed'
  BY <1>2, <1>6, <1>7 DEF Net!OwnFields, Net!Flashed
<1>13. Net!NoEditLost'
  BY <1>1, <1>3, <1>5, <1>8 DEF Net!NoEditLost
<1>14. Net!Readers' /\ Net!Copies'
  <2> DEFINE C == [ptr : 0 .. 2, half : Net!Configs, commits : Nat]
  <2>1. ASSUME NEW r \in READERS
        PROVE  /\ s6'[r] \in C /\ s6'[r].ptr = s6[r].ptr /\ s6'[r].half = s6[r].half
               /\ s6[r].ptr # 0 => s6'[r].commits = s6[r].commits + 1
    <3> DEFINE k == IF s6[r].ptr = 0 THEN 0 ELSE s6[r].commits + 1
    <3>1. s6[r] \in C /\ k \in Nat /\ s6'[r] = [s6[r] EXCEPT !.commits = k] /\ (s6[r].ptr # 0 => k = s6[r].commits + 1)
      BY <1>1 DEF NetStore, Net!Readers
    <3> HIDE DEF k
    <3> QED  BY <3>1
  <2>2. Net!Readers'
    <3> HIDE DEF C
    <3>1. s6' \in [READERS -> C]
      BY <1>1, <2>1
    <3> QED  BY <3>1 DEF C, Net!Readers
  <2>3. ASSUME NEW r \in READERS, s6'[r].ptr # 0
        PROVE  /\ s6'[r].commits = 0 => s6'[r].ptr = clock' /\ s6'[r].half = ses'[clock']
               /\ s6'[r].commits = 1 => s6'[r].ptr = 3 - clock' /\ s6'[r].half = ses'[3 - clock']
    <3>1. s6[r].commits \in Nat /\ s6'[r].commits = s6[r].commits + 1 /\ s6[r].ptr = s6'[r].ptr /\ s6[r].half = s6'[r].half
      BY <2>1, <2>3 DEF NetStore, Net!Readers
    <3>2. s6[r].commits = 0 => s6[r].ptr = clock /\ s6[r].half = ses[clock]
      BY <2>3, <3>1 DEF NetStore, Net!Copies
    <3> QED  BY <1>1, <1>4, <1>8, <3>1, <3>2
  <2> QED  BY <2>2, <2>3 DEF Net!Copies
<1> QED  BY <1>1, <1>3, <1>4, <1>5, <1>8, <1>9, <1>10, <1>11, <1>12, <1>13, <1>14 DEF NetStore

(* What follows the Wi-Fi part of an apply.                                  *)
LEMMA NetWifiDone ==
  ASSUME Net!TypeOK, NetStore, NEW w \in WRITERS, NEW ok \in BOOLEAN,
         seen[w].at \in {"ap", "config", "connect"}, Net!WifiDone(w, ok),
         UNCHANGED <<now, ses, clock, s18, s6>>
  PROVE  /\ NetStore' /\ s19' = (s19 \/ ~ ok) /\ s19' \in BOOLEAN /\ last = w
         /\ last' \in WRITERS \cup {"none"}
         /\ seen'[w].at \in {"tz", "idle"} /\ \A v \in WRITERS \ {w} : seen'[v] = seen[v]
<1>1. /\ last = w /\ seen[w].at \in Net!Edits /\ s19 \in BOOLEAN
      /\ seen[w].op \in Net!Asks /\ seen[w].op # "scan"
  BY NetOwner DEF NetStore, Net!Writers, Net!Edits, Net!TypeOK
<1>2. CASE Net!Goes(w, "tz") /\ UNCHANGED last
  <2>1. "tz" \in Net!Places
    BY DEF Net!Places, Net!Edits
  <2>2. /\ seen' \in [WRITERS -> [at : Net!Places, op : Net!Asks \cup {"none"}, m : Net!Configs]]
        /\ seen'[w].at = "tz" /\ seen'[w].op = seen[w].op
        /\ \A v \in WRITERS \ {w} : seen'[v] = seen[v]
    BY <1>2, <2>1, NetGoes
  <2>3. NetStore'
    BY <1>1, <1>2, <2>2, NetMoves
  <2> QED  BY <1>1, <1>2, <2>2, <2>3 DEF Net!WifiDone
<1>3. CASE Net!Ends(w)
  <2>1. /\ seen' \in [WRITERS -> [at : Net!Places, op : Net!Asks \cup {"none"}, m : Net!Configs]]
        /\ seen'[w].at = "idle" /\ last' = "none"
        /\ \A v \in WRITERS \ {w} : seen'[v] = seen[v]
    BY <1>3, NetEnds
  <2>2. NetStore'
    BY <1>1, <2>1, NetMoves DEF Net!Edits
  <2> QED  BY <1>1, <2>1, <2>2 DEF Net!WifiDone
<1> QED  BY <1>2, <1>3 DEF Net!WifiDone

(* A step from one place under the lock to the next one.                     *)
LEMMA NetWalks ==
  ASSUME Net!TypeOK, NetStore, NEW w \in WRITERS, NEW at \in Net!Places,
         seen[w].at \notin {"idle", "wait", "publish"}, at \notin {"idle", "wait", "commit", "publish"},
         at \in Net!Edits => seen[w].at \in Net!Edits,
         Net!Goes(w, at), UNCHANGED <<now, ses, clock, s18, last, s6>>
  PROVE  /\ NetStore' /\ last = w /\ seen'[w].at = at /\ \A v \in WRITERS \ {w} : seen'[v] = seen[v]
<1>1. last = w /\ (seen[w].at \in Net!Edits => seen[w].op # "scan") /\ seen[w].op \in Net!Asks
  BY NetOwner DEF NetStore, Net!Writers
<1>2. /\ seen' \in [WRITERS -> [at : Net!Places, op : Net!Asks \cup {"none"}, m : Net!Configs]]
      /\ seen'[w].at = at /\ seen'[w].op = seen[w].op
      /\ \A v \in WRITERS \ {w} : seen'[v] = seen[v]
  BY NetGoes
<1> QED  BY <1>1, <1>2, NetMoves

(* A step that gives the lock back.                                         *)
LEMMA NetGives ==
  ASSUME Net!TypeOK, NetStore, NEW w \in WRITERS, seen[w].at \notin {"idle", "wait", "publish"},
         Net!Ends(w), UNCHANGED <<now, ses, clock, s18, s6>>
  PROVE  /\ NetStore' /\ last = w /\ last' = "none" /\ seen'[w].at = "idle"
         /\ \A v \in WRITERS \ {w} : seen'[v] = seen[v]
<1>1. last = w
  BY NetOwner
<1>2. /\ seen' \in [WRITERS -> [at : Net!Places, op : Net!Asks \cup {"none"}, m : Net!Configs]]
      /\ seen'[w].at = "idle" /\ last' = "none"
      /\ \A v \in WRITERS \ {w} : seen'[v] = seen[v]
  BY NetEnds
<1> QED  BY <1>1, <1>2, NetMoves DEF Net!Edits

LEMMA NetPushes ==
  ASSUME Net!TypeOK, NetStore, NetRadio, NEW w \in WRITERS, Net!PushAp(w)
  PROVE  NetStore' /\ NetRadio' /\ s19' \in BOOLEAN /\ last' \in WRITERS \cup {"none"}
<1>1. seen[w].at = "ap" /\ UNCHANGED <<now, ses, clock, s18, s6, s7, s8, s9, s10, s11, s12, s15>>
  BY DEF Net!PushAp, Net!mcfg, Net!sta
<1>2. CASE Net!WifiDone(w, FALSE)
  <2>1. /\ NetStore' /\ s19' = (s19 \/ ~ FALSE) /\ s19' \in BOOLEAN /\ last = w
        /\ last' \in WRITERS \cup {"none"}
        /\ seen'[w].at \in {"tz", "idle"} /\ \A v \in WRITERS \ {w} : seen'[v] = seen[v]
    BY <1>1, <1>2, NetWifiDone
  <2>2. NetRadio'
    BY <1>1, <2>1, NetRadioMoves DEF Net!Scans
  <2> QED  BY <2>1, <2>2
<1>3. CASE Net!Up /\ Net!Goes(w, "stop") /\ UNCHANGED <<last, s17, s19>>
  <2>1. "stop" \in Net!Places /\ "stop" \in Net!Edits /\ "ap" \in Net!Edits
    BY DEF Net!Places, Net!Edits
  <2>2. /\ NetStore' /\ last = w /\ seen'[w].at = "stop" /\ \A v \in WRITERS \ {w} : seen'[v] = seen[v]
    BY <1>1, <1>3, <2>1, NetWalks
  <2>3. NetRadio'
    BY <1>1, <1>3, <2>2, NetRadioMoves DEF Net!Scans
  <2> QED  BY <1>3, <2>2, <2>3 DEF Net!TypeOK, Net!NONE
<1> QED  BY <1>2, <1>3 DEF Net!PushAp

LEMMA NetStops ==
  ASSUME Net!TypeOK, NetStore, NetRadio, NEW w \in WRITERS, Net!StopTimer(w)
  PROVE  NetStore' /\ NetRadio' /\ s8' \in BOOLEAN
<1>1. /\ seen[w].at = "stop" /\ s10' = FALSE /\ s8' = (s8 /\ ses[clock].sta # 0) /\ Net!Goes(w, "leave")
      /\ UNCHANGED <<now, ses, clock, s18, last, s6, s7, s9, s11, s12, s15, s19>>
  BY DEF Net!StopTimer, Net!mcfg
<1>2. "leave" \in Net!Places /\ "leave" \in Net!Edits /\ "stop" \in Net!Edits
  BY DEF Net!Places, Net!Edits
<1>3. /\ NetStore' /\ last = w /\ seen'[w].at = "leave" /\ \A v \in WRITERS \ {w} : seen'[v] = seen[v]
  BY <1>1, <1>2, NetWalks
<1>4. \A v \in WRITERS \ {w} : seen'[v].at \in {"idle", "wait"}
  BY <1>3, NetAlone
<1>5. Net!Dark'
  BY <1>1, <1>3, <1>4 DEF NetRadio, Net!Dark, Net!Up, Net!Scans
<1>6. Net!Behind'
  BY <1>1 DEF NetRadio, Net!Behind, Net!Newest
<1>7. Net!Clears'
  BY <1>1, <1>3, <1>4 DEF Net!Clears
<1>8. Net!WillConnect'
  BY <1>3 DEF Net!WillConnect
<1> QED  BY <1>1, <1>3, <1>5, <1>6, <1>7, <1>8 DEF NetRadio, Net!Retried, Net!Somebody, Net!TypeOK

(* A writer that leaves the network, or parks the STA for its scan.          *)
LEMMA NetDisconnects ==
  ASSUME Net!TypeOK, NetStore, NetRadio, NEW w \in WRITERS, Net!Leave(w) \/ Net!Park(w)
  PROVE  NetStore' /\ NetRadio' /\ s10' \in BOOLEAN /\ s12'.st \in {"idle", "joining", "up"} /\ s9' \in 0 .. 2
<1> DEFINE at == IF seen[w].at = "leave" THEN "config" ELSE "again"
<1>1. /\ seen[w].at \in {"leave", "park"} /\ Net!Goes(w, at) /\ Net!SelfDisconnects
      /\ s10' \in {s10, FALSE}
      /\ UNCHANGED <<now, ses, clock, s18, last, s6, s7, s8, s11, s19>>
  BY DEF Net!Leave, Net!Park, Net!mcfg
<1>2. /\ at \in Net!Places /\ at \in {"config", "again"} /\ (at \in Net!Edits => seen[w].at \in Net!Edits)
      /\ at = "config" => seen[w].at = "leave"
  BY <1>1 DEF Net!Places, Net!Edits, Net!Scans
<1> HIDE DEF at
<1>3. /\ NetStore' /\ last = w /\ seen'[w].at = at /\ \A v \in WRITERS \ {w} : seen'[v] = seen[v]
  BY <1>1, <1>2, NetWalks
<1>4. \A v \in WRITERS \ {w} : seen'[v].at \in {"idle", "wait"}
  BY <1>3, NetAlone
<1>5. /\ s9' = 2 /\ s12' = [st |-> "idle", net |-> 0] /\ Net!Behind /\ Net!Dark
      /\ s15' = (IF s12.st = "idle" THEN s15 ELSE Append(s15, "down"))
  BY <1>1 DEF Net!SelfDisconnects, NetRadio
<1>6. s10' \in BOOLEAN /\ s12' \in [st : {"idle", "joining", "up"}, net : 0 .. 2] /\ s12'.st = "idle"
  <2>1. s10' \in BOOLEAN
    <3>1. s10 \in BOOLEAN
      BY DEF Net!TypeOK
    <3> QED  BY <3>1, <1>1
  <2> QED  BY <2>1, <1>5
<1>7. Net!Up
  BY <1>1, <1>5 DEF Net!Dark, Net!Scans
<1>8. Net!Dark'
  BY <1>1, <1>5, <1>7 DEF Net!Dark, Net!Up
<1>9. Net!Behind'
  <2>1. CASE s12.st = "idle"
    BY <2>1, <1>5, <1>6 DEF Net!Behind, Net!Newest
  <2>2. CASE s12.st # "idle"
    <3>1. s15' \in Seq({"start", "down", "ip"}) /\ s15' # <<>> /\ s15'[Len(s15')] = "down"
      BY <2>2, <1>5, NetPosts
    <3> QED  BY <3>1, <1>6 DEF Net!Behind, Net!Newest
  <2> QED  BY <2>1, <2>2
<1>10. Net!Clears'
  BY <1>1, <1>2, <1>3, <1>4 DEF NetRadio, Net!Clears
<1>11. Net!WillConnect'
  BY <1>2, <1>3 DEF Net!WillConnect
<1> QED  BY <1>3, <1>5, <1>6, <1>8, <1>9, <1>10, <1>11 DEF NetRadio, Net!Retried, Net!Somebody

LEMMA NetConfigures ==
  ASSUME Net!TypeOK, NetStore, NetRadio, NEW w \in WRITERS, Net!Configure(w)
  PROVE  /\ NetStore' /\ NetRadio' /\ s8' \in BOOLEAN /\ s19' \in BOOLEAN /\ s13' \in 0 .. 2
         /\ last' \in WRITERS \cup {"none"}
<1> DEFINE n == ses[clock].sta
<1>1. /\ seen[w].at = "config"
      /\ UNCHANGED <<now, ses, clock, s18, s6, s7, s9, s10, s11, s12, s15>>
  BY DEF Net!Configure, Net!mcfg
<1>2. /\ n \in 0 .. 2 /\ s8 \in BOOLEAN /\ s19 \in BOOLEAN /\ s13 \in 0 .. 2 /\ last \in WRITERS \cup {"none"}
      /\ (n = 0 => ~ s8)
  <2>1. ses[clock] \in Net!Configs
    BY DEF Net!TypeOK
  <2>2. n \in 0 .. 2
    BY <2>1 DEF Net!Configs
  <2> QED  BY <1>1, <2>2 DEF Net!TypeOK, Net!NONE, NetRadio, Net!Clears
<1>3. last = w /\ \A v \in WRITERS \ {w} : seen[v].at \in {"idle", "wait"}
  BY <1>1, NetOwner, NetAlone
<1>4. CASE Net!WifiDone(w, n = 0) /\ UNCHANGED <<s13, s8>>
  <2>1. (n = 0) \in BOOLEAN
    OBVIOUS
  <2>2. /\ NetStore' /\ s19' = (s19 \/ ~ (n = 0)) /\ s19' \in BOOLEAN
        /\ last' \in WRITERS \cup {"none"}
        /\ seen'[w].at \in {"tz", "idle"} /\ \A v \in WRITERS \ {w} : seen'[v] = seen[v]
    BY <1>1, <1>4, <2>1, NetWifiDone
  <2>3. NetRadio'
    BY <1>1, <1>2, <1>3, <1>4, <2>2, NetRadioMoves DEF Net!Scans
  <2> QED  BY <1>2, <1>4, <2>2, <2>3
<1>5. CASE n = 0 /\ Net!WifiDone(w, TRUE) /\ s13' = n /\ s8' = FALSE
  <2>1. /\ NetStore' /\ s19' = (s19 \/ ~ TRUE) /\ s19' \in BOOLEAN
        /\ last' \in WRITERS \cup {"none"}
        /\ seen'[w].at \in {"tz", "idle"} /\ \A v \in WRITERS \ {w} : seen'[v] = seen[v]
    BY <1>1, <1>5, NetWifiDone
  <2>2. NetRadio'
    BY <1>1, <1>2, <1>3, <1>5, <2>1, NetRadioMoves DEF Net!Scans
  <2> QED  BY <1>2, <1>5, <2>1, <2>2
<1>6. CASE n # 0 /\ Net!Goes(w, "connect") /\ UNCHANGED <<last, s19>> /\ s13' = n /\ s8' = TRUE
  <2>1. "connect" \in Net!Places /\ "connect" \in Net!Edits /\ "config" \in Net!Edits
    BY DEF Net!Places, Net!Edits
  <2>2. /\ NetStore' /\ seen'[w].at = "connect" /\ \A v \in WRITERS \ {w} : seen'[v] = seen[v]
    BY <1>1, <1>6, <2>1, NetWalks
  <2>3. Net!Dark'
    BY <1>1, <1>3, <2>2 DEF NetRadio, Net!Dark, Net!Up, Net!Scans
  <2>4. Net!Behind'
    BY <1>1 DEF NetRadio, Net!Behind, Net!Newest
  <2>5. Net!Clears'
    BY <1>3, <2>2 DEF Net!Clears
  <2>6. Net!WillConnect'
    BY <2>2 DEF Net!WillConnect
  <2> QED  BY <1>2, <1>6, <2>2, <2>3, <2>4, <2>5, <2>6 DEF NetRadio, Net!Retried, Net!Somebody
<1> QED  BY <1>4, <1>5, <1>6 DEF Net!Configure

(* A writer that connects after its apply or its scan.                       *)
LEMMA NetConnecting ==
  ASSUME Net!TypeOK, NetStore, NetRadio, NEW w \in WRITERS, Net!Connect(w) \/ Net!Resume(w)
  PROVE  /\ NetStore' /\ NetRadio' /\ s19' \in BOOLEAN /\ s10' \in BOOLEAN /\ s12'.st \in {"idle", "joining", "up"}
         /\ last' \in WRITERS \cup {"none"}
<1>1. /\ seen[w].at \in {"connect", "resume"}
      /\ UNCHANGED <<now, ses, clock, s18, s6, s7, s8, s9, s11, s15>>
  BY DEF Net!Connect, Net!Resume, Net!mcfg
<1>2. /\ s12 \in [st : {"idle", "joining", "up"}, net : 0 .. 2] /\ s8 \in BOOLEAN /\ s10 \in BOOLEAN /\ s19 \in BOOLEAN
      /\ Net!Behind /\ Net!Dark
  BY DEF NetRadio, Net!Behind, Net!TypeOK
<1>3. last = w /\ \A v \in WRITERS \ {w} : seen[v].at \in {"idle", "wait"}
  BY <1>1, NetOwner, NetAlone
<1>4. /\ s10' \in BOOLEAN /\ s12' \in [st : {"idle", "joining", "up"}, net : 0 .. 2]
      /\ s8 => s10' \/ s12'.st # "idle"
      /\ s12'.st = "up" => s12.st = "up"
      /\ s12.st = "up" => s12' = s12
  BY <1>2, NetConnects DEF Net!Connect, Net!Resume
<1>5. /\ NetStore' /\ s19' \in BOOLEAN /\ last' \in WRITERS \cup {"none"}
      /\ seen'[w].at \in {"tz", "idle"} /\ \A v \in WRITERS \ {w} : seen'[v] = seen[v]
  <2>1. CASE Net!Connect(w)
    <3>1. seen[w].at = "connect" /\ Net!WifiDone(w, TRUE)
      BY <2>1 DEF Net!Connect
    <3> QED  BY <1>1, <3>1, NetWifiDone
  <2>2. CASE Net!Resume(w)
    <3>1. seen[w].at = "resume" /\ Net!Ends(w) /\ UNCHANGED s19
      BY <2>2 DEF Net!Resume
    <3> QED  BY <1>1, <1>2, <3>1, NetGives
  <2> QED  BY <2>1, <2>2
<1>6. s7 # "init"
  BY <1>1, <1>2 DEF Net!Dark, Net!Up, Net!Scans
<1>7. Net!Dark'
  BY <1>1, <1>2, <1>3, <1>5, <1>6 DEF Net!Dark, Net!Up, Net!Scans
<1>8. Net!Behind'
  BY <1>1, <1>2, <1>4 DEF Net!Behind, Net!Newest
<1>9. Net!Clears'
  BY <1>3, <1>5 DEF Net!Clears
<1>10. Net!Retried'
  BY <1>1, <1>4 DEF Net!Retried, Net!Somebody
<1> QED  BY <1>4, <1>5, <1>7, <1>8, <1>9, <1>10 DEF NetRadio

LEMMA NetZones ==
  ASSUME Net!TypeOK, NetStore, NetRadio, NEW w \in WRITERS, Net!ApplyTz(w)
  PROVE  NetStore' /\ NetRadio' /\ last' \in WRITERS \cup {"none"}
<1>1. /\ seen[w].at = "tz" /\ Net!Ends(w)
      /\ UNCHANGED <<now, ses, clock, s18, s6, s7, s8, s9, s10, s11, s12, s15, s19>>
  BY DEF Net!ApplyTz, Net!mcfg, Net!sta
<1>2. /\ NetStore' /\ last = w /\ last' = "none" /\ seen'[w].at = "idle"
      /\ \A v \in WRITERS \ {w} : seen'[v] = seen[v]
  BY <1>1, NetGives
<1>3. NetRadio'
  BY <1>1, <1>2, NetRadioMoves DEF Net!Scans
<1> QED  BY <1>2, <1>3

LEMMA NetScans ==
  ASSUME Net!TypeOK, NetStore, NetRadio, NEW w \in WRITERS, Net!ScanStart(w) \/ Net!ScanEnds(w)
  PROVE  NetStore' /\ NetRadio' /\ s14' \in BOOLEAN /\ last' \in WRITERS \cup {"none"}
<1>1. /\ seen[w].at \in {"scan", "again", "scanning", "parked"}
      /\ UNCHANGED <<now, ses, clock, s18, s6, s7, s8, s9, s10, s11, s12, s15, s19>>
  BY DEF Net!ScanStart, Net!ScanEnds, Net!mcfg, Net!sta
<1>2. s14' \in BOOLEAN /\ last \in WRITERS \cup {"none"}
  BY DEF Net!ScanStart, Net!ScanEnds, Net!TypeOK, Net!NONE
<1>3. \/ Net!Ends(w) /\ seen[w].at \in {"scan", "scanning"}
      \/ Net!Ends(w) /\ ~ Net!Up
      \/ /\ Net!Up /\ UNCHANGED last
         /\ \/ seen[w].at = "scan" /\ \E at \in {"scanning", "park"} : Net!Goes(w, at)
            \/ seen[w].at \in {"again", "parked"} /\ \E at \in {"parked", "resume"} : Net!Goes(w, at)
  <2>1. seen[w].at \in {"again", "scanning", "parked"} => Net!Up
    BY DEF NetRadio, Net!Dark, Net!Scans
  <2> QED  BY <1>1, <2>1 DEF Net!ScanStart, Net!ScanEnds
<1>4. seen[w].at \in {"again", "scanning", "parked"} => Net!Up
  BY DEF NetRadio, Net!Dark, Net!Scans
<1>5. CASE Net!Ends(w) /\ seen[w].at \in {"scan", "scanning"}
  <2>1. /\ NetStore' /\ last = w /\ last' = "none" /\ seen'[w].at = "idle"
        /\ \A v \in WRITERS \ {w} : seen'[v] = seen[v]
    BY <1>1, <1>5, NetGives
  <2>2. NetRadio'
    BY <1>1, <1>5, <2>1, NetRadioMoves DEF Net!Scans
  <2> QED  BY <1>2, <2>1, <2>2
<1>6. ASSUME NEW at \in {"scanning", "park", "parked", "resume"}, Net!Goes(w, at), Net!Up, UNCHANGED last,
             seen[w].at # "scan" => at \in {"parked", "resume"}
      PROVE  NetStore' /\ NetRadio'
  <2>1. at \in Net!Places /\ at \notin Net!Edits
    BY DEF Net!Places, Net!Edits, Net!Scans
  <2>2. /\ NetStore' /\ last = w /\ seen'[w].at = at /\ \A v \in WRITERS \ {w} : seen'[v] = seen[v]
    BY <1>1, <1>6, <2>1, NetWalks
  <2>3. seen[w].at # "scan" => seen'[w].at \in {"leave", "config", "connect", "again", "parked", "resume"}
    BY <1>6, <2>2
  <2>4. NetRadio'
    BY <1>1, <1>6, <2>2, <2>3, NetRadioMoves DEF Net!Scans
  <2> QED  BY <2>2, <2>4
<1> QED  BY <1>1, <1>2, <1>3, <1>4, <1>5, <1>6

(* The readers' copies. *)
LEMMA NetReads ==
  ASSUME Net!TypeOK, NetStore, NEW r \in READERS, Net!CopyStart(r) \/ Net!CopyEnd(r)
  PROVE  NetStore'
<1> DEFINE C == [ptr : 0 .. 2, half : Net!Configs, commits : Nat]
           n == IF s6[r].ptr = 0 THEN [ptr |-> clock, half |-> ses[clock], commits |-> 0] ELSE Net!NoCopy
<1>1. /\ UNCHANGED <<now, ses, clock, s18, last, seen>> /\ s6' = [s6 EXCEPT ![r] = n]
  BY DEF Net!CopyStart, Net!CopyEnd, Net!mcfg
<1>2. s6 \in [READERS -> C] /\ clock \in 1 .. 2 /\ ses[clock] \in Net!Configs
  BY DEF NetStore, Net!Readers, Net!TypeOK
<1>3. /\ n \in C
      /\ n.ptr # 0 => n.ptr = clock /\ n.half = ses[clock] /\ n.commits = 0
  <2>1. CASE s6[r].ptr = 0
    BY <2>1, <1>2
  <2>2. CASE s6[r].ptr # 0
    <3>1. Net!Cfg0 \in Net!Configs
      BY DEF Net!Cfg0, Net!Configs
    <3>2. n = [ptr |-> 0, half |-> Net!Cfg0, commits |-> 0]
      BY <2>2 DEF Net!NoCopy
    <3> HIDE DEF Net!Configs, Net!Cfg0
    <3> QED  BY <3>1, <3>2
  <2> QED  BY <2>1, <2>2
<1> HIDE DEF C, n
<1>4. s6' \in [READERS -> C] /\ s6'[r] = n /\ \A q \in READERS \ {r} : s6'[q] = s6[q]
  <2>1. n \in C
    BY <1>3
  <2> QED  BY <1>1, <1>2, <2>1
<1>5. Net!Readers'
  BY <1>4 DEF Net!Readers, C
<1>6. Net!Copies'
  <2> SUFFICES ASSUME NEW q \in READERS, s6'[q].ptr # 0
               PROVE  /\ s6'[q].commits = 0 => s6'[q].ptr = clock /\ s6'[q].half = ses[clock]
                      /\ s6'[q].commits = 1 => s6'[q].ptr = 3 - clock /\ s6'[q].half = ses[3 - clock]
    BY <1>1 DEF Net!Copies
  <2>1. CASE q = r
    BY <2>1, <1>3, <1>4
  <2>2. CASE q # r
    BY <2>2, <1>4 DEF NetStore, Net!Copies
  <2> QED  BY <2>1, <2>2
<1> QED  BY <1>1, <1>5, <1>6
         DEF NetStore, Net!Writers, Net!Locked, Net!OwnFields, Net!Flashed, Net!NoEditLost

LEMMA NetWriters ==
  ASSUME Net!NetInv, NEW w \in WRITERS, Net!Asked(w) \/ Net!Busy(w) \/ Net!Step(w)
  PROVE  Net!NetInv'
<1>1. Net!TypeOK /\ NetStore /\ NetRadio
  BY NetSplits
<1>2. CASE Net!Asked(w) \/ Net!Busy(w)
  <2>1. NetStore' /\ NetRadio'
    BY <1>1, <1>2, NetAsks
  <2>2. Net!TypeOK'
    BY <1>1, <1>2 DEF Net!TypeOK, Net!Asked, Net!Busy, Net!mcfg, Net!sta
  <2> QED  BY <2>1, <2>2 DEF Net!NetInv, NetStore, NetRadio
<1>3. CASE Net!Lock(w)
  <2>1. NetStore' /\ NetRadio'
    BY <1>1, <1>3, NetLocks
  <2>2. Net!TypeOK'
    BY <1>1, <1>3 DEF Net!TypeOK, Net!Lock, Net!mcfg, Net!sta
  <2> QED  BY <2>1, <2>2 DEF Net!NetInv, NetStore, NetRadio
<1>4. CASE Net!Commit(w)
  <2>1. NetStore' /\ NetRadio' /\ now' \in Net!Configs
    BY <1>1, <1>4, NetCommits
  <2>2. Net!TypeOK'
    <3>1. last' \in WRITERS \cup {Net!NONE} /\ UNCHANGED <<ses, clock, s18, s8, s9, s10, s12, s13, s14, s19>>
      BY <1>1, <1>4 DEF Net!TypeOK, Net!Commit, Net!Ends, Net!sta
    <3> QED  BY <1>1, <2>1, <3>1 DEF Net!TypeOK
  <2> QED  BY <2>1, <2>2 DEF Net!NetInv, NetStore, NetRadio
<1>5. CASE Net!Publish(w)
  <2>1. /\ NetStore' /\ NetRadio'
        /\ ses' \in [1 .. 2 -> Net!Configs] /\ clock' \in 1 .. 2 /\ s18' \in Net!Configs
    BY <1>1, <1>5, NetPublishes
  <2>2. Net!TypeOK'
    <3>1. UNCHANGED <<now, last, s8, s9, s10, s12, s13, s14, s19>>
      BY <1>5 DEF Net!Publish, Net!sta
    <3> QED  BY <1>1, <2>1, <3>1 DEF Net!TypeOK
  <2> QED  BY <2>1, <2>2 DEF Net!NetInv, NetStore, NetRadio
<1>6. CASE Net!PushAp(w)
  <2>1. NetStore' /\ NetRadio' /\ s19' \in BOOLEAN /\ last' \in WRITERS \cup {"none"}
    BY <1>1, <1>6, NetPushes
  <2>2. UNCHANGED <<now, ses, clock, s18, s8, s9, s10, s12, s13, s14>>
    BY <1>6 DEF Net!PushAp, Net!mcfg, Net!sta
  <2>3. Net!TypeOK'
    BY <1>1, <2>1, <2>2 DEF Net!TypeOK, Net!NONE
  <2> QED  BY <2>1, <2>3 DEF Net!NetInv, NetStore, NetRadio
<1>7. CASE Net!StopTimer(w)
  <2>1. NetStore' /\ NetRadio' /\ s8' \in BOOLEAN
    BY <1>1, <1>7, NetStops
  <2>2. s10' = FALSE /\ UNCHANGED <<now, ses, clock, s18, last, s9, s12, s13, s14, s19>>
    BY <1>7 DEF Net!StopTimer, Net!mcfg
  <2>3. Net!TypeOK'
    BY <1>1, <2>1, <2>2 DEF Net!TypeOK
  <2> QED  BY <2>1, <2>3 DEF Net!NetInv, NetStore, NetRadio
<1>8. CASE Net!Leave(w) \/ Net!Park(w)
  <2>1. NetStore' /\ NetRadio' /\ s10' \in BOOLEAN /\ s12'.st \in {"idle", "joining", "up"} /\ s9' \in 0 .. 2
    BY <1>1, <1>8, NetDisconnects
  <2>2. UNCHANGED <<now, ses, clock, s18, last, s8, s13, s14, s19>>
    BY <1>8 DEF Net!Leave, Net!Park, Net!mcfg
  <2>3. Net!TypeOK'
    BY <1>1, <2>1, <2>2 DEF Net!TypeOK
  <2> QED  BY <2>1, <2>3 DEF Net!NetInv, NetStore, NetRadio
<1>9. CASE Net!Configure(w)
  <2>1. /\ NetStore' /\ NetRadio' /\ s8' \in BOOLEAN /\ s19' \in BOOLEAN /\ s13' \in 0 .. 2
        /\ last' \in WRITERS \cup {"none"}
    BY <1>1, <1>9, NetConfigures
  <2>2. UNCHANGED <<now, ses, clock, s18, s9, s10, s12, s14>>
    BY <1>9 DEF Net!Configure, Net!mcfg
  <2>3. Net!TypeOK'
    BY <1>1, <2>1, <2>2 DEF Net!TypeOK, Net!NONE
  <2> QED  BY <2>1, <2>3 DEF Net!NetInv, NetStore, NetRadio
<1>10. CASE Net!Connect(w) \/ Net!Resume(w)
  <2>1. /\ NetStore' /\ NetRadio' /\ s19' \in BOOLEAN /\ s10' \in BOOLEAN /\ s12'.st \in {"idle", "joining", "up"}
        /\ last' \in WRITERS \cup {"none"}
    BY <1>1, <1>10, NetConnecting
  <2>2. UNCHANGED <<now, ses, clock, s18, s8, s9, s13, s14>>
    BY <1>10 DEF Net!Connect, Net!Resume, Net!mcfg
  <2>3. Net!TypeOK'
    BY <1>1, <2>1, <2>2 DEF Net!TypeOK, Net!NONE
  <2> QED  BY <2>1, <2>3 DEF Net!NetInv, NetStore, NetRadio
<1>11. CASE Net!ApplyTz(w)
  <2>1. NetStore' /\ NetRadio' /\ last' \in WRITERS \cup {"none"}
    BY <1>1, <1>11, NetZones
  <2>2. UNCHANGED <<now, ses, clock, s18, s8, s9, s10, s12, s13, s14, s19>>
    BY <1>11 DEF Net!ApplyTz, Net!mcfg, Net!sta
  <2>3. Net!TypeOK'
    BY <1>1, <2>1, <2>2 DEF Net!TypeOK, Net!NONE
  <2> QED  BY <2>1, <2>3 DEF Net!NetInv, NetStore, NetRadio
<1>12. CASE Net!ScanStart(w) \/ Net!ScanEnds(w)
  <2>1. NetStore' /\ NetRadio' /\ s14' \in BOOLEAN /\ last' \in WRITERS \cup {"none"}
    BY <1>1, <1>12, NetScans
  <2>2. UNCHANGED <<now, ses, clock, s18, s8, s9, s10, s12, s13, s19>>
    BY <1>12 DEF Net!ScanStart, Net!ScanEnds, Net!mcfg, Net!sta
  <2>3. Net!TypeOK'
    BY <1>1, <2>1, <2>2 DEF Net!TypeOK, Net!NONE
  <2> QED  BY <2>1, <2>3 DEF Net!NetInv, NetStore, NetRadio
<1> QED  BY <1>2, <1>3, <1>4, <1>5, <1>6, <1>7, <1>8, <1>9, <1>10, <1>11, <1>12 DEF Net!Step

LEMMA NetOthers ==
  ASSUME Net!NetInv, \/ \E r \in READERS : Net!CopyStart(r) \/ Net!CopyEnd(r)
                     \/ Net!EventTask \/ Net!Retries \/ Net!Boots \/ Net!Joins \/ Net!Drops \/ Net!MarkerAges
                     \/ UNCHANGED slots
  PROVE  Net!NetInv'
<1>1. Net!TypeOK /\ NetStore /\ NetRadio
  BY NetSplits
<1>2. CASE \E r \in READERS : Net!CopyStart(r) \/ Net!CopyEnd(r)
  <2>1. NetStore'
    BY <1>1, <1>2, NetReads
  <2>2. UNCHANGED <<now, ses, clock, s18, last, seen, s7, s8, s9, s10, s11, s12, s13, s14, s15, s19>>
    BY <1>2 DEF Net!CopyStart, Net!CopyEnd, Net!mcfg, Net!sta
  <2>3. Net!TypeOK'
    BY <1>1, <2>2 DEF Net!TypeOK
  <2>4. NetRadio'
    BY <1>1, <2>2 DEF NetRadio, Net!Dark, Net!Up, Net!Behind, Net!Clears, Net!Retried, Net!Somebody, Net!WillArm,
                      Net!WillConnect, Net!StartDue, Net!Newest
  <2> QED  BY <2>1, <2>3, <2>4 DEF Net!NetInv, NetStore, NetRadio
<1>3. CASE Net!EventTask
  <2>1. NetRadio' /\ s12'.st \in {"idle", "joining", "up"} /\ s10' \in BOOLEAN /\ s9' \in 0 .. 2
    BY <1>1, <1>3, NetEvent
  <2>2. UNCHANGED <<now, ses, clock, s18, last, seen, s6, s8, s13, s14, s19>>
    BY <1>3 DEF Net!EventTask, Net!mcfg
  <2>3. Net!TypeOK'
    BY <1>1, <2>1, <2>2 DEF Net!TypeOK
  <2> QED  BY <1>1, <2>1, <2>2, <2>3, NetAside
           DEF Net!NetInv, NetStore, NetRadio
<1>4. CASE Net!Retries
  <2>1. NetRadio' /\ s12'.st \in {"idle", "joining", "up"} /\ s10' \in BOOLEAN
    BY <1>1, <1>4, NetRetries
  <2>2. UNCHANGED <<now, ses, clock, s18, last, seen, s6, s8, s9, s13, s14, s19>>
    BY <1>4 DEF Net!Retries, Net!TimerFires, Net!RetryChecks, Net!RetryConnects, Net!mcfg
  <2>3. Net!TypeOK'
    BY <1>1, <2>1, <2>2 DEF Net!TypeOK
  <2> QED  BY <1>1, <2>1, <2>2, <2>3, NetAside
           DEF Net!NetInv, NetStore, NetRadio
<1>5. CASE Net!Boots
  <2>1. NetRadio'
    BY <1>1, <1>5, NetBoots
  <2>2. UNCHANGED <<now, ses, clock, s18, last, seen, s6, s8, s9, s10, s12, s13, s14, s19>>
    BY <1>5 DEF Net!Boots, Net!StartRadio, Net!Started, Net!OnSta, Net!mcfg, Net!sta
  <2>3. Net!TypeOK'
    BY <1>1, <2>1, <2>2 DEF Net!TypeOK
  <2> QED  BY <1>1, <2>1, <2>2, <2>3, NetAside
           DEF Net!NetInv, NetStore, NetRadio
<1>6. CASE Net!Joins \/ Net!Drops
  <2>1. NetRadio' /\ s12'.st \in {"idle", "joining", "up"}
    BY <1>1, <1>6, NetJoins, NetDrops
  <2>2. UNCHANGED <<now, ses, clock, s18, last, seen, s6, s8, s9, s10, s13, s14, s19>>
    BY <1>6 DEF Net!Joins, Net!Drops, Net!mcfg
  <2>3. Net!TypeOK'
    BY <1>1, <2>1, <2>2 DEF Net!TypeOK
  <2> QED  BY <1>1, <2>1, <2>2, <2>3, NetAside
           DEF Net!NetInv, NetStore, NetRadio
<1>7. CASE Net!MarkerAges
  <2>1. NetRadio' /\ s9' \in 0 .. 2
    BY <1>1, <1>7, NetAges
  <2>2. UNCHANGED <<now, ses, clock, s18, last, seen, s6, s8, s10, s12, s13, s14, s19>>
    BY <1>7 DEF Net!MarkerAges, Net!mcfg
  <2>3. Net!TypeOK'
    BY <1>1, <2>1, <2>2 DEF Net!TypeOK
  <2> QED  BY <1>1, <2>1, <2>2, <2>3, NetAside
           DEF Net!NetInv, NetStore, NetRadio
<1>8. CASE UNCHANGED slots
  <2>1. UNCHANGED <<now, ses, clock, s18, last, seen, s6, s7, s8, s9, s10, s11, s12, s13, s14, s15, s19>>
    BY <1>8 DEF slots
  <2>2. Net!TypeOK'
    BY <1>1, <2>1 DEF Net!TypeOK
  <2>3. NetRadio'
    BY <1>1, <2>1 DEF NetRadio, Net!Dark, Net!Up, Net!Behind, Net!Clears, Net!Retried, Net!Somebody, Net!WillArm,
                      Net!WillConnect, Net!StartDue, Net!Newest
  <2> QED  BY <1>1, <2>1, <2>2, <2>3, NetAside
           DEF Net!NetInv, NetStore, NetRadio
<1> QED  BY <1>2, <1>3, <1>4, <1>5, <1>6, <1>7, <1>8

LEMMA NetMeans == Net!NetInv => Net!NoEditLost /\ Net!WholeCopy /\ Net!NeverStuck
<1> SUFFICES ASSUME Net!NetInv PROVE Net!NoEditLost /\ Net!WholeCopy /\ Net!NeverStuck
  OBVIOUS
<1>1. Net!TypeOK /\ NetStore /\ NetRadio
  BY NetSplits
<1>2. Net!NoEditLost
  BY <1>1 DEF NetStore
<1>3. Net!WholeCopy
  <2> SUFFICES ASSUME NEW r \in READERS, s6[r].ptr # 0, s6[r].commits < 2 PROVE ses[s6[r].ptr] = s6[r].half
    BY DEF Net!WholeCopy
  <2>1. s6[r].commits \in Nat
    BY <1>1 DEF NetStore, Net!Readers
  <2>2. s6[r].commits = 0 \/ s6[r].commits = 1
    BY <2>1
  <2> QED  BY <1>1, <2>2 DEF NetStore, Net!Copies
<1>4. Net!NeverStuck
  <2> SUFFICES ASSUME Net!Quiet, s8, ~ s19, s12.st = "idle" PROVE FALSE
    BY DEF Net!NeverStuck
  <2>1. Net!Somebody
    BY <1>1 DEF NetRadio, Net!Retried
  <2>2. ~ Net!WillConnect
    BY <1>1, NetBounds DEF Net!Quiet, Net!NONE, Net!WillConnect, NetStore, Net!Locked
  <2>3. ~ Net!StartDue
    BY DEF Net!Quiet, Net!StartDue
  <2> QED  BY <2>1, <2>2, <2>3 DEF Net!Somebody, Net!Quiet, Net!WillArm
<1> QED  BY <1>2, <1>3, <1>4

(* and the network.                                                          *)
NetHoldsInv == part = "net" => Net!NetInv

(* mcfg_ops.c, mcfg_store.c and wifi_mgr_sta.c: what a writer was told is    *)
(* stored stays stored, a reader that is faster than two commits has one whole *)
(* configuration, and a configured STA that is not joined has somebody about *)
(* to try again, whatever scans, applies, disconnects and refusals interleave. *)
THEOREM NetHolds == FrontsSpec => []NetKept
<1>1. FrontsInit => NetHoldsInv
  BY NetStarts DEF FrontsInit, NetHoldsInv
<1>2. NetHoldsInv /\ [FrontsNext]_<<part, slots>> => NetHoldsInv'
  <2> SUFFICES ASSUME NetHoldsInv, [FrontsNext]_<<part, slots>> PROVE NetHoldsInv'
    OBVIOUS
  <2>1. part' = part /\ (part = "net" => Net!Next \/ UNCHANGED slots)
    BY DEF FrontsNext
  <2> QED  BY <2>1, NetWriters, NetOthers DEF NetHoldsInv, Net!Next
<1>3. NetHoldsInv => NetKept
  BY NetMeans DEF NetHoldsInv, NetKept
<1> QED  BY <1>1, <1>2, <1>3, PTL DEF FrontsSpec
===============================================================================
