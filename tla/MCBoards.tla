------------------------------ MODULE MCBoards ------------------------------
(***************************************************************************)
(* Boards on small instances.                                               *)
(***************************************************************************)
EXTENDS Boards, TLC

(* Texts as they are typed, and leaves as a file has them.                   *)
HM(h)     == <<"hm", h, 0>>
Num(n)    == <<"num", n>>
Word(w)   == <<"word", w>>
Str(n, c) == <<"string", <<"str", n, c>>>>

FieldTexts ==
     <<"LIGHT", 1, "ON">>               :> {HM(22), Num(360)}
  @@ <<"LIGHT", 1, "OFF">>              :> {HM(6), Num(420)}
  @@ <<"WATER", 1, "DOSE_S">>           :> {Num(20), Num(90)}
  @@ <<"HWSHELF", 1, "PUMP_MAX_RUN_S">> :> {Num(10), Num(90)}
  @@ <<"SHELF", 2, "ENABLED">>          :> {Word("ON")}
  @@ <<"HW", 0, "SHELVES">>             :> {Num(1), Num(3)}
  @@ <<"HWSHELF", 2, "LED_W">>          :> {Num(0), Word("NONE")}
  @@ <<"CAL", 1, "MIN_OK">>             :> {Num(400)}
  @@ <<"AUX", 1, "PULSE_S">>            :> {Num(31)}
FieldsEdited == DOMAIN FieldTexts
FieldLeaves ==
     <<"LIGHT", 1, "ON">>      :> {<<"string", HM(22)>>, <<"string", HM(6)>>}
  @@ <<"LIGHT", 1, "OFF">>     :> {<<"string", HM(22)>>, <<"string", HM(6)>>}
  @@ <<"SHELF", 2, "ENABLED">> :> {<<"bool", TRUE>>, <<"bool", FALSE>>, <<"number", 1>>}
  @@ <<"WATER", 1, "DOSE_S">>  :> {<<"number", 90>>, <<"number", 301>>}
  @@ <<"HW", 0, "SHELVES">>    :> {<<"number", 1>>}
MasterLeaves ==
     "STA_PASS" :> {Str(0, "host"), Str(8, "plain"), Str(7, "host")}
  @@ "AP_PASS"  :> {Str(0, "host"), Str(10, "space"), Str(65, "host")}
  @@ "HOSTNAME" :> {Str(5, "host"), Str(5, "plain"), <<"number", 3>>}
  @@ "NTP"      :> {Str(6, "plain"), Str(6, "space")}

StagedImages ==
  { [hdr |-> FALSE, crc |-> FALSE, ver |-> 0,  len |-> 1], [hdr |-> TRUE, crc |-> FALSE, ver |-> 37, len |-> 2],
    [hdr |-> TRUE,  crc |-> TRUE,  ver |-> 25, len |-> 1], [hdr |-> TRUE, crc |-> TRUE,  ver |-> 36, len |-> 1],
    [hdr |-> TRUE,  crc |-> TRUE,  ver |-> 37, len |-> 2], [hdr |-> TRUE, crc |-> TRUE,  ver |-> 37, len |-> 3] }

(* The zones have all got ids, or none has; their heartbeats are in step.   *)
OneKind == \A x, y \in 1 .. WIRE_ZONES : (tape[x] = Link!UNASSIGNED) = (tape[y] = Link!UNASSIGNED)
InPhase == \A y, z \in 1 .. RING_ZONES : exported[y].wait = exported[z].wait

MCInit ==
  /\ BoardsInit
  /\ part = "link" => OneKind
  /\ part = "health" => InPhase

MCSpec == MCInit /\ [][BoardsNext]_<<part, slots>> /\ Fairness
=============================================================================
