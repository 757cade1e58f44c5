---------------------------- MODULE BoardsProofs ----------------------------
(***************************************************************************)
(* Proofs about what each board does on its own: the configuration store,   *)
(* the master's boot, the rescue image, and the alarms.  A behaviour of      *)
(* BoardsSpec is a behaviour of one component, its variables held in the     *)
(* slots, so each theorem rests on an invariant of that component            *)
(* (Store!StoreInv, Boot!BootInv, Rescue!RescueInv, Alarm!AlarmInv) and on   *)
(* one lemma per action of it.                                               *)
(***************************************************************************)
EXTENDS Boards, FiniteSetTheorems, NaturalsInduction, WellFoundedInduction, TLAPS

-----------------------------------------------------------------------------
(* HgStore.  Its variables live, dirty, wire, closed, force, pass, flash,    *)
(* asked, used and torn are the slots doc, file, exported, dumped, tape,     *)
(* missing, reply, edits, s9 and s10.                                        *)

LEMMA StoreValues ==
  /\ Store!None \in Store!Contents /\ Store!Asleep \in Store!Passes
  /\ Store!Defaults \in [Store!Planes -> Store!Contents]
  /\ \A v \in Nat, port \in BOOLEAN : Store!Content(v, port) \in Store!Contents
BY DEF Store!None, Store!Contents, Store!Asleep, Store!Passes, Store!Defaults, Store!Planes, Store!Content

LEMMA StoreStarts == Store!Init => Store!StoreInv
<1> SUFFICES ASSUME Store!Init PROVE Store!StoreInv
  OBVIOUS
<1> DEFINE Old == [ver |-> 0, port |-> FALSE, old |-> TRUE, none |-> FALSE]
<1>1. Old \in Store!Contents
  BY DEF Store!Contents
<1>2. reply \in [Store!Planes -> {Store!None, Old}]
  BY DEF Store!Init
<1> DEFINE Zero == [ver |-> 0, port |-> FALSE, old |-> FALSE, none |-> FALSE]
<1>3. /\ doc = [p \in Store!Planes |-> IF reply[p].none THEN Store!Defaults[p] ELSE Zero]
      /\ exported = [p \in Store!Planes |-> IF reply[p].none THEN Store!None ELSE doc[p]]
  BY DEF Store!Init, Store!Content
<1>4. Zero \in Store!Contents
  BY DEF Store!Contents
<1> HIDE DEF Old, Zero
<1>t. Store!TypeOK
  <2>1. reply \in [Store!Planes -> Store!Contents]
    BY <1>1, <1>2, StoreValues
  <2>2. doc \in [Store!Planes -> Store!Contents]
    BY <1>3, <1>4, StoreValues
  <2>3. exported \in [Store!Planes -> Store!Contents]
    BY <1>3, <2>2, StoreValues
  <2> QED  BY <2>1, <2>2, <2>3, StoreValues DEF Store!TypeOK, Store!Init
<1>5. ASSUME NEW p \in Store!Planes
      PROVE  /\ doc[p].ver = 0 /\ ~doc[p].none
             /\ exported[p].none \/ exported[p] = doc[p]
             /\ exported[p].ver = 0 /\ reply[p].ver = 0
             /\ ~ exported[p].none => reply[p] # doc[p]
             /\ doc[p].port = Store!Stored(p).port /\ Store!Stored(p).ver = 0
  <2>1. reply[p] = Store!None \/ reply[p] = Old
    BY <1>2
  <2>2. doc[p] = IF reply[p].none THEN Store!Defaults[p] ELSE Zero
    BY <1>3
  <2>3. exported[p] = IF reply[p].none THEN Store!None ELSE doc[p]
    BY <1>3
  <2>4. Store!Defaults[p].ver = 0 /\ ~ Store!Defaults[p].none
    BY DEF Store!Defaults, Store!Content
  <2>5. Store!None.none /\ Store!None.ver = 0
    BY DEF Store!None
  <2>6. ~ Old.none /\ Old.ver = 0 /\ Old.old /\ ~ Old.port
    BY DEF Old
  <2>7. ~ Zero.none /\ Zero.ver = 0 /\ ~ Zero.old /\ ~ Zero.port
    BY DEF Zero
  <2>8. CASE reply[p] = Store!None
    <3>1. doc[p] = Store!Defaults[p] /\ Store!Stored(p) = Store!Defaults[p] /\ exported[p] = Store!None
      BY <2>2, <2>3, <2>5, <2>8 DEF Store!Stored
    <3> QED  BY <3>1, <2>4, <2>5, <2>8
  <2>9. CASE reply[p] = Old
    <3>1. doc[p] = Zero /\ Store!Stored(p) = Old /\ exported[p] = Zero
      BY <2>2, <2>3, <2>6, <2>9 DEF Store!Stored
    <3>2. Old # Zero /\ Old.port = Zero.port
      <4>1. Old.old # Zero.old /\ Old.port = FALSE /\ Zero.port = FALSE
        BY DEF Old, Zero
      <4> QED  BY <4>1
    <3> QED  BY <3>1, <3>2, <2>6, <2>7, <2>9
  <2> QED  BY <2>1, <2>8, <2>9
<1>6. missing = Store!Asleep /\ file = {}
  BY DEF Store!Init
<1>7. Store!Versions
  <2>1. s9 = [edit |-> 0, flush |-> 0, fault |-> 0] /\ missing.hand.ver = 0
    BY <1>6 DEF Store!Init, Store!Asleep, Store!None
  <2> QED  BY <2>1, <1>5 DEF Store!Versions
<1>8. Store!OnTheWay /\ Store!News
  BY <1>5, <1>6 DEF Store!OnTheWay, Store!News, Store!Asleep
<1>9. Store!LiveValid
  <2>1. "cfg" \in Store!Planes /\ doc["cfg"] = IF reply["cfg"].none THEN Store!Defaults["cfg"] ELSE Zero
    BY <1>3 DEF Store!Planes
  <2>2. Zero.port = FALSE /\ Store!Defaults["cfg"].port = FALSE
    BY DEF Zero, Store!Defaults, Store!Content, Store!Planes
  <2>3. ~ doc["cfg"].port
    BY <2>1, <2>2
  <2> QED  BY <2>3 DEF Store!LiveValid, Store!Valid
<1>10. Store!FlashBehind /\ Store!NothingForgotten
  BY <1>5 DEF Store!FlashBehind, Store!NothingForgotten
<1>11. Store!TornIsTransient
  BY <1>5, <1>9 DEF Store!TornIsTransient, Store!LiveValid, Store!Valid, Store!Planes
<1> QED  BY <1>t, <1>7, <1>8, <1>9, <1>10, <1>11 DEF Store!StoreInv

(* A step outside the handing over of a plane leaves all but the types alone. *)
LEMMA StoreIdles ==
  ASSUME Store!StoreInv, UNCHANGED <<doc, file, exported, reply, s10>>,
         s9' \in [edit : Nat, flush : Nat, fault : Nat], s9'.edit = s9.edit,
         missing.at # "stage", missing'.at # "stage", missing'.hand.ver <= s9.edit
  PROVE  /\ Store!Versions' /\ Store!OnTheWay' /\ Store!News' /\ Store!LiveValid'
         /\ Store!FlashBehind' /\ Store!NothingForgotten' /\ Store!TornIsTransient'
<1> USE DEF Store!StoreInv
<1>1. Store!Versions'
  BY DEF Store!Versions
<1>2. Store!OnTheWay' /\ Store!News'
  BY DEF Store!OnTheWay, Store!News
<1>3. Store!LiveValid' /\ Store!FlashBehind'
  BY DEF Store!LiveValid, Store!FlashBehind, Store!Stored
<1>4. Store!NothingForgotten' /\ Store!TornIsTransient'
  BY DEF Store!NothingForgotten, Store!TornIsTransient, Store!UnderWay, Store!Stored
<1> QED  BY <1>1, <1>2, <1>3, <1>4

(* The same of a step that does not touch the store task either. *)
LEMMA StorePasses ==
  ASSUME Store!StoreInv, UNCHANGED <<doc, file, exported, missing, reply, s10>>,
         s9' \in [edit : Nat, flush : Nat, fault : Nat], s9'.edit = s9.edit
  PROVE  /\ Store!Versions' /\ Store!OnTheWay' /\ Store!News' /\ Store!LiveValid'
         /\ Store!FlashBehind' /\ Store!NothingForgotten' /\ Store!TornIsTransient'
<1> USE DEF Store!StoreInv
<1>1. Store!Versions'
  BY DEF Store!Versions
<1>2. Store!OnTheWay' /\ Store!News'
  BY DEF Store!OnTheWay, Store!News
<1>3. Store!LiveValid' /\ Store!FlashBehind'
  BY DEF Store!LiveValid, Store!FlashBehind, Store!Stored
<1>4. Store!NothingForgotten' /\ Store!TornIsTransient'
  BY DEF Store!NothingForgotten, Store!TornIsTransient, Store!UnderWay, Store!Stored
<1> QED  BY <1>1, <1>2, <1>3, <1>4

LEMMA StoreWakes == Store!StoreInv /\ Store!Wake => Store!StoreInv'
<1> SUFFICES ASSUME Store!StoreInv, Store!Wake PROVE Store!StoreInv'
  OBVIOUS
<1>1. missing' = [Store!Asleep EXCEPT !.at = "take", !.mask = file, !.force = tape]
  BY DEF Store!Wake
<1>2. missing' \in Store!Passes /\ missing'.at = "take" /\ missing'.hand.ver = 0
  BY <1>1 DEF Store!StoreInv, Store!TypeOK, Store!Asleep, Store!Passes, Store!Contents, Store!None, Store!Planes
<1>3. Store!TypeOK'
  BY <1>2 DEF Store!StoreInv, Store!Wake, Store!TypeOK
<1>4. s9 \in [edit : Nat, flush : Nat, fault : Nat] /\ missing.at # "stage"
  BY DEF Store!StoreInv, Store!Versions, Store!Wake
<1> QED  BY <1>2, <1>3, <1>4, StoreIdles DEF Store!StoreInv, Store!Wake

LEMMA StoreEndsPass == Store!StoreInv /\ Store!EndPass => Store!StoreInv'
<1> SUFFICES ASSUME Store!StoreInv, Store!EndPass PROVE Store!StoreInv'
  OBVIOUS
<1>1. CASE missing.force /\ ~ missing.again
  <2>1. missing' = [missing EXCEPT !.at = "take", !.mask = file, !.again = TRUE] /\ tape' = tape
    BY <1>1 DEF Store!EndPass
  <2>2. missing' \in Store!Passes /\ missing'.at = "take" /\ missing'.hand = missing.hand
    BY <2>1 DEF Store!StoreInv, Store!TypeOK, Store!Passes
  <2> QED  BY <2>1, <2>2, StoreIdles DEF Store!StoreInv, Store!TypeOK, Store!EndPass, Store!Versions
<1>2. CASE ~ (missing.force /\ ~ missing.again)
  <2>1. missing' = Store!Asleep /\ tape' \in BOOLEAN
    BY <1>2 DEF Store!EndPass, Store!StoreInv, Store!TypeOK
  <2>2. missing'.at = "wait" /\ missing'.hand.ver = 0
    BY <2>1 DEF Store!Asleep, Store!None
  <2> QED  BY <2>1, <2>2, StoreIdles, StoreValues DEF Store!StoreInv, Store!TypeOK, Store!EndPass, Store!Versions
<1> QED  BY <1>1, <1>2

LEMMA StoreTakes == Store!StoreInv /\ Store!Take => Store!StoreInv'
<1> SUFFICES ASSUME Store!StoreInv, Store!Take PROVE Store!StoreInv'
  OBVIOUS
<1> DEFINE p == missing.plane
<1>1. Store!TypeOK /\ p \in Store!Planes /\ missing.at = "take"
  BY DEF Store!StoreInv, Store!TypeOK, Store!Passes, Store!Take
<1>2. CASE Store!MayTake(p)
  <2>1. /\ file' = file \ {p} /\ missing' = [missing EXCEPT !.at = "stage", !.hand = doc[p]]
        /\ p \in file /\ exported[p].none
        /\ UNCHANGED <<doc, exported, dumped, tape, reply, edits, s9, s10>>
    BY <1>2 DEF Store!Take, Store!MayTake
  <2>2. missing' \in Store!Passes
    BY <2>1, <1>1 DEF Store!TypeOK, Store!Passes
  <2>3. missing'.at = "stage" /\ missing'.plane = p /\ missing'.hand = doc[p]
    BY <2>1, <1>1 DEF Store!TypeOK, Store!Passes
  <2> HIDE DEF p
  <2>4. Store!TypeOK'
    BY <2>1, <2>2, <1>1 DEF Store!TypeOK
  <2>5. Store!Versions'
    BY <2>1, <2>3, <1>1 DEF Store!StoreInv, Store!Versions
  <2>6. Store!OnTheWay' /\ Store!News'
    BY <2>1, <2>3, <1>1 DEF Store!StoreInv, Store!OnTheWay, Store!News
  <2>7. Store!LiveValid' /\ Store!FlashBehind'
    BY <2>1 DEF Store!StoreInv, Store!LiveValid, Store!FlashBehind, Store!Stored
  <2>8. \A q \in Store!Planes : Store!UnderWay(q) => Store!UnderWay(q)'
    BY <2>1, <2>3, <1>1 DEF Store!UnderWay
  <2>9. Store!NothingForgotten' /\ Store!TornIsTransient'
    BY <2>1, <2>8 DEF Store!StoreInv, Store!NothingForgotten, Store!TornIsTransient, Store!Stored, Store!Planes
  <2> QED  BY <2>4, <2>5, <2>6, <2>7, <2>9 DEF Store!StoreInv
<1>3. CASE ~ Store!MayTake(p)
  <2>1. missing' = Store!NextPlane("take") /\ UNCHANGED <<doc, file, exported, dumped, tape, reply, edits, s9, s10>>
    BY <1>3 DEF Store!Take
  <2>2. missing' \in Store!Passes /\ missing'.at # "stage" /\ missing'.hand = missing.hand
    BY <2>1, <1>1 DEF Store!TypeOK, Store!NextPlane, Store!Planes, Store!Passes
  <2> QED  BY <1>1, <2>1, <2>2, StoreIdles DEF Store!StoreInv, Store!TypeOK, Store!Versions
<1> QED  BY <1>2, <1>3

LEMMA StoreStages == Store!StoreInv /\ Store!Stage => Store!StoreInv'
<1> SUFFICES ASSUME Store!StoreInv, Store!Stage PROVE Store!StoreInv'
  OBVIOUS
<1> DEFINE p == missing.plane
<1>1. Store!TypeOK /\ p \in Store!Planes /\ missing.at = "stage" /\ missing.hand \in Store!Contents
  BY DEF Store!StoreInv, Store!TypeOK, Store!Passes, Store!Stage
<1>2. /\ missing' = [Store!NextPlane("take") EXCEPT !.hand = Store!None]
      /\ exported' = [exported EXCEPT ![p] = missing.hand]
      /\ UNCHANGED <<doc, file, dumped, tape, reply, edits, s9, s10>>
  BY DEF Store!Stage
<1>3. Store!NextPlane("take") \in Store!Passes /\ Store!NextPlane("take").at # "stage"
  BY <1>1 DEF Store!TypeOK, Store!NextPlane, Store!Planes, Store!Passes
<1>4. missing' \in Store!Passes /\ missing'.at # "stage" /\ missing'.hand = Store!None /\ Store!None.ver = 0
  BY <1>2, <1>3, StoreValues DEF Store!Passes, Store!None
<1> HIDE DEF p
<1>5. /\ exported \in [Store!Planes -> Store!Contents] /\ exported' \in [Store!Planes -> Store!Contents]
      /\ exported'[p] = missing.hand /\ \A q \in Store!Planes : q # p => exported'[q] = exported[q]
  BY <1>1, <1>2 DEF Store!TypeOK
<1>6. Store!TypeOK'
  BY <1>1, <1>2, <1>4, <1>5 DEF Store!TypeOK
<1>7. Store!Versions'
  BY <1>1, <1>2, <1>4, <1>5 DEF Store!StoreInv, Store!Versions
<1>8. Store!OnTheWay'
  BY <1>1, <1>2, <1>4, <1>5 DEF Store!StoreInv, Store!OnTheWay, p
<1>9. Store!News'
  BY <1>1, <1>2, <1>4, <1>5 DEF Store!StoreInv, Store!News, p
<1>10. Store!LiveValid' /\ Store!FlashBehind'
  BY <1>2 DEF Store!StoreInv, Store!LiveValid, Store!FlashBehind, Store!Stored
<1>11. ASSUME NEW q \in Store!Planes, Store!UnderWay(q) PROVE Store!UnderWay(q)'
  <2>1. CASE q = p
    <3>1. exported[p] # doc[p]
      BY <1>1 DEF Store!StoreInv, Store!News, Store!OnTheWay, p
    <3> QED  BY <3>1, <2>1, <1>2, <1>5, <1>11 DEF Store!UnderWay
  <2>2. CASE q # p
    BY <2>2, <1>2, <1>5, <1>11 DEF Store!UnderWay, p
  <2> QED  BY <2>1, <2>2
<1>12. Store!NothingForgotten' /\ Store!TornIsTransient'
  BY <1>2, <1>11 DEF Store!StoreInv, Store!NothingForgotten, Store!TornIsTransient, Store!Stored, Store!Planes
<1> QED  BY <1>6, <1>7, <1>8, <1>9, <1>10, <1>12 DEF Store!StoreInv

LEMMA StoreWrites == Store!StoreInv /\ Store!Write => Store!StoreInv'
<1> SUFFICES ASSUME Store!StoreInv, Store!Write PROVE Store!StoreInv'
  OBVIOUS
<1>0. PICK p \in Store!Planes : p = missing.plane
  BY DEF Store!StoreInv, Store!TypeOK, Store!Passes
<1>1. /\ Store!TypeOK /\ missing.at = "write"
      /\ missing' = Store!NextPlane("write") /\ UNCHANGED <<doc, file, tape, edits, s10>>
      /\ s9 \in [edit : Nat, flush : Nat, fault : Nat] /\ missing.hand.ver <= s9.edit
  BY DEF Store!StoreInv, Store!TypeOK, Store!Passes, Store!Write, Store!Versions
<1>2. missing' \in Store!Passes /\ missing'.at # "stage" /\ missing'.hand = missing.hand
  BY <1>1 DEF Store!TypeOK, Store!NextPlane, Store!Planes, Store!Passes
<1>3. CASE UNCHANGED <<exported, reply>>
  <2>1. dumped' \subseteq Store!Planes
    BY <1>0, <1>1 DEF Store!Write, Store!TypeOK
  <2>2. s9' \in [edit : Nat, flush : Nat, fault : Nat] /\ s9'.edit = s9.edit
    BY <1>1 DEF Store!Write, Store!Fault
  <2> QED  BY <1>1, <1>2, <1>3, <2>1, <2>2, StoreIdles DEF Store!StoreInv, Store!TypeOK
<1>4. CASE ~ UNCHANGED <<exported, reply>>
  <2>1. /\ ~ exported[p].none
        /\ reply' = [reply EXCEPT ![p] = exported[p]]
        /\ exported' = [exported EXCEPT ![p] = Store!None]
        /\ dumped' = IF p = "cfg" THEN dumped \cup {p} ELSE dumped \ {p}
        /\ s9' = s9
    BY <1>0, <1>4 DEF Store!Write
  <2>2. /\ reply' \in [Store!Planes -> Store!Contents] /\ exported' \in [Store!Planes -> Store!Contents]
        /\ reply'[p] = exported[p] /\ exported'[p] = Store!None
        /\ \A q \in Store!Planes : q # p => exported'[q] = exported[q] /\ reply'[q] = reply[q]
    BY <1>1, <2>1, StoreValues DEF Store!TypeOK
  <2>3. Store!None.ver = 0 /\ Store!None.none
    BY DEF Store!None
  <2>4. Store!TypeOK'
    BY <1>1, <1>2, <2>1, <2>2 DEF Store!TypeOK
  <2>5. Store!Versions'
    BY <1>1, <1>2, <2>1, <2>2, <2>3 DEF Store!StoreInv, Store!Versions
  <2>6. Store!OnTheWay' /\ Store!News'
    BY <1>1, <1>2, <2>1, <2>2, <2>3 DEF Store!StoreInv, Store!OnTheWay, Store!News
  <2>7. Store!LiveValid'
    BY <1>1 DEF Store!StoreInv, Store!LiveValid
  <2>8. \A q \in Store!Planes : q # p => Store!Stored(q)' = Store!Stored(q)
    BY <2>2 DEF Store!Stored, Store!Defaults, Store!Content
  <2>9. Store!Stored(p)' = exported[p]
    BY <2>1, <2>2 DEF Store!Stored
  <2>10. exported[p] = doc[p] \/ exported[p].ver < doc[p].ver
    BY <1>1, <2>1 DEF Store!StoreInv, Store!OnTheWay
  <2>11. Store!FlashBehind'
    BY <1>1, <2>8, <2>9, <2>10 DEF Store!StoreInv, Store!FlashBehind
  <2>12. Store!NothingForgotten'
    BY <1>1, <1>2, <2>1, <2>2 DEF Store!StoreInv, Store!NothingForgotten, Store!UnderWay, Store!News
  <2>13. Store!TornIsTransient'
    <3> SUFFICES ASSUME ~ Store!Valid(Store!Stored("hw"), Store!Stored("cfg"))', ~ s10
                 PROVE  doc["cfg"].ver > reply'["cfg"].ver \/ Store!UnderWay("hw")'
      BY <1>1 DEF Store!TornIsTransient
    <3>1. Store!Stored("cfg")'.port /\ ~ Store!Stored("hw")'.port
      BY DEF Store!Valid
    <3>2. doc["hw"].port \/ ~ doc["cfg"].port
      BY DEF Store!StoreInv, Store!LiveValid, Store!Valid
    <3>3. ~ reply'["cfg"].none /\ Store!Stored("cfg")' = reply'["cfg"]
      BY <3>1 DEF Store!Stored, Store!Defaults, Store!Content, Store!Planes
    <3>4. \/ doc["cfg"].ver > reply'["cfg"].ver
          \/ doc["cfg"].ver = reply'["cfg"].ver /\ doc["cfg"].port
      BY <1>1, <2>11, <3>1, <3>3 DEF Store!FlashBehind, Store!Planes
    <3>5. doc["cfg"].port => Store!UnderWay("hw")'
      <4> SUFFICES ASSUME doc["cfg"].port PROVE Store!UnderWay("hw")'
        OBVIOUS
      <4>1. doc["hw"].port
        BY <3>2
      <4>2. reply'["hw"] # doc["hw"]
        BY <3>1, <4>1 DEF Store!Stored, Store!Defaults, Store!Content, Store!Planes
      <4>3. doc["hw"].ver # 0
        <5>1. doc["hw"].ver > Store!Stored("hw")'.ver
          BY <1>1, <2>11, <3>1, <4>1 DEF Store!FlashBehind, Store!Planes
        <5>2. Store!Stored("hw")'.ver \in Nat /\ doc["hw"].ver \in Nat
          BY <1>1, <2>2, StoreValues DEF Store!Stored, Store!TypeOK, Store!Contents, Store!Planes
        <5> QED  BY <5>1, <5>2
      <4> QED  BY <1>1, <2>12, <4>2, <4>3 DEF Store!NothingForgotten, Store!Planes
    <3> QED  BY <3>4, <3>5
  <2> QED  BY <2>4, <2>5, <2>6, <2>7, <2>11, <2>12, <2>13 DEF Store!StoreInv
<1> QED  BY <1>3, <1>4

LEMMA StoreLoads == Store!StoreInv /\ Store!Reset => Store!StoreInv'
<1> SUFFICES ASSUME Store!StoreInv, Store!Reset PROVE Store!StoreInv'
  OBVIOUS
<1>1. PICK unread \in SUBSET Store!Planes :
        /\ Store!Loads(unread)
        /\ s10' = (s10 \/ unread # {} \/ ~ Store!Valid(Store!Stored("hw"), Store!Stored("cfg")))
  BY DEF Store!Reset
<1> DEFINE ok(p) == p \notin unread /\ ~ reply[p].none
           hw    == IF ok("hw") THEN [reply["hw"] EXCEPT !.old = FALSE] ELSE Store!Defaults["hw"]
           cfgOk == ok("cfg") /\ Store!Valid(hw, reply["cfg"])
           cfg   == IF cfgOk THEN [reply["cfg"] EXCEPT !.old = FALSE] ELSE Store!Defaults["cfg"]
           read(p) == (p = "hw" /\ ok("hw")) \/ (p = "cfg" /\ cfgOk)
<1>2. /\ doc' = [p \in Store!Planes |-> IF p = "hw" THEN hw ELSE cfg]
      /\ exported' = [p \in Store!Planes |-> IF read(p) /\ reply[p].old THEN doc'[p] ELSE Store!None]
      /\ file' = {} /\ dumped' = {} /\ tape' = FALSE /\ missing' = Store!Asleep
      /\ edits' = [c \in FLUSHERS |-> [p \in Store!Planes |-> Store!None]]
      /\ reply' = reply
  BY <1>1 DEF Store!Loads, Store!Reset
<1>3. /\ Store!TypeOK /\ reply \in [Store!Planes -> Store!Contents]
      /\ reply["hw"] \in Store!Contents /\ reply["cfg"] \in Store!Contents
      /\ s9' \in [edit : Nat, flush : Nat, fault : Nat] /\ s9'.edit = s9.edit /\ s9.edit \in Nat
  BY DEF Store!StoreInv, Store!TypeOK, Store!Planes, Store!Versions, Store!Reset, Store!Fault
<1>4. /\ Store!Defaults["hw"].ver = 0 /\ Store!Defaults["cfg"].ver = 0
      /\ Store!Defaults["hw"].port /\ ~ Store!Defaults["cfg"].port
      /\ ~ Store!Defaults["hw"].none /\ ~ Store!Defaults["cfg"].none
      /\ Store!None.ver = 0 /\ Store!None.none
  BY DEF Store!Defaults, Store!Content, Store!Planes, Store!None
(* What each plane becomes. *)
<1>5. ASSUME NEW r \in Store!Contents
      PROVE  LET e == [r EXCEPT !.old = FALSE]
             IN  /\ e \in Store!Contents /\ e.ver = r.ver /\ e.port = r.port /\ e.none = r.none /\ ~ e.old
                 /\ ~ r.old => e = r
                 /\ r.old => e # r
  BY DEF Store!Contents
<1>6. /\ hw \in Store!Contents /\ ~ hw.none
      /\ ok("hw") => hw.ver = reply["hw"].ver /\ hw.port = reply["hw"].port /\ (reply["hw"].old <=> hw # reply["hw"])
      /\ ~ ok("hw") => hw.ver = 0 /\ hw.port
  BY <1>3, <1>4, <1>5, StoreValues DEF Store!Planes
<1>7. /\ cfg \in Store!Contents /\ ~ cfg.none
      /\ cfgOk => cfg.ver = reply["cfg"].ver /\ cfg.port = reply["cfg"].port /\ (reply["cfg"].old <=> cfg # reply["cfg"])
      /\ ~ cfgOk => cfg.ver = 0 /\ ~ cfg.port
  BY <1>3, <1>4, <1>5, StoreValues DEF Store!Planes
<1>8. cfg.port => hw.port
  BY <1>7 DEF Store!Valid
<1> DEFINE a == doc'["hw"]
           b == doc'["cfg"]
<1>9. a = hw /\ b = cfg
  BY <1>2 DEF Store!Planes
<1>10. /\ exported'["hw"] = IF ok("hw") /\ reply["hw"].old THEN a ELSE Store!None
       /\ exported'["cfg"] = IF cfgOk /\ reply["cfg"].old THEN b ELSE Store!None
  BY <1>2 DEF Store!Planes
<1> DEFINE okHw == ok("hw")
           okCfg == ok("cfg")
<1>11. /\ okHw => ~ reply["hw"].none
       /\ ~ okHw => reply["hw"].none \/ unread # {}
       /\ okCfg => ~ reply["cfg"].none
       /\ ~ okCfg => reply["cfg"].none \/ unread # {}
       /\ cfgOk <=> okCfg /\ (reply["cfg"].port => a.port)
  BY <1>9 DEF Store!Valid
<1>12. a \in Store!Contents /\ b \in Store!Contents
  BY <1>6, <1>7, <1>9
<1>13. /\ okHw => a.ver = reply["hw"].ver /\ a.port = reply["hw"].port /\ (reply["hw"].old <=> a # reply["hw"])
       /\ ~ okHw => a.ver = 0 /\ a.port
       /\ cfgOk => b.ver = reply["cfg"].ver /\ b.port = reply["cfg"].port /\ (reply["cfg"].old <=> b # reply["cfg"])
       /\ ~ cfgOk => b.ver = 0 /\ ~ b.port
       /\ ~ a.none /\ ~ b.none /\ (b.port => a.port)
  BY <1>6, <1>7, <1>8, <1>9
<1>14. /\ exported'["hw"] = IF okHw /\ reply["hw"].old THEN a ELSE Store!None
       /\ exported'["cfg"] = IF cfgOk /\ reply["cfg"].old THEN b ELSE Store!None
  BY <1>10
<1>15. doc' \in [Store!Planes -> Store!Contents] /\ exported' \in [Store!Planes -> Store!Contents]
  <2>1. doc' \in [Store!Planes -> Store!Contents]
    BY <1>2, <1>6, <1>7
  <2> QED  BY <1>2, <2>1, StoreValues
<1> HIDE DEF ok, hw, cfg, cfgOk, read, okHw, okCfg
<1>16. Store!TypeOK'
  <2>1. s10' \in BOOLEAN
    BY <1>1, <1>3 DEF Store!TypeOK
  <2> QED  BY <1>2, <1>3, <1>15, <2>1, StoreValues DEF Store!TypeOK
<1>17. missing'.at = "wait" /\ missing'.hand.ver = 0
  BY <1>2 DEF Store!Asleep, Store!None
<1>18. \A p \in Store!Planes : p = "hw" \/ p = "cfg"
  BY DEF Store!Planes
<1>19. Store!Versions'
  <2>1. reply["hw"].ver <= s9.edit /\ reply["cfg"].ver <= s9.edit
    BY DEF Store!StoreInv, Store!Versions, Store!Planes
  <2> QED  BY <1>2, <1>3, <1>4, <1>13, <1>14, <1>17, <1>18, <2>1 DEF Store!Versions
<1>20. Store!OnTheWay' /\ Store!News'
  BY <1>2, <1>4, <1>13, <1>14, <1>17, <1>18 DEF Store!OnTheWay, Store!News
<1>21. Store!LiveValid'
  BY <1>13 DEF Store!LiveValid, Store!Valid
<1>22. /\ Store!Stored("hw")' = IF reply["hw"].none THEN Store!Defaults["hw"] ELSE reply["hw"]
       /\ Store!Stored("cfg")' = IF reply["cfg"].none THEN Store!Defaults["cfg"] ELSE reply["cfg"]
       /\ Store!Stored("hw") = IF reply["hw"].none THEN Store!Defaults["hw"] ELSE reply["hw"]
       /\ Store!Stored("cfg") = IF reply["cfg"].none THEN Store!Defaults["cfg"] ELSE reply["cfg"]
  BY <1>2 DEF Store!Stored
<1>23. ~ s10' => Store!Valid(Store!Stored("hw"), Store!Stored("cfg")) /\ unread = {}
  BY <1>1
<1>24. ~ s10' => /\ a.ver = Store!Stored("hw").ver /\ a.port = Store!Stored("hw").port
                 /\ b.ver = Store!Stored("cfg").ver /\ b.port = Store!Stored("cfg").port
  <2> SUFFICES ASSUME ~ s10'
               PROVE  /\ a.ver = Store!Stored("hw").ver /\ a.port = Store!Stored("hw").port
                      /\ b.ver = Store!Stored("cfg").ver /\ b.port = Store!Stored("cfg").port
    OBVIOUS
  <2>1. (Store!Stored("cfg").port => Store!Stored("hw").port) /\ unread = {}
    BY <1>23 DEF Store!Valid
  <2>2. a.ver = Store!Stored("hw").ver /\ a.port = Store!Stored("hw").port
    <3>1. CASE okHw
      BY <3>1, <1>11, <1>13, <1>22
    <3>2. CASE ~ okHw
      BY <3>2, <2>1, <1>4, <1>11, <1>13, <1>22
    <3> QED  BY <3>1, <3>2
  <2>3. CASE cfgOk
    BY <2>2, <2>3, <1>11, <1>13, <1>22
  <2>4. CASE ~ cfgOk
    <3>1. reply["cfg"].none
      <4> SUFFICES ASSUME ~ reply["cfg"].none PROVE FALSE
        OBVIOUS
      <4>1. okCfg /\ Store!Stored("cfg") = reply["cfg"]
        BY <2>1, <1>11, <1>22
      <4>2. reply["cfg"].port => a.port
        BY <2>1, <2>2, <4>1
      <4> QED  BY <4>1, <4>2, <2>4, <1>11
    <3>2. Store!Stored("cfg") = Store!Defaults["cfg"]
      BY <3>1, <1>22
    <3>3. b.ver = 0 /\ b.port = FALSE /\ Store!Defaults["cfg"].port = FALSE
      <4>1. b.port \in BOOLEAN /\ Store!Defaults["cfg"].port = FALSE
        BY <1>12 DEF Store!Contents, Store!Defaults, Store!Content, Store!Planes
      <4> QED  BY <4>1, <2>4, <1>13
    <3> QED  BY <2>2, <3>2, <3>3, <1>4
  <2> QED  BY <2>3, <2>4
<1>25. Store!FlashBehind'
  BY <1>18, <1>22, <1>24 DEF Store!FlashBehind
<1>26. Store!NothingForgotten'
  <2>1. reply["hw"] = a \/ a.ver = 0 \/ exported'["hw"] = a
    BY <1>13, <1>14
  <2>2. reply["cfg"] = b \/ b.ver = 0 \/ exported'["cfg"] = b
    BY <1>13, <1>14
  <2> QED  BY <1>2, <1>18, <2>1, <2>2 DEF Store!NothingForgotten, Store!UnderWay
<1>27. Store!TornIsTransient'
  BY <1>22, <1>23 DEF Store!TornIsTransient, Store!Valid
<1> QED  BY <1>16, <1>19, <1>20, <1>21, <1>25, <1>26, <1>27 DEF Store!StoreInv

LEMMA StoreForgetsAll == Store!StoreInv /\ Store!FactoryReset => Store!StoreInv'
<1> SUFFICES ASSUME Store!StoreInv, Store!FactoryReset PROVE Store!StoreInv'
  OBVIOUS
<1>1. /\ reply' = [p \in Store!Planes |-> Store!None] /\ exported' = reply' /\ doc' = Store!Defaults
      /\ file' = {} /\ dumped' = {} /\ tape' = FALSE /\ missing' = Store!Asleep /\ s10' = FALSE
      /\ edits' = [c \in FLUSHERS |-> [p \in Store!Planes |-> Store!None]]
      /\ s9' \in [edit : Nat, flush : Nat, fault : Nat]
  BY DEF Store!FactoryReset, Store!Fault, Store!StoreInv, Store!Versions
<1>2. ASSUME NEW p \in Store!Planes
      PROVE  /\ reply'[p] = Store!None /\ exported'[p] = Store!None /\ doc'[p] = Store!Defaults[p]
             /\ Store!Defaults[p].ver = 0 /\ ~ Store!Defaults[p].none
             /\ Store!None.ver = 0 /\ Store!None.none
             /\ Store!Stored(p)' = Store!Defaults[p]
  <2>1. /\ reply'[p] = Store!None /\ exported'[p] = Store!None /\ doc'[p] = Store!Defaults[p]
        /\ Store!None.ver = 0 /\ Store!None.none
    BY <1>1 DEF Store!None
  <2>2. Store!Defaults[p].ver = 0 /\ ~ Store!Defaults[p].none
    BY DEF Store!Defaults, Store!Content
  <2> QED  BY <2>1, <2>2 DEF Store!Stored
<1>3. missing'.at = "wait" /\ missing'.hand.ver = 0
  BY <1>1 DEF Store!Asleep, Store!None
<1>4. Store!TypeOK'
  BY <1>1, StoreValues DEF Store!TypeOK
<1>5. Store!Versions' /\ Store!OnTheWay' /\ Store!News'
  BY <1>1, <1>2, <1>3 DEF Store!Versions, Store!OnTheWay, Store!News
<1>6. Store!Valid(Store!Defaults["hw"], Store!Defaults["cfg"])
  BY DEF Store!Valid, Store!Defaults, Store!Content, Store!Planes
<1>7. Store!LiveValid' /\ Store!TornIsTransient'
  BY <1>1, <1>2, <1>6 DEF Store!LiveValid, Store!TornIsTransient, Store!Planes
<1>8. Store!FlashBehind' /\ Store!NothingForgotten'
  BY <1>1, <1>2 DEF Store!FlashBehind, Store!NothingForgotten
<1> QED  BY <1>4, <1>5, <1>7, <1>8 DEF Store!StoreInv

LEMMA StoreEdits ==
  ASSUME Store!StoreInv, NEW p \in Store!Planes, NEW port \in BOOLEAN, Store!Edit(p, port)
  PROVE  Store!StoreInv'
<1>1. /\ s9' = [s9 EXCEPT !.edit = @ + 1] /\ file' = file \cup {p}
      /\ doc' = [doc EXCEPT ![p] = Store!Content(s9'.edit, port)]
      /\ IF p = "hw" THEN Store!Valid(Store!Content(s9'.edit, port), doc["cfg"])
         ELSE Store!Valid(doc["hw"], Store!Content(s9'.edit, port))
      /\ UNCHANGED <<exported, dumped, tape, missing, reply, edits, s10>>
  BY DEF Store!Edit
<1>2. /\ s9' \in [edit : Nat, flush : Nat, fault : Nat] /\ s9'.edit = s9.edit + 1
      /\ s9.edit \in Nat /\ Store!TypeOK
  BY <1>1 DEF Store!StoreInv, Store!Versions
<1> DEFINE new == Store!Content(s9'.edit, port)
<1>3. new \in Store!Contents /\ new.ver = s9.edit + 1 /\ new.port = port /\ ~ new.none
  <2>1. new \in Store!Contents
    BY <1>2, StoreValues
  <2> QED  BY <1>2, <2>1 DEF Store!Content
<1>4. /\ doc \in [Store!Planes -> Store!Contents] /\ doc' \in [Store!Planes -> Store!Contents] /\ doc'[p] = new
      /\ \A q \in Store!Planes : q # p => doc'[q] = doc[q]
      /\ exported \in [Store!Planes -> Store!Contents] /\ reply \in [Store!Planes -> Store!Contents]
      /\ missing \in Store!Passes /\ missing.hand \in Store!Contents
  BY <1>1, <1>2, <1>3 DEF Store!TypeOK, Store!Passes
<1>5. IF p = "hw" THEN Store!Valid(new, doc["cfg"]) ELSE Store!Valid(doc["hw"], new)
  BY <1>1
<1> HIDE DEF new
<1>6. /\ reply[p].ver < new.ver /\ exported[p].ver < new.ver /\ missing.hand.ver < new.ver /\ doc[p].ver < new.ver
      /\ doc[p].ver \in Nat /\ reply[p].ver \in Nat /\ exported[p].ver \in Nat /\ missing.hand.ver \in Nat
  <2>1. /\ reply[p].ver \in Nat /\ exported[p].ver \in Nat /\ missing.hand.ver \in Nat /\ doc[p].ver \in Nat
    BY <1>4 DEF Store!Contents
  <2> QED  BY <1>2, <1>3, <2>1 DEF Store!StoreInv, Store!Versions
<1>7. Store!TypeOK'
  BY <1>1, <1>2, <1>4 DEF Store!TypeOK
<1>8. Store!Versions'
  <2>1. \A q \in Store!Planes : doc'[q].ver <= s9.edit + 1 /\ exported[q].ver <= s9.edit + 1 /\ reply[q].ver <= s9.edit + 1
    <3> TAKE q \in Store!Planes
    <3>1. doc[q].ver \in Nat /\ exported[q].ver \in Nat /\ reply[q].ver \in Nat
      BY <1>4 DEF Store!Contents
    <3> QED  BY <1>2, <1>3, <1>4, <3>1 DEF Store!StoreInv, Store!Versions
  <2> QED  BY <1>1, <1>2, <1>3, <1>6, <2>1 DEF Store!StoreInv, Store!Versions
<1>9. Store!OnTheWay'
  BY <1>1, <1>3, <1>4, <1>6 DEF Store!StoreInv, Store!OnTheWay
<1>10. Store!News'
  BY <1>1, <1>3, <1>4, <1>6 DEF Store!StoreInv, Store!News
<1>11. Store!LiveValid'
  BY <1>4, <1>5 DEF Store!LiveValid, Store!Planes
<1>12. \A q \in Store!Planes : Store!Stored(q)' = Store!Stored(q)
  BY <1>1 DEF Store!Stored
<1>13. Store!Stored(p).ver < new.ver
  <2>1. CASE reply[p].none
    <3>1. Store!Stored(p).ver = 0
      BY <2>1 DEF Store!Stored, Store!Defaults, Store!Content
    <3> QED  BY <1>2, <1>3, <3>1
  <2>2. CASE ~ reply[p].none
    BY <2>2, <1>6 DEF Store!Stored
  <2> QED  BY <2>1, <2>2
<1>14. Store!FlashBehind'
  BY <1>1, <1>4, <1>12, <1>13 DEF Store!StoreInv, Store!FlashBehind
<1>15. /\ \A q \in Store!Planes : Store!UnderWay(q) => Store!UnderWay(q)'
       /\ Store!UnderWay(p)'
  BY <1>1, <1>4 DEF Store!UnderWay
<1>16. Store!NothingForgotten'
  BY <1>1, <1>4, <1>15 DEF Store!StoreInv, Store!NothingForgotten
<1>17. Store!TornIsTransient'
  <2>1. CASE p = "cfg"
    BY <1>1, <1>4, <1>6, <2>1 DEF Store!TornIsTransient
  <2>2. CASE p = "hw"
    BY <1>15, <2>2 DEF Store!TornIsTransient
  <2> QED  BY <2>1, <2>2 DEF Store!Planes
<1> QED  BY <1>7, <1>8, <1>9, <1>10, <1>11, <1>14, <1>16, <1>17 DEF Store!StoreInv

LEMMA StoreOpens ==
  ASSUME Store!StoreInv, NEW p \in Store!Planes, Store!Opens(p)
  PROVE  Store!StoreInv'
<1>1. Store!TypeOK'
  BY DEF Store!StoreInv, Store!TypeOK, Store!Opens
<1> QED  BY <1>1, StorePasses DEF Store!StoreInv, Store!Opens, Store!Versions

LEMMA StoreFlushes ==
  ASSUME Store!StoreInv, NEW c \in FLUSHERS,
         Store!FlushStart(c) \/ Store!Poll(c) \/ Store!FlushDone(c) \/ Store!FlushTimeout(c)
  PROVE  Store!StoreInv'
<1>1. UNCHANGED <<doc, file, exported, dumped, missing, reply, s10>> /\ s9 \in [edit : Nat, flush : Nat, fault : Nat]
  BY DEF Store!FlushStart, Store!Poll, Store!FlushDone, Store!FlushTimeout, Store!StoreInv, Store!Versions
<1>2. s9' \in [edit : Nat, flush : Nat, fault : Nat] /\ s9'.edit = s9.edit
  BY <1>1 DEF Store!FlushStart, Store!Poll, Store!FlushDone, Store!FlushTimeout
<1>3. edits' \in [FLUSHERS -> [Store!Planes -> Store!Contents]]
  <2>1. [q \in Store!Planes |-> Store!None] \in [Store!Planes -> Store!Contents]
    BY StoreValues
  <2> QED  BY <2>1 DEF Store!FlushStart, Store!Poll, Store!FlushDone, Store!FlushTimeout, Store!StoreInv, Store!TypeOK
<1>4. tape' \in BOOLEAN
  BY DEF Store!FlushStart, Store!Poll, Store!FlushDone, Store!FlushTimeout, Store!StoreInv, Store!TypeOK
<1>5. Store!TypeOK'
  BY <1>1, <1>3, <1>4 DEF Store!StoreInv, Store!TypeOK
<1> QED  BY <1>1, <1>2, <1>5, StorePasses DEF Store!StoreInv

LEMMA StoreSteps == Store!StoreInv /\ Store!Next => Store!StoreInv'
BY StoreWakes, StoreTakes, StoreStages, StoreWrites, StoreEndsPass, StoreLoads, StoreForgetsAll,
   StoreOpens, StoreEdits, StoreFlushes
   DEF Store!Next, Store!StoreTask

LEMMA StoreStays == Store!StoreInv /\ UNCHANGED <<part, slots>> => Store!StoreInv'
<1> SUFFICES ASSUME Store!StoreInv, UNCHANGED <<part, slots>> PROVE Store!StoreInv'
  OBVIOUS
<1>1. UNCHANGED <<doc, file, exported, dumped, tape, missing, reply, edits, s9, s10>>
  BY DEF slots
<1>2. Store!TypeOK' /\ s9 \in [edit : Nat, flush : Nat, fault : Nat]
  BY <1>1 DEF Store!StoreInv, Store!TypeOK, Store!Versions
<1> QED  BY <1>1, <1>2, StorePasses DEF Store!StoreInv

(* Whatever steps the edits, the store task's passes, the flushes, failing   *)
(* writes and resets take: the newest content of a plane is in flash or on   *)
(* its way there (hg_model_take_dirty, stage_dirty, attempt_write), and a    *)
(* stored pair that does not validate is about to be repaired.               *)
THEOREM StoreKept == BoardsSpec => []StoreKeeps
<1> DEFINE Inv == part = "store" => Store!StoreInv
<1>1. BoardsInit => Inv
  BY StoreStarts DEF BoardsInit
<1>2. Inv /\ [BoardsNext]_<<part, slots>> => Inv'
  <2> SUFFICES ASSUME Inv, [BoardsNext]_<<part, slots>>, part' = "store" PROVE Store!StoreInv'
    OBVIOUS
  <2>1. CASE UNCHANGED <<part, slots>>
    BY <2>1, StoreStays
  <2>2. CASE BoardsNext
    <3>1. part = "store" /\ Store!Next
      BY <2>2 DEF BoardsNext
    <3> QED  BY <3>1, StoreSteps
  <2> QED  BY <2>1, <2>2
<1>3. Inv => StoreKeeps
  BY DEF StoreKeeps, Store!StoreInv
<1> QED  BY <1>1, <1>2, <1>3, PTL DEF BoardsSpec

-----------------------------------------------------------------------------
(* CpBoot.  Its variables ota, step, net, trial, cp, sent, radio, staged,    *)
(* faults, hurt and lostTo are the slots doc, file, exported, dumped, tape,  *)
(* missing, reply, edits, s9, s10 and s11.                                   *)

LEMMA BootStarts == Boot!Init => Boot!BootInv
BY DEF Boot!Init, Boot!BootInv, Boot!ImageKept, Boot!NoneOnTrial

(* A reset retires no image on trial in the radio's name. *)
LEMMA BootResets ==
  ASSUME Boot!BootInv, NEW cause, Boot!Reset(cause), cause # "radio" \/ ~ Boot!OnTrial
  PROVE  Boot!BootInv'
BY DEF Boot!BootInv, Boot!ImageKept, Boot!NoneOnTrial, Boot!OnTrial, Boot!Reset

LEMMA BootRuns == Boot!BootInv /\ Boot!AppMain => Boot!BootInv'
<1> SUFFICES ASSUME Boot!BootInv, Boot!AppMain PROVE Boot!BootInv'
  OBVIOUS
<1>1. /\ s11' = s11 /\ doc' = doc
      /\ tape' = tape \/ (tape' # "idle" /\ ~ Boot!OnTrial)
  BY DEF Boot!AppMain, Boot!Start, Boot!StartTrial, Boot!StartWifi, Boot!StartHttp, Boot!DriversOk, Boot!Gate
<1> QED  BY <1>1 DEF Boot!BootInv, Boot!ImageKept, Boot!NoneOnTrial, Boot!OnTrial

LEMMA BootSyncs == Boot!BootInv /\ Boot!CpSync => Boot!BootInv'
<1> SUFFICES ASSUME Boot!BootInv, Boot!CpSync PROVE Boot!BootInv'
  OBVIOUS
<1>1. tape # "idle"
  BY DEF Boot!CpSync, Boot!CheckVersion, Boot!CheckStaged, Boot!Begin, Boot!Push, Boot!End, Boot!Activate,
         Boot!Verify, Boot!Return, Boot!Results
<1>2. ~ Boot!OnTrial
  BY <1>1 DEF Boot!BootInv, Boot!NoneOnTrial
<1>3. CASE Boot!Return
  BY <1>2, <1>3, BootResets DEF Boot!Return, Boot!BootInv, Boot!ImageKept, Boot!NoneOnTrial, Boot!OnTrial
<1>4. CASE ~ Boot!Return
  <2>1. doc' = doc /\ s11' = s11
    BY <1>4 DEF Boot!CpSync, Boot!CheckVersion, Boot!CheckStaged, Boot!Begin, Boot!Push, Boot!End,
                Boot!Activate, Boot!Verify, Boot!Goes
  <2> QED  BY <1>2, <2>1 DEF Boot!BootInv, Boot!ImageKept, Boot!NoneOnTrial, Boot!OnTrial
<1> QED  BY <1>3, <1>4

LEMMA BootSteps == Boot!BootInv /\ Boot!Next => Boot!BootInv'
<1> SUFFICES ASSUME Boot!BootInv, Boot!Next PROVE Boot!BootInv'
  OBVIOUS
<1>1. CASE Boot!TrialPasses \/ Boot!Upload
  BY <1>1 DEF Boot!TrialPasses, Boot!Upload, Boot!BootInv, Boot!ImageKept, Boot!NoneOnTrial, Boot!OnTrial
<1>2. CASE Boot!Confirm \/ Boot!RadioUp \/ Boot!RadioReboots
  BY <1>2 DEF Boot!Confirm, Boot!RadioUp, Boot!RadioReboots, Boot!BootInv, Boot!ImageKept, Boot!NoneOnTrial,
              Boot!OnTrial
<1>3. CASE Boot!PowerCut
  BY <1>3, BootResets DEF Boot!PowerCut
<1>4. CASE Boot!TransportAborts
  <2>1. ~ Boot!OnTrial
    BY <1>4 DEF Boot!TransportAborts, Boot!BootInv, Boot!NoneOnTrial
  <2> QED  BY <1>4, <2>1, BootResets DEF Boot!TransportAborts
<1> QED  BY <1>1, <1>2, <1>3, <1>4, BootRuns, BootSyncs DEF Boot!Next

-----------------------------------------------------------------------------
(* Rescue.  Its variables flash, nvs, flag, mode, pull, wifi, upload, timer, *)
(* trial, past and used are the slots doc, file, exported, dumped, tape,     *)
(* missing, reply, edits, s9, s10 and s11.                                   *)

(* What the helpers of the model return, field by field. *)
LEMMA RescueConstants ==
  /\ Rescue!NoUpload \in Rescue!Uploads /\ ~ Rescue!NoUpload.on
  /\ Rescue!WifiOff \in Rescue!Drivers /\ Rescue!WifiOff.runs = "none"
  /\ Rescue!NoPull \in Rescue!Pulls
  /\ Rescue!Other(1) = 2 /\ Rescue!Other(2) = 1
<1>1. PULLS \in Nat /\ CHUNKS \in Nat /\ STALLS \in Nat
  BY RescueBounds
<1> QED
  BY <1>1 DEF Rescue!Uploads, Rescue!Pulls, Rescue!Drivers, Rescue!NoUpload, Rescue!WifiOff, Rescue!NoPull, Rescue!Other, Rescue!Links

LEMMA RescueErased ==
  ASSUME doc \in Rescue!Flashes, NEW s \in {1, 2}
  PROVE  LET e == Rescue!Erased(s)
         IN  /\ e \in Rescue!Flashes /\ e.ota = doc.ota /\ e.boot = doc.boot
             /\ \A t \in {1, 2} : t # s => e.slot[t] = doc.slot[t]
<1>1. /\ doc.slot \in [{1, 2} -> Images \cup {Torn}] /\ doc.ota \in [{1, 2} -> {"valid", "pending", "new", "bad"}]
      /\ doc.boot \in {1, 2}
  BY DEF Rescue!Flashes
<1>2. Rescue!Erased(s) = [doc EXCEPT !.slot = [doc.slot EXCEPT ![s] = Torn]]
  BY DEF Rescue!Erased
<1>3. [doc.slot EXCEPT ![s] = Torn] \in [{1, 2} -> Images \cup {Torn}]
  BY <1>1
<1> DEFINE n == [doc.slot EXCEPT ![s] = Torn]
<1>4. \A t \in {1, 2} : t # s => n[t] = doc.slot[t]
  BY <1>1
<1> HIDE DEF n
<1> QED  BY <1>1, <1>2, <1>3, <1>4 DEF Rescue!Flashes, n

LEMMA RescueInstalled ==
  ASSUME doc \in Rescue!Flashes, NEW s \in {1, 2}, NEW i \in Images
  PROVE  LET e == Rescue!Installed(s, i)
         IN  /\ e \in Rescue!Flashes /\ e.boot = s /\ e.slot[s] = i /\ e.ota[s] = "new"
             /\ \A t \in {1, 2} : t # s => e.slot[t] = doc.slot[t] /\ e.ota[t] = doc.ota[t]
<1>1. /\ doc.slot \in [{1, 2} -> Images \cup {Torn}] /\ doc.ota \in [{1, 2} -> {"valid", "pending", "new", "bad"}]
  BY DEF Rescue!Flashes
<1> DEFINE a == [doc.slot EXCEPT ![s] = i]
           b == [doc.ota EXCEPT ![s] = "new"]
<1>2. /\ a \in [{1, 2} -> Images \cup {Torn}] /\ a[s] = i
      /\ \A t \in {1, 2} : t # s => a[t] = doc.slot[t]
  BY <1>1
<1>3. /\ b \in [{1, 2} -> {"valid", "pending", "new", "bad"}] /\ b[s] = "new"
      /\ \A t \in {1, 2} : t # s => b[t] = doc.ota[t]
  BY <1>1
<1>4. Rescue!Installed(s, i) = [slot |-> a, ota |-> b, boot |-> s]
  BY DEF Rescue!Installed
<1> HIDE DEF a, b
<1> QED  BY <1>2, <1>3, <1>4 DEF Rescue!Flashes

(* The bootloader selects the fallback of a trial that did not pass, or stays. *)
LEMMA RescueSelects ==
  ASSUME doc \in Rescue!Flashes
  PROVE  LET b == doc.boot
             e == Rescue!Selected
         IN  /\ e \in Rescue!Flashes /\ e.slot = doc.slot
             /\ doc.ota[b] = "pending" => e.boot = Rescue!Other(b) /\ e.ota[Rescue!Other(b)] = doc.ota[Rescue!Other(b)]
             /\ doc.ota[b] # "pending" => e.boot = b /\ e.ota[Rescue!Other(b)] = doc.ota[Rescue!Other(b)]
             /\ doc.ota[b] = "new" => e.ota[b] = "pending"
             /\ doc.ota[b] \notin {"new", "pending"} => e = doc
<1> DEFINE b == doc.boot
           c == Rescue!Other(b)
<1>1. /\ doc.slot \in [{1, 2} -> Images \cup {Torn}] /\ doc.ota \in [{1, 2} -> {"valid", "pending", "new", "bad"}]
      /\ b \in {1, 2}
  BY DEF Rescue!Flashes
<1>2. c \in {1, 2} /\ c # b
  BY <1>1, RescueConstants
<1>3. CASE doc.ota[b] = "pending"
  <2> DEFINE o == [doc.ota EXCEPT ![b] = "bad"]
  <2>1. Rescue!Selected = [[doc EXCEPT !.ota = o] EXCEPT !.boot = c]
    BY <1>3 DEF Rescue!Selected
  <2>2. o \in [{1, 2} -> {"valid", "pending", "new", "bad"}] /\ o[c] = doc.ota[c]
    BY <1>1, <1>2
  <2> HIDE DEF o, b, c
  <2>3. [doc EXCEPT !.ota = o] \in Rescue!Flashes /\ [doc EXCEPT !.ota = o].slot = doc.slot /\ [doc EXCEPT !.ota = o].ota = o
    BY <2>2 DEF Rescue!Flashes
  <2>4. Rescue!Selected \in Rescue!Flashes /\ Rescue!Selected.slot = doc.slot /\ Rescue!Selected.boot = c
        /\ Rescue!Selected.ota = o
    BY <1>2, <2>1, <2>3 DEF Rescue!Flashes
  <2> QED  BY <1>3, <2>2, <2>4 DEF b, c
<1>4. CASE doc.ota[b] = "new"
  <2> DEFINE o == [doc.ota EXCEPT ![b] = "pending"]
  <2>1. Rescue!Selected = [doc EXCEPT !.ota = o]
    BY <1>4 DEF Rescue!Selected
  <2>2. o \in [{1, 2} -> {"valid", "pending", "new", "bad"}] /\ o[c] = doc.ota[c] /\ o[b] = "pending"
    BY <1>1, <1>2
  <2> HIDE DEF o
  <2>3. Rescue!Selected \in Rescue!Flashes /\ Rescue!Selected.slot = doc.slot /\ Rescue!Selected.boot = b
        /\ Rescue!Selected.ota = o
    BY <2>1, <2>2 DEF Rescue!Flashes
  <2> QED  BY <1>4, <2>2, <2>3
<1>5. CASE doc.ota[b] \notin {"new", "pending"}
  BY <1>5 DEF Rescue!Selected
<1> QED  BY <1>3, <1>4, <1>5

(* Where the restart of the processor leaves the state. *)
LEMMA RescueRestarts ==
  ASSUME Rescue!TypeOK, NEW cold \in BOOLEAN, Rescue!Restarts(cold)
  PROVE  /\ dumped' = "boot" /\ exported' \in BOOLEAN /\ edits' = FALSE /\ s9' = "off"
         /\ tape' \in Rescue!Pulls /\ missing' \in Rescue!Drivers /\ missing'.runs = "none"
         /\ reply' \in Rescue!Uploads /\ ~ reply'.on
BY RescueConstants DEF Rescue!TypeOK, Rescue!Restarts

LEMMA RescuePasts ==
  ASSUME s10 \in Rescue!Pasts
  PROVE  /\ \A b \in {1, 2} : LET e == [s10 EXCEPT !.from = b]
              IN  e \in Rescue!Pasts /\ e.asked = s10.asked /\ e.pulled = s10.pulled /\ e.over = s10.over
         /\ \A v \in {"pull", "upload"} : LET e == [s10 EXCEPT !.via = v]
              IN  e \in Rescue!Pasts /\ e.asked = s10.asked /\ e.pulled = s10.pulled /\ e.over = s10.over
         /\ LET e == [s10 EXCEPT !.asked = @ + 1]
              IN  e \in Rescue!Pasts /\ e.asked = s10.asked + 1 /\ e.pulled = s10.pulled /\ e.over = s10.over
         /\ LET e == [s10 EXCEPT !.pulled = @ + 1]
              IN  e \in Rescue!Pasts /\ e.asked = s10.asked /\ e.pulled = s10.pulled + 1 /\ e.over = s10.over
         /\ \A o \in BOOLEAN : LET e == [s10 EXCEPT !.over = o]
              IN  e \in Rescue!Pasts /\ e.asked = s10.asked /\ e.pulled = s10.pulled /\ e.over = o
BY DEF Rescue!Pasts

LEMMA RescueOver ==
  ASSUME s10 \in Rescue!Pasts
  PROVE  LET e == Rescue!WritesOver
         IN  /\ e \in Rescue!Pasts /\ e.asked = s10.asked /\ e.pulled = s10.pulled
             /\ s10.over => e.over
             /\ ~ e.over => ~ (/\ Rescue!TargetSlot # doc.boot /\ doc.ota[Rescue!TargetSlot] = "valid"
                               /\ doc.ota[doc.boot] # "valid")
<1> DEFINE w == /\ Rescue!TargetSlot # doc.boot /\ doc.ota[Rescue!TargetSlot] = "valid"
                /\ doc.ota[doc.boot] # "valid"
           o == s10.over \/ w
<1>1. Rescue!WritesOver = [s10 EXCEPT !.over = o]
  BY DEF Rescue!WritesOver
<1>2. o \in BOOLEAN /\ (s10.over => o) /\ (~ o => ~ w)
  BY DEF Rescue!Pasts
<1> HIDE DEF w, o
<1>3. LET e == [s10 EXCEPT !.over = o]
      IN  e \in Rescue!Pasts /\ e.asked = s10.asked /\ e.pulled = s10.pulled /\ e.over = o
  BY <1>2, RescuePasts
<1>4. ~ o => ~ w
  BY <1>2
<1> QED  BY <1>1, <1>2, <1>3, <1>4 DEF w

(* A step that leaves the flash as it is and overwrites nothing keeps what   *)
(* the slots are in, if it starts no write.                                  *)
LEMMA RescueIdles ==
  ASSUME Rescue!RescueInv, Rescue!TypeOK', doc' = doc,
         s10'.over = s10.over, s10'.pulled <= s10'.asked,
         file'.hando \in Rescue!Links => s10'.pulled < s10'.asked,
         dumped' = "write" => dumped = "write",
         reply'.on => reply.on /\ reply'.dst = reply.dst /\ dumped' = dumped
  PROVE  Rescue!RescueInv'
<1>1. Rescue!BootsWhole' /\ Rescue!FallsBack'
  BY DEF Rescue!RescueInv, Rescue!BootsWhole, Rescue!FallsBack
<1>2. Rescue!OneRequestOnePull' /\ Rescue!PendingRequest'
  BY DEF Rescue!OneRequestOnePull, Rescue!PendingRequest
<1>3. Rescue!UploadElsewhere' /\ Rescue!WritesProven'
  BY DEF Rescue!RescueInv, Rescue!UploadElsewhere, Rescue!WritesProven, Rescue!TargetSlot
<1> QED  BY <1>1, <1>2, <1>3 DEF Rescue!RescueInv

LEMMA RescueStarts == Rescue!Init => Rescue!RescueInv
<1> SUFFICES ASSUME Rescue!Init PROVE Rescue!RescueInv
  OBVIOUS
<1>1. PICK i \in Images : doc = [slot |-> <<i, Torn>>, ota |-> <<"valid", "bad">>, boot |-> 1]
  BY DEF Rescue!Init
<1>2. <<i, Torn>> \in [{1, 2} -> Images \cup {Torn}] /\ <<i, Torn>>[1] = i
  BY Z3
<1>3. <<"valid", "bad">> \in [{1, 2} -> {"valid", "pending", "new", "bad"}] /\ <<"valid", "bad">>[1] = "valid"
  BY Z3
<1> DEFINE a == <<i, Torn>>
           b == <<"valid", "bad">>
<1> HIDE DEF a, b
<1>4. doc = [slot |-> a, ota |-> b, boot |-> 1]
  BY <1>1 DEF a, b
<1>5. doc \in Rescue!Flashes /\ doc.boot = 1 /\ doc.slot[1] = i /\ doc.ota[1] = "valid"
  BY <1>4, <1>2, <1>3 DEF Rescue!Flashes, a, b
<1>6. s10 \in Rescue!Pasts /\ s10.asked = 0 /\ s10.pulled = 0
  BY DEF Rescue!Init, Rescue!Pasts
<1>7. file \in Rescue!Records /\ file.hando \notin Rescue!Links
  BY DEF Rescue!Init, Rescue!Records, Rescue!Links
<1>8. Rescue!TypeOK
  BY <1>5, <1>6, <1>7, RescueConstants DEF Rescue!Init, Rescue!TypeOK
<1>9. Rescue!BootsWhole /\ Rescue!FallsBack
  BY <1>5 DEF Rescue!BootsWhole, Rescue!FallsBack
<1>10. ~ reply.on /\ dumped = "app"
  BY RescueConstants DEF Rescue!Init
<1> QED
  BY <1>6, <1>7, <1>8, <1>9, <1>10
     DEF Rescue!RescueInv, Rescue!OneRequestOnePull, Rescue!PendingRequest, Rescue!UploadElsewhere,
         Rescue!WritesProven

LEMMA RescueBoots ==
  ASSUME Rescue!RescueInv, NEW hold \in Rescue!Hold, Rescue!Boot(hold)
  PROVE  Rescue!RescueInv'
<1>1. /\ Rescue!TypeOK /\ doc \in Rescue!Flashes /\ s10 \in Rescue!Pasts /\ dumped = "boot" /\ ~ reply.on
  BY DEF Rescue!RescueInv, Rescue!TypeOK, Rescue!Boot, Rescue!UploadElsewhere
<1> DEFINE b == doc.boot
           c == Rescue!Other(b)
<1>2. b \in {1, 2} /\ c \in {1, 2} /\ doc' = Rescue!Selected
  BY <1>1, RescueConstants DEF Rescue!Flashes, Rescue!Boot
<1>3. /\ doc' \in Rescue!Flashes /\ doc'.slot = doc.slot /\ doc'.boot \in {1, 2}
      /\ doc.ota[b] = "pending" => doc'.boot = c /\ doc'.ota[c] = doc.ota[c]
      /\ doc.ota[b] # "pending" => doc'.boot = b /\ doc'.ota[c] = doc.ota[c]
      /\ doc.ota[b] = "new" => doc'.ota[b] = "pending"
      /\ doc.ota[b] \notin {"new", "pending"} => doc' = doc
  BY <1>1, <1>2, RescueSelects DEF Rescue!Flashes
<1>4. /\ dumped' \in {"rescue", "start"} /\ exported' = FALSE
      /\ file' \in Rescue!Records /\ (file'.hando \in Rescue!Links => file' = file)
      /\ s10' \in Rescue!Pasts /\ s10'.asked = s10.asked /\ s10'.pulled = s10.pulled /\ s10'.over = s10.over
      /\ UNCHANGED <<tape, missing, reply, edits, s9>>
  <2>1. CASE dumped' = "rescue" /\ file' = file /\ s10' = [s10 EXCEPT !.from = doc'.boot]
    BY <2>1, <1>1, <1>3, RescuePasts DEF Rescue!TypeOK, Rescue!Boot, Rescue!ram
  <2>2. CASE dumped' = "start" /\ s10' = s10 /\ file' = IF hold = "erase" THEN [hando |-> "none", crumb |-> "none"] ELSE file
    BY <2>2, <1>1 DEF Rescue!TypeOK, Rescue!Boot, Rescue!ram, Rescue!Records, Rescue!Links
  <2> QED  BY <2>1, <2>2 DEF Rescue!Boot
<1>5. Rescue!TypeOK'
  BY <1>1, <1>3, <1>4 DEF Rescue!TypeOK
<1>6. Rescue!BootsWhole' /\ Rescue!FallsBack'
  <2> SUFFICES ASSUME ~ s10.over PROVE Rescue!BootsWhole' /\ Rescue!FallsBack'
    BY <1>4 DEF Rescue!BootsWhole, Rescue!FallsBack
  <2>1. /\ doc.slot[b] \in Images /\ doc.ota[b] # "bad"
        /\ doc.ota[b] = "valid" \/ (doc.ota[c] = "valid" /\ doc.slot[c] \in Images)
    BY DEF Rescue!RescueInv, Rescue!BootsWhole, Rescue!FallsBack
  <2> HIDE DEF b, c
  <2>2. CASE doc.ota[b] = "pending"
    BY <2>1, <2>2, <1>3 DEF Rescue!BootsWhole, Rescue!FallsBack
  <2>3. CASE doc.ota[b] # "pending"
    <3>1. doc.ota[b] \in {"new", "valid"}
      BY <2>1, <2>3, <1>1, <1>2 DEF Rescue!Flashes
    <3> QED  BY <2>1, <2>3, <3>1, <1>3 DEF Rescue!BootsWhole, Rescue!FallsBack, c
  <2> QED  BY <2>2, <2>3
<1>7. Rescue!OneRequestOnePull' /\ Rescue!PendingRequest'
  BY <1>4 DEF Rescue!RescueInv, Rescue!OneRequestOnePull, Rescue!PendingRequest
<1>8. Rescue!UploadElsewhere' /\ Rescue!WritesProven'
  BY <1>1, <1>4 DEF Rescue!UploadElsewhere, Rescue!WritesProven
<1> QED  BY <1>5, <1>6, <1>7, <1>8 DEF Rescue!RescueInv

(* The application, and a reset of the board. *)
LEMMA RescueApplies ==
  ASSUME Rescue!RescueInv,
         \/ Rescue!TrialStart \/ Rescue!TrialFails \/ Rescue!RebootToRescue
         \/ \E l \in Rescue!Links : Rescue!WriteHandover(l)
         \/ \E c \in BOOLEAN : Rescue!Reset(c)
  PROVE  Rescue!RescueInv'
<1>1. /\ Rescue!TypeOK /\ doc \in Rescue!Flashes /\ s10 \in Rescue!Pasts /\ s10.asked \in Nat /\ s10.pulled \in Nat
      /\ file \in Rescue!Records /\ s10.pulled <= s10.asked
      /\ file.hando \in Rescue!Links => s10.pulled < s10.asked
  BY DEF Rescue!RescueInv, Rescue!TypeOK, Rescue!Pasts, Rescue!OneRequestOnePull, Rescue!PendingRequest
<1>2. CASE Rescue!TrialStart
  <2>1. /\ file' \in Rescue!Records /\ file'.hando = file.hando /\ s9' \in {"off"} \cup Rescue!Links
    BY <1>1, <1>2 DEF Rescue!TrialStart, Rescue!Records, Rescue!TypeOK, Rescue!Links
  <2>2. dumped = "start" /\ dumped' = "app" /\ UNCHANGED <<doc, exported, tape, missing, reply, edits, s10>>
    BY <1>2 DEF Rescue!TrialStart, Rescue!ram
  <2>3. ~ reply.on
    BY <2>2 DEF Rescue!RescueInv, Rescue!UploadElsewhere
  <2>4. Rescue!TypeOK'
    BY <1>1, <2>1, <2>2 DEF Rescue!TypeOK
  <2> QED  BY <1>1, <2>1, <2>2, <2>3, <2>4, RescueIdles
<1>3. CASE Rescue!RebootToRescue
  <2>1. /\ dumped = "leaving" /\ dumped' = "boot" /\ exported' = TRUE /\ s9' = "off"
        /\ UNCHANGED <<doc, file, tape, missing, reply, edits, s10>>
    BY <1>3 DEF Rescue!RebootToRescue, Rescue!ram
  <2>2. ~ reply.on
    BY <2>1 DEF Rescue!RescueInv, Rescue!UploadElsewhere
  <2>3. Rescue!TypeOK'
    BY <1>1, <2>1 DEF Rescue!TypeOK
  <2> QED  BY <1>1, <2>1, <2>2, <2>3, RescueIdles
<1>4. CASE \E l \in Rescue!Links : Rescue!WriteHandover(l)
  <2>1. PICK l \in Rescue!Links : Rescue!WriteHandover(l)
    BY <1>4
  <2>2. /\ file' = [file EXCEPT !.hando = l] /\ s10' = [s10 EXCEPT !.asked = @ + 1]
        /\ dumped = "app" /\ dumped' = "leaving"
        /\ UNCHANGED <<doc, exported, tape, missing, reply, edits, s9>>
    BY <2>1 DEF Rescue!WriteHandover, Rescue!Stored, Rescue!ram
  <2>3. file' \in Rescue!Records
    BY <1>1, <2>2 DEF Rescue!Records
  <2>4. s10' \in Rescue!Pasts /\ s10'.asked = s10.asked + 1 /\ s10'.pulled = s10.pulled /\ s10'.over = s10.over
    BY <1>1, <2>2, RescuePasts
  <2>5. ~ reply.on
    BY <2>2 DEF Rescue!RescueInv, Rescue!UploadElsewhere
  <2>6. Rescue!TypeOK'
    BY <1>1, <2>2, <2>3, <2>4 DEF Rescue!TypeOK
  <2>7. s10'.pulled < s10'.asked
    BY <1>1, <2>4
  <2>8. s10'.pulled <= s10'.asked
    BY <1>1, <2>4
  <2> QED  BY <2>2, <2>4, <2>5, <2>6, <2>7, <2>8, RescueIdles
<1>5. CASE Rescue!TrialFails \/ \E c \in BOOLEAN : Rescue!Reset(c)
  <2>1. PICK c \in BOOLEAN : Rescue!Restarts(c)
    BY <1>5 DEF Rescue!TrialFails, Rescue!Reset
  <2>2. UNCHANGED <<doc, file, s10>>
    BY <1>5 DEF Rescue!TrialFails, Rescue!Reset
  <2>3. /\ dumped' = "boot" /\ exported' \in BOOLEAN /\ edits' = FALSE /\ s9' = "off"
        /\ tape' \in Rescue!Pulls /\ missing' \in Rescue!Drivers /\ missing'.runs = "none"
        /\ reply' \in Rescue!Uploads /\ ~ reply'.on
    BY <1>1, <2>1, RescueRestarts
  <2>4. Rescue!TypeOK'
    BY <1>1, <2>2, <2>3 DEF Rescue!TypeOK
  <2> QED  BY <1>1, <2>2, <2>3, <2>4, RescueIdles
<1> QED  BY <1>2, <1>3, <1>4, <1>5

LEMMA RescuePasses == Rescue!RescueInv /\ Rescue!TrialPasses => Rescue!RescueInv'
<1> SUFFICES ASSUME Rescue!RescueInv, Rescue!TrialPasses PROVE Rescue!RescueInv'
  OBVIOUS
<1>1. /\ Rescue!TypeOK /\ doc \in Rescue!Flashes /\ dumped = "app" /\ dumped' = dumped /\ s9' = "off"
      /\ UNCHANGED <<file, exported, tape, missing, reply, edits, s10>> /\ ~ reply.on
  BY DEF Rescue!RescueInv, Rescue!TypeOK, Rescue!TrialPasses, Rescue!ram, Rescue!UploadElsewhere
<1> DEFINE o == [doc.ota EXCEPT ![doc.boot] = "valid"]
<1>2. doc' = [doc EXCEPT !.ota = o]
  BY DEF Rescue!TrialPasses
<1>3. o \in [{1, 2} -> {"valid", "pending", "new", "bad"}] /\ o[doc.boot] = "valid"
  BY <1>1 DEF Rescue!Flashes
<1> HIDE DEF o
<1>4. doc' \in Rescue!Flashes /\ doc'.slot = doc.slot /\ doc'.boot = doc.boot /\ doc'.ota = o
  BY <1>1, <1>2, <1>3 DEF Rescue!Flashes
<1>5. Rescue!TypeOK'
  BY <1>1, <1>4 DEF Rescue!TypeOK
<1>6. Rescue!BootsWhole' /\ Rescue!FallsBack'
  BY <1>1, <1>3, <1>4 DEF Rescue!RescueInv, Rescue!BootsWhole, Rescue!FallsBack
<1> QED
  BY <1>1, <1>5, <1>6
     DEF Rescue!RescueInv, Rescue!OneRequestOnePull, Rescue!PendingRequest, Rescue!UploadElsewhere,
         Rescue!WritesProven

LEMMA RescueTakes == Rescue!RescueInv /\ Rescue!Take => Rescue!RescueInv'
<1> SUFFICES ASSUME Rescue!RescueInv, Rescue!Take PROVE Rescue!RescueInv'
  OBVIOUS
<1>1. /\ Rescue!TypeOK /\ s10 \in Rescue!Pasts /\ s10.asked \in Nat /\ s10.pulled \in Nat
      /\ file \in Rescue!Records /\ s10.pulled <= s10.asked /\ dumped = "rescue"
      /\ file.hando \in Rescue!Links => s10.pulled < s10.asked
      /\ UNCHANGED <<doc, exported, missing, reply, edits, s9>>
  BY DEF Rescue!RescueInv, Rescue!TypeOK, Rescue!Pasts, Rescue!OneRequestOnePull, Rescue!PendingRequest, Rescue!Take
<1>2. ~ reply.on
  BY <1>1 DEF Rescue!RescueInv, Rescue!UploadElsewhere
<1> DEFINE erased == [file EXCEPT !.hando = "none"]
<1>3. erased \in Rescue!Records /\ erased.hando = "none" /\ "none" \notin Rescue!Links
  BY <1>1 DEF Rescue!Records, Rescue!Links
<1> HIDE DEF erased
<1>4. CASE file' = erased /\ dumped' = "pull" /\ Rescue!Unpacks
            /\ tape' = [link |-> file.hando, tries |-> PULLS] /\ s10' = [s10 EXCEPT !.pulled = @ + 1]
  <2>1. s10' \in Rescue!Pasts /\ s10'.asked = s10.asked /\ s10'.pulled = s10.pulled + 1 /\ s10'.over = s10.over
    BY <1>1, <1>4, RescuePasts
  <2>2. s10.pulled < s10.asked /\ file.hando \in Rescue!Links
    BY <1>1, <1>4 DEF Rescue!Unpacks
  <2>3. tape' \in Rescue!Pulls /\ tape'.tries > 0
    BY <1>4, <2>2, RescueBounds DEF Rescue!Pulls
  <2>4. Rescue!TypeOK'
    BY <1>1, <1>3, <1>4, <2>1, <2>3 DEF Rescue!TypeOK
  <2>5. s10'.pulled <= s10'.asked
    BY <1>1, <2>1, <2>2
  <2> QED  BY <1>1, <1>2, <1>3, <1>4, <2>1, <2>4, <2>5, RescueIdles
<1>5. CASE file' \in {file, erased} /\ dumped' = "ap" /\ UNCHANGED <<tape, s10>>
  <2>1. Rescue!TypeOK'
    BY <1>1, <1>3, <1>5 DEF Rescue!TypeOK
  <2> QED  BY <1>1, <1>2, <1>3, <1>5, <2>1, RescueIdles
<1> QED  BY <1>4, <1>5 DEF Rescue!Take, erased

(* The pull, up to the slot it writes. *)
LEMMA RescueConnects ==
  ASSUME Rescue!RescueInv,
         Rescue!Connect \/ Rescue!ConnectFails \/ Rescue!StartFails \/ Rescue!PullFails
  PROVE  Rescue!RescueInv'
<1>1. /\ Rescue!TypeOK /\ tape \in Rescue!Pulls /\ dumped \in {"pull", "fetch", "write"} /\ tape.tries > 0
      /\ UNCHANGED <<doc, file, exported, reply, edits, s9, s10>>
  BY DEF Rescue!RescueInv, Rescue!TypeOK, Rescue!Connect, Rescue!ConnectFails, Rescue!StartFails, Rescue!PullFails,
         Rescue!board
<1>2. ~ reply.on
  BY <1>1 DEF Rescue!RescueInv, Rescue!UploadElsewhere
<1>3. missing' \in Rescue!Drivers /\ (missing'.runs # "none" => missing'.started)
  <2>1. [started |-> TRUE, runs |-> "sta"] \in Rescue!Drivers /\ [started |-> TRUE, runs |-> "sta"].started
    BY DEF Rescue!Drivers
  <2>2. missing' = missing \/ missing' = [started |-> TRUE, runs |-> "sta"]
    BY DEF Rescue!Connect, Rescue!ConnectFails, Rescue!StartFails, Rescue!PullFails
  <2> QED  BY <1>1, <2>1, <2>2 DEF Rescue!TypeOK
<1>4. /\ tape' \in Rescue!Pulls /\ dumped' \in {"pull", "fetch", "ap"}
      /\ dumped' \in {"pull", "fetch"} => tape'.tries > 0
  <2>1. CASE Rescue!Connect
    BY <1>1, <2>1 DEF Rescue!Connect
  <2>2. CASE Rescue!AttemptFails
    <3>1. tape.tries \in Nat /\ tape.tries <= PULLS /\ PULLS \in Nat
      BY <1>1, RescueBounds DEF Rescue!Pulls
    <3>2. tape' = [tape EXCEPT !.tries = tape.tries - 1] /\ dumped' = IF tape.tries = 1 THEN "ap" ELSE "pull"
      BY <2>2 DEF Rescue!AttemptFails
    <3>3. tape.tries - 1 \in 0 .. PULLS
      BY <1>1, <3>1
    <3>4. tape' \in Rescue!Pulls /\ tape'.tries = tape.tries - 1
      BY <1>1, <3>2, <3>3 DEF Rescue!Pulls
    <3> QED  BY <1>1, <3>1, <3>2, <3>4
  <2> QED  BY <2>1, <2>2 DEF Rescue!ConnectFails, Rescue!StartFails, Rescue!PullFails
<1>5. Rescue!TypeOK'
  BY <1>1, <1>3, <1>4 DEF Rescue!TypeOK
<1> QED
  BY <1>1, <1>2, <1>4, <1>5, RescueIdles
     DEF Rescue!RescueInv, Rescue!OneRequestOnePull, Rescue!PendingRequest

(* A write starts: it takes a slot that is not selected, and, unless the     *)
(* selected one is unproven and this its fallback, loses nothing.            *)
LEMMA RescueErases ==
  ASSUME Rescue!RescueInv, doc' = Rescue!Erased(Rescue!TargetSlot), s10' = Rescue!WritesOver
  PROVE  /\ doc' \in Rescue!Flashes /\ doc'.boot = doc.boot /\ s10' \in Rescue!Pasts
         /\ Rescue!BootsWhole' /\ Rescue!FallsBack'
         /\ Rescue!WritesProven'
         /\ s10'.asked = s10.asked /\ s10'.pulled = s10.pulled
<1> DEFINE b == doc.boot
           c == Rescue!Other(b)
<1>1. /\ doc \in Rescue!Flashes /\ s10 \in Rescue!Pasts /\ b \in {1, 2}
  BY DEF Rescue!RescueInv, Rescue!TypeOK, Rescue!Flashes
<1>2. c \in {1, 2} /\ b # c /\ c = Rescue!TargetSlot
  BY <1>1, RescueConstants DEF Rescue!TargetSlot
<1>3. /\ doc' \in Rescue!Flashes /\ doc'.ota = doc.ota /\ doc'.boot = b /\ doc'.slot[b] = doc.slot[b]
  BY <1>1, <1>2, RescueErased
<1>4. /\ s10' \in Rescue!Pasts /\ s10'.asked = s10.asked /\ s10'.pulled = s10.pulled
      /\ s10.over => s10'.over
      /\ ~ s10'.over => ~ (doc.ota[c] = "valid" /\ doc.ota[b] # "valid")
  BY <1>1, <1>2, RescueOver
<1>5. ~ s10'.over => doc.ota[b] = "valid" /\ doc.slot[b] \in Images
  BY <1>4 DEF Rescue!RescueInv, Rescue!FallsBack, Rescue!BootsWhole
<1> QED
  BY <1>3, <1>4, <1>5 DEF Rescue!BootsWhole, Rescue!FallsBack, Rescue!WritesProven

LEMMA RescueWritesFirst == Rescue!RescueInv /\ Rescue!PullStarts => Rescue!RescueInv'
<1> SUFFICES ASSUME Rescue!RescueInv, Rescue!PullStarts PROVE Rescue!RescueInv'
  OBVIOUS
<1>1. /\ dumped = "fetch" /\ dumped' = "write" /\ doc' = Rescue!Erased(Rescue!TargetSlot) /\ s10' = Rescue!WritesOver
      /\ UNCHANGED <<file, exported, tape, missing, reply, edits, s9>> /\ Rescue!TypeOK
  BY DEF Rescue!RescueInv, Rescue!PullStarts, Rescue!ram
<1>2. ~ reply.on
  BY <1>1 DEF Rescue!RescueInv, Rescue!UploadElsewhere
<1>3. doc' \in Rescue!Flashes /\ s10' \in Rescue!Pasts
  BY <1>1, RescueErases
<1>4. Rescue!BootsWhole' /\ Rescue!FallsBack' /\ Rescue!WritesProven'
  BY <1>1, RescueErases
<1>5. s10'.asked = s10.asked /\ s10'.pulled = s10.pulled
  BY <1>1, RescueErases
<1>6. Rescue!TypeOK'
  BY <1>1, <1>3 DEF Rescue!TypeOK
<1>7. Rescue!OneRequestOnePull' /\ Rescue!PendingRequest' /\ Rescue!UploadElsewhere'
  BY <1>1, <1>2, <1>5
     DEF Rescue!RescueInv, Rescue!OneRequestOnePull, Rescue!PendingRequest, Rescue!UploadElsewhere
<1> QED  BY <1>4, <1>6, <1>7 DEF Rescue!RescueInv

(* An image is whole in the slot beside the selected one, and is selected. *)
LEMMA RescueCompletes ==
  ASSUME Rescue!RescueInv, dumped = "write" \/ reply.on, NEW i \in Images,
         doc' = Rescue!Installed(Rescue!TargetSlot, i), s10'.over = s10.over
  PROVE  doc' \in Rescue!Flashes /\ Rescue!BootsWhole' /\ Rescue!FallsBack'
<1> DEFINE b == doc.boot
           c == Rescue!Other(b)
<1>1. doc \in Rescue!Flashes /\ b \in {1, 2}
  BY DEF Rescue!RescueInv, Rescue!TypeOK, Rescue!Flashes
<1>2. c \in {1, 2} /\ b # c /\ c = Rescue!TargetSlot /\ Rescue!Other(c) = b
  BY <1>1, RescueConstants DEF Rescue!TargetSlot
<1>3. /\ doc' \in Rescue!Flashes /\ doc'.boot = c /\ doc'.slot[c] = i /\ doc'.ota[c] = "new"
      /\ doc'.slot[b] = doc.slot[b] /\ doc'.ota[b] = doc.ota[b]
  BY <1>1, <1>2, RescueInstalled
<1>4. ~ s10.over => doc.ota[b] = "valid" /\ doc.slot[b] \in Images
  BY DEF Rescue!RescueInv, Rescue!BootsWhole, Rescue!WritesProven
<1> HIDE DEF b, c
<1> QED  BY <1>2, <1>3, <1>4 DEF Rescue!BootsWhole, Rescue!FallsBack

LEMMA RescueInstallsPulled == Rescue!RescueInv /\ Rescue!PullCompletes => Rescue!RescueInv'
<1> SUFFICES ASSUME Rescue!RescueInv, Rescue!PullCompletes PROVE Rescue!RescueInv'
  OBVIOUS
<1>1. PICK i \in Images : doc' = Rescue!Installed(Rescue!TargetSlot, i)
  BY DEF Rescue!PullCompletes
<1>2. /\ dumped = "write" /\ dumped' = "wrote" /\ s10' = [s10 EXCEPT !.via = "pull"] /\ s10 \in Rescue!Pasts
      /\ UNCHANGED <<file, exported, tape, missing, reply, edits, s9>> /\ Rescue!TypeOK
  BY DEF Rescue!RescueInv, Rescue!PullCompletes, Rescue!TypeOK, Rescue!ram
<1>3. s10' \in Rescue!Pasts /\ s10'.asked = s10.asked /\ s10'.pulled = s10.pulled /\ s10'.over = s10.over
  BY <1>2, RescuePasts
<1>4. ~ reply.on
  BY <1>2 DEF Rescue!RescueInv, Rescue!UploadElsewhere
<1>5. doc' \in Rescue!Flashes /\ Rescue!BootsWhole' /\ Rescue!FallsBack'
  BY <1>1, <1>2, <1>3, RescueCompletes
<1>6. Rescue!TypeOK'
  BY <1>2, <1>3, <1>5 DEF Rescue!TypeOK
<1>7. Rescue!OneRequestOnePull' /\ Rescue!PendingRequest' /\ Rescue!UploadElsewhere' /\ Rescue!WritesProven'
  BY <1>2, <1>3, <1>4
     DEF Rescue!RescueInv, Rescue!OneRequestOnePull, Rescue!PendingRequest, Rescue!UploadElsewhere,
         Rescue!WritesProven
<1> QED  BY <1>5, <1>6, <1>7 DEF Rescue!RescueInv

LEMMA RescueLeaves ==
  ASSUME Rescue!RescueInv, Rescue!WriteBreadcrumb \/ Rescue!TimerFires
  PROVE  Rescue!RescueInv'
<1>1. /\ Rescue!TypeOK /\ Rescue!Restarts(FALSE) /\ doc' = doc /\ s10' = s10
      /\ file \in Rescue!Records /\ tape \in Rescue!Pulls
  BY DEF Rescue!RescueInv, Rescue!TypeOK, Rescue!WriteBreadcrumb, Rescue!TimerFires
<1>2. /\ dumped' = "boot" /\ exported' \in BOOLEAN /\ edits' = FALSE /\ s9' = "off"
      /\ tape' \in Rescue!Pulls /\ missing' \in Rescue!Drivers /\ missing'.runs = "none"
      /\ reply' \in Rescue!Uploads /\ ~ reply'.on
  BY <1>1, RescueRestarts
<1>3. file' \in Rescue!Records /\ file'.hando = file.hando
  <2>1. tape.link \in Rescue!Links
    BY <1>1 DEF Rescue!Pulls
  <2>2. file' = file \/ file' = [file EXCEPT !.crumb = tape.link]
    BY DEF Rescue!WriteBreadcrumb, Rescue!TimerFires
  <2> QED  BY <1>1, <2>1, <2>2 DEF Rescue!Records
<1>4. Rescue!TypeOK'
  BY <1>1, <1>2, <1>3 DEF Rescue!TypeOK
<1> QED
  BY <1>1, <1>2, <1>3, <1>4, RescueIdles
     DEF Rescue!RescueInv, Rescue!OneRequestOnePull, Rescue!PendingRequest

(* The access point, and what the web server does beside an upload. *)
LEMMA RescueServes ==
  ASSUME Rescue!RescueInv, Rescue!ApUp \/ Rescue!ApFails \/ Rescue!RebootPost
  PROVE  Rescue!RescueInv'
<1>1. /\ Rescue!TypeOK /\ dumped \in {"ap", "manual"} /\ dumped' = "manual" /\ edits' \in BOOLEAN
      /\ UNCHANGED <<doc, file, exported, tape, reply, s9, s10>>
  BY DEF Rescue!RescueInv, Rescue!TypeOK, Rescue!ApUp, Rescue!ApFails, Rescue!RebootPost, Rescue!board,
         Rescue!Reachable
<1>2. missing' \in Rescue!Drivers /\ (missing'.runs # "none" => missing'.started)
  <2> DEFINE a == [started |-> TRUE, runs |-> "ap"]
             n == [started |-> FALSE, runs |-> "none"]
  <2>1. a \in Rescue!Drivers /\ a.started /\ n \in Rescue!Drivers /\ n.runs = "none"
    BY DEF Rescue!Drivers
  <2>2. missing' = missing \/ missing' = a \/ missing' = n
    BY DEF Rescue!ApUp, Rescue!ApFails, Rescue!RebootPost
  <2> HIDE DEF a, n
  <2> QED  BY <1>1, <2>1, <2>2 DEF Rescue!TypeOK
<1>3. Rescue!TypeOK'
  BY <1>1, <1>2 DEF Rescue!TypeOK
<1>4. reply.on => dumped = "manual"
  BY DEF Rescue!RescueInv, Rescue!UploadElsewhere
<1> QED
  BY <1>1, <1>3, <1>4, RescueIdles DEF Rescue!RescueInv, Rescue!OneRequestOnePull, Rescue!PendingRequest

LEMMA RescueReceives ==
  ASSUME Rescue!RescueInv, Rescue!UploadData \/ Rescue!UploadStalls \/ Rescue!UploadFails
  PROVE  Rescue!RescueInv'
<1>1. /\ Rescue!TypeOK /\ reply \in Rescue!Uploads /\ reply.on
      /\ UNCHANGED <<doc, file, exported, dumped, tape, missing, edits, s9, s10>>
  BY DEF Rescue!RescueInv, Rescue!TypeOK, Rescue!UploadData, Rescue!UploadStalls, Rescue!UploadFails, Rescue!board
<1>2. reply' \in Rescue!Uploads /\ (reply'.on => reply'.dst = reply.dst)
  <2>1. CASE reply' = Rescue!NoUpload
    BY <2>1, RescueConstants
  <2>2. CASE Rescue!UploadData
    <3>1. reply.left - 1 \in 0 .. CHUNKS /\ 0 \in 0 .. STALLS
      BY <1>1, <2>2, RescueBounds DEF Rescue!UploadData, Rescue!Uploads
    <3>2. reply' = [reply EXCEPT !.left = reply.left - 1, !.stalls = 0]
      BY <2>2 DEF Rescue!UploadData
    <3> QED  BY <1>1, <3>1, <3>2 DEF Rescue!Uploads
  <2>3. CASE Rescue!UploadStalls /\ reply.stalls # STALLS
    <3>1. reply.stalls + 1 \in 0 .. STALLS
      BY <1>1, <2>3, RescueBounds DEF Rescue!Uploads
    <3>2. reply' = [reply EXCEPT !.stalls = reply.stalls + 1]
      BY <2>3 DEF Rescue!UploadStalls
    <3> QED  BY <1>1, <3>1, <3>2 DEF Rescue!Uploads
  <2> QED  BY <2>1, <2>2, <2>3 DEF Rescue!UploadStalls, Rescue!UploadFails
<1>3. Rescue!TypeOK'
  BY <1>1, <1>2 DEF Rescue!TypeOK
<1> QED
  BY <1>1, <1>2, <1>3, RescueIdles DEF Rescue!RescueInv, Rescue!OneRequestOnePull, Rescue!PendingRequest

LEMMA RescueUploads == Rescue!RescueInv /\ Rescue!UploadStarts => Rescue!RescueInv'
<1> SUFFICES ASSUME Rescue!RescueInv, Rescue!UploadStarts PROVE Rescue!RescueInv'
  OBVIOUS
<1> DEFINE t == Rescue!TargetSlot
<1>1. /\ dumped = "manual" /\ doc' = Rescue!Erased(t) /\ s10' = Rescue!WritesOver
      /\ reply' = [on |-> TRUE, dst |-> t, left |-> CHUNKS, stalls |-> 0]
      /\ UNCHANGED <<file, exported, dumped, tape, missing, edits, s9>> /\ Rescue!TypeOK
  BY DEF Rescue!RescueInv, Rescue!UploadStarts, Rescue!Reachable
<1>2. t \in {1, 2}
  BY <1>1, RescueConstants DEF Rescue!TypeOK, Rescue!Flashes, Rescue!TargetSlot
<1>3. doc' \in Rescue!Flashes /\ doc'.boot = doc.boot /\ s10' \in Rescue!Pasts
  BY <1>1, RescueErases
<1>4. Rescue!BootsWhole' /\ Rescue!FallsBack' /\ Rescue!WritesProven'
  BY <1>1, RescueErases
<1>5. s10'.asked = s10.asked /\ s10'.pulled = s10.pulled
  BY <1>1, RescueErases
<1>6. reply' \in Rescue!Uploads /\ reply'.dst = t
  <2>1. CHUNKS \in 0 .. CHUNKS /\ 0 \in 0 .. STALLS
    BY RescueBounds
  <2> HIDE DEF t
  <2> QED  BY <1>1, <1>2, <2>1 DEF Rescue!Uploads
<1>7. t = Rescue!TargetSlot'
  BY <1>3 DEF Rescue!TargetSlot
<1>8. Rescue!TypeOK'
  BY <1>1, <1>3, <1>6 DEF Rescue!TypeOK
<1>9. Rescue!OneRequestOnePull' /\ Rescue!PendingRequest' /\ Rescue!UploadElsewhere'
  BY <1>1, <1>5, <1>6, <1>7
     DEF Rescue!RescueInv, Rescue!OneRequestOnePull, Rescue!PendingRequest, Rescue!UploadElsewhere
<1> QED  BY <1>4, <1>8, <1>9 DEF Rescue!RescueInv

LEMMA RescueInstallsUploaded == Rescue!RescueInv /\ Rescue!UploadCompletes => Rescue!RescueInv'
<1> SUFFICES ASSUME Rescue!RescueInv, Rescue!UploadCompletes PROVE Rescue!RescueInv'
  OBVIOUS
<1>1. /\ reply.on /\ reply' = Rescue!NoUpload /\ edits' = TRUE /\ s10' = [s10 EXCEPT !.via = "upload"]
      /\ s10 \in Rescue!Pasts /\ UNCHANGED <<file, exported, dumped, tape, missing, s9>> /\ Rescue!TypeOK
      /\ dumped = "manual" /\ reply.dst = Rescue!TargetSlot
  BY DEF Rescue!RescueInv, Rescue!UploadCompletes, Rescue!TypeOK, Rescue!UploadElsewhere
<1>2. PICK i \in Images : doc' = Rescue!Installed(Rescue!TargetSlot, i)
  BY <1>1 DEF Rescue!UploadCompletes
<1>3. s10' \in Rescue!Pasts /\ s10'.asked = s10.asked /\ s10'.pulled = s10.pulled /\ s10'.over = s10.over
  BY <1>1, RescuePasts
<1>4. doc' \in Rescue!Flashes /\ Rescue!BootsWhole' /\ Rescue!FallsBack'
  BY <1>1, <1>2, <1>3, RescueCompletes
<1>5. Rescue!TypeOK'
  BY <1>1, <1>3, <1>4, RescueConstants DEF Rescue!TypeOK
<1>6. Rescue!OneRequestOnePull' /\ Rescue!PendingRequest' /\ Rescue!UploadElsewhere' /\ Rescue!WritesProven'
  BY <1>1, <1>3, RescueConstants
     DEF Rescue!RescueInv, Rescue!OneRequestOnePull, Rescue!PendingRequest, Rescue!UploadElsewhere,
         Rescue!WritesProven
<1> QED  BY <1>4, <1>5, <1>6 DEF Rescue!RescueInv

LEMMA RescueSteps == Rescue!RescueInv /\ Rescue!Next => Rescue!RescueInv'
BY RescueBoots, RescueApplies, RescuePasses, RescueTakes, RescueConnects, RescueWritesFirst,
   RescueInstallsPulled, RescueLeaves, RescueServes, RescueReceives, RescueUploads, RescueInstallsUploaded
   DEF Rescue!Next

LEMMA RescueStays == Rescue!RescueInv /\ UNCHANGED <<part, slots>> => Rescue!RescueInv'
<1> SUFFICES ASSUME Rescue!RescueInv, UNCHANGED <<part, slots>> PROVE Rescue!RescueInv'
  OBVIOUS
<1>1. UNCHANGED <<doc, file, exported, dumped, tape, missing, reply, edits, s9, s10>>
  BY DEF slots
<1>2. Rescue!TypeOK'
  BY <1>1 DEF Rescue!RescueInv, Rescue!TypeOK
<1> QED
  BY <1>1, <1>2, RescueIdles DEF Rescue!RescueInv, Rescue!OneRequestOnePull, Rescue!PendingRequest

(* Over every order of boots, trials, requests, pulls, uploads and resets:   *)
(* the master's radio update costs it no image on trial (app_main's gate,    *)
(* cp_ota_restart_for_new_radio), the rescue image leaves the board a whole  *)
(* image to boot (rescue_target_slot) unless it overwrote the fallback of an *)
(* unproven one, and one handover record is one pull (hg_handover_take).     *)
THEOREM BoardsBoot == BoardsSpec => []BootsSafe
<1> DEFINE Inv == (part = "boot" => Boot!BootInv) /\ (part = "rescue" => Rescue!RescueInv)
<1>1. BoardsInit => Inv
  BY BootStarts, RescueStarts DEF BoardsInit
<1>2. Inv /\ [BoardsNext]_<<part, slots>> => Inv'
  <2> SUFFICES ASSUME Inv, [BoardsNext]_<<part, slots>> PROVE Inv'
    OBVIOUS
  <2>1. CASE UNCHANGED <<part, slots>>
    <3>1. Boot!BootInv => Boot!BootInv'
      BY <2>1 DEF slots, Boot!BootInv, Boot!ImageKept, Boot!NoneOnTrial, Boot!OnTrial
    <3> QED  BY <2>1, <3>1, RescueStays
  <2>2. CASE BoardsNext
    <3>1. part' = "boot" => part = "boot" /\ Boot!Next
      BY <2>2 DEF BoardsNext
    <3>2. part' = "rescue" => part = "rescue" /\ Rescue!Next
      BY <2>2 DEF BoardsNext
    <3> QED  BY <3>1, <3>2, BootSteps, RescueSteps
  <2> QED  BY <2>1, <2>2
<1>3. Inv => BootsSafe
  BY DEF BootsSafe, Boot!BootInv, Rescue!RescueInv
<1> QED  BY <1>1, <1>2, <1>3, PTL DEF BoardsSpec

-----------------------------------------------------------------------------
(* Alarm.  Its variables open, lost, offline, updating, silent, frozen,      *)
(* quiet, total, events, active, export, panel and dropped are the slots     *)
(* doc, file, exported, dumped, tape, missing, reply, edits and s9 to s13.   *)

LEMMA ModApart ==
  ASSUME NEW e \in Nat \ {0}, NEW a \in Nat, NEW b \in Nat, a < b, b - a < e
  PROVE  a % e # b % e
<1> SUFFICES ASSUME a % e = b % e PROVE FALSE
  OBVIOUS
<1> DEFINE p == a \div e
           q == b \div e
<1>1. a = (e * p) + (a % e) /\ b = (e * q) + (b % e) /\ p \in Int /\ q \in Int
  OBVIOUS
<1> HIDE DEF p, q
<1>2. b - a = e * q - e * p
  BY <1>1
<1>3. e * q - e * p = e * (q - p)
  BY <1>1
<1>4. PICK k \in Int : k = q - p
  BY <1>1
<1>5. e * k > 0 /\ e * k < e
  BY <1>2, <1>3, <1>4
<1>6. CASE k >= 1
  <2>1. e * k >= e
    BY <1>6
  <2> QED  BY <1>5, <2>1
<1>7. CASE k <= 0
  <2>1. e * k <= 0
    BY <1>7
  <2> QED  BY <1>5, <2>1
<1> QED  BY <1>6, <1>7, <1>4

(* Every set of numbers has a least one, so that Min finds it. *)
LEMMA LeastNumber ==
  ASSUME NEW T \in SUBSET Nat, T # {}
  PROVE  Alarm!Min(T) \in T
<1> DEFINE R == {nm \in Nat \X Nat : nm[1] < nm[2]}
<1>1. IsWellFoundedOn(R, Nat)
  BY NatLessThanWellFounded DEF OpToRel
<1>2. \E m \in T : \A n \in T : <<n, m>> \notin R
  <2> HIDE DEF R
  <2> QED  BY <1>1, WFMin
<1>3. \A n, m \in Nat : n < m => <<n, m>> \in R
  OBVIOUS
<1> HIDE DEF R
<1>4. PICK m \in T : \A n \in T : <<n, m>> \notin R
  BY <1>2
<1>5. ASSUME NEW n \in T PROVE m <= n
  <2>1. n \in Nat /\ m \in Nat
    OBVIOUS
  <2>2. ~ (n < m)
    BY <2>1, <1>3, <1>4
  <2> QED  BY <2>1, <2>2
<1> QED  BY <1>4, <1>5 DEF Alarm!Min

-----------------------------------------------------------------------------
(* Alarm.  Its variables open, lost, offline, updating, silent, frozen,      *)
(* quiet, total, events, active, export, panel and dropped are the slots     *)
(* doc, file, exported, dumped, tape, missing, reply, edits, s9, s10, s11,   *)
(* s12 and s13.                                                              *)

LEMMA AlarmKeys ==
  /\ Alarm!NoKey \notin Alarm!Keys /\ <<"RING", 0>> \in Alarm!Keys /\ <<"ALARM", 0>> \in Alarm!Keys
  /\ <<"RING", 0>> # <<"ALARM", 0>>
  /\ \A z \in ALARM_ZONES :
       /\ z # 0
       /\ <<"RING", z>> \in Alarm!Keys /\ <<"NODE", z>> \in Alarm!Keys /\ <<"FW", z>> \in Alarm!Keys
       /\ \A y \in ALARM_ZONES \cup {0} :
            /\ <<"NODE", z>> # <<"FW", y>> /\ <<"NODE", z>> # <<"RING", y>> /\ <<"NODE", z>> # <<"ALARM", y>>
            /\ <<"FW", z>> # <<"RING", y>> /\ <<"FW", z>> # <<"ALARM", y>> /\ <<"RING", z>> # <<"ALARM", y>>
            /\ z # y => <<"NODE", z>> # <<"NODE", y>> /\ <<"FW", z>> # <<"FW", y>> /\ <<"RING", z>> # <<"RING", y>>
<1>1. \A z \in ALARM_ZONES : z # 0
  BY AlarmBounds
<1> QED  BY <1>1 DEF Alarm!NoKey, Alarm!Keys

LEMMA AlarmUpserts ==
  ASSUME s10 \in [1 .. AM_ACTIVE_MAX -> Alarm!Keys \cup {Alarm!NoKey}], Alarm!Once, NEW key \in Alarm!Keys
  PROVE  LET u == Alarm!Upsert(key)
         IN  /\ u \in [1 .. AM_ACTIVE_MAX -> Alarm!Keys \cup {Alarm!NoKey}]
             /\ \A s \in DOMAIN u : IF s10[s] # Alarm!NoKey THEN u[s] = s10[s] ELSE u[s] \in {Alarm!NoKey, key}
             /\ \A s, r \in DOMAIN u : u[s] # Alarm!NoKey /\ u[s] = u[r] => s = r
<1>1. CASE key \in Alarm!ActiveKeys \/ Alarm!FreeSlots = {}
  BY <1>1 DEF Alarm!Upsert, Alarm!Once
<1>2. CASE ~ (key \in Alarm!ActiveKeys \/ Alarm!FreeSlots = {})
  <2> DEFINE m == Alarm!Min(Alarm!FreeSlots)
  <2>1. m \in 1 .. AM_ACTIVE_MAX /\ s10[m] = Alarm!NoKey
    <3>1. Alarm!FreeSlots \in SUBSET Nat
      BY AlarmBounds DEF Alarm!FreeSlots
    <3>2. m \in Alarm!FreeSlots
      BY <1>2, <3>1, LeastNumber
    <3> QED  BY <3>2 DEF Alarm!FreeSlots
  <2>2. Alarm!Upsert(key) = [s10 EXCEPT ![m] = key]
    BY <1>2 DEF Alarm!Upsert
  <2>3. \A s \in 1 .. AM_ACTIVE_MAX : s10[s] # key
    BY <1>2, AlarmKeys DEF Alarm!ActiveKeys
  <2> HIDE DEF m
  <2> QED  BY <2>1, <2>2, <2>3 DEF Alarm!Once
<1> QED  BY <1>1, <1>2

(* What a line does to what is shown, and to nothing else. *)
LEMMA AlarmSinksActive ==
  ASSUME Alarm!AlarmInv, NEW key \in Alarm!Keys, NEW effect \in {"raise", "clear", "none"}, Alarm!Sink(key, effect)
  PROVE  /\ s10' \in [1 .. AM_ACTIVE_MAX -> Alarm!Keys \cup {Alarm!NoKey}]
         /\ Alarm!Once'
         /\ \A s \in DOMAIN s10 : s10[s] \in Alarm!Keys \ {key} => s10'[s] = s10[s]
         /\ \A s \in DOMAIN s10 : s10'[s] \in {s10[s], key, Alarm!NoKey}
         /\ effect = "clear" => \A s \in DOMAIN s10 : s10'[s] # key
         /\ effect # "clear" => \A s \in DOMAIN s10 : s10[s] = key => s10'[s] = key
<1>1. s10 \in [1 .. AM_ACTIVE_MAX -> Alarm!Keys \cup {Alarm!NoKey}] /\ Alarm!Once
  BY DEF Alarm!AlarmInv, Alarm!TypeOK
<1>2. CASE effect = "raise"
  <2>1. s10' = Alarm!Upsert(key)
    BY <1>2 DEF Alarm!Sink
  <2>2. /\ s10' \in [1 .. AM_ACTIVE_MAX -> Alarm!Keys \cup {Alarm!NoKey}]
        /\ \A s \in DOMAIN s10' : IF s10[s] # Alarm!NoKey THEN s10'[s] = s10[s] ELSE s10'[s] \in {Alarm!NoKey, key}
        /\ \A s, r \in DOMAIN s10' : s10'[s] # Alarm!NoKey /\ s10'[s] = s10'[r] => s = r
    BY <1>1, <2>1, AlarmUpserts
  <2> QED  BY <1>1, <1>2, <2>2, AlarmKeys DEF Alarm!Once
<1>3. CASE effect = "clear"
  <2>1. s10' = [s \in DOMAIN s10 |-> IF s10[s] = key THEN Alarm!NoKey ELSE s10[s]]
    BY <1>3 DEF Alarm!Sink, Alarm!Without
  <2> QED  BY <1>1, <1>3, <2>1, AlarmKeys DEF Alarm!Once
<1>4. CASE effect = "none"
  <2>1. s10' = s10
    BY <1>4 DEF Alarm!Sink
  <2> QED  BY <1>1, <1>4, <2>1 DEF Alarm!Once
<1> QED  BY <1>2, <1>3, <1>4

LEMMA AlarmSinksShown ==
  ASSUME Alarm!AlarmInv, NEW key \in Alarm!Keys, NEW effect \in {"raise", "clear", "none"}, Alarm!Sink(key, effect)
  PROVE  /\ \A k \in Alarm!Keys : k # key => (Alarm!Shown(k)' <=> Alarm!Shown(k))
         /\ effect = "raise" => Alarm!Shown(key)'
         /\ effect = "clear" => ~ Alarm!Shown(key)'
         /\ effect = "none" => (Alarm!Shown(key)' <=> Alarm!Shown(key))
<1> DEFINE Act(k) == \E s \in DOMAIN s10 : s10[s] = k
<1>1. /\ DOMAIN s10 = 1 .. AM_ACTIVE_MAX /\ DOMAIN s10' = 1 .. AM_ACTIVE_MAX
      /\ \A s \in DOMAIN s10 : s10[s] \in Alarm!Keys \cup {Alarm!NoKey}
  BY AlarmSinksActive DEF Alarm!AlarmInv, Alarm!TypeOK
<1>2. /\ \A s \in DOMAIN s10 : s10[s] \in Alarm!Keys \ {key} => s10'[s] = s10[s]
      /\ \A s \in DOMAIN s10 : s10'[s] \in {s10[s], key, Alarm!NoKey}
      /\ effect = "clear" => \A s \in DOMAIN s10 : s10'[s] # key
  BY AlarmSinksActive
<1>3. \A k \in Alarm!Keys : /\ Alarm!Shown(k) <=> Act(k) \/ k \in s13
                            /\ Alarm!Shown(k)' <=> Act(k)' \/ k \in s13'
  BY AlarmKeys DEF Alarm!Shown, Alarm!ActiveKeys
<1>4. s13' = IF effect = "clear" \/ key \in {s10'[s] : s \in DOMAIN s10'} THEN s13 \ {key}
             ELSE IF effect = "raise" THEN s13 \cup {key} ELSE s13
  BY DEF Alarm!Sink
<1>5. \A k \in Alarm!Keys : k # key => (Act(k)' <=> Act(k)) /\ (k \in s13' <=> k \in s13)
  BY <1>1, <1>2, <1>4, AlarmKeys
<1>6. CASE effect = "raise"
  BY <1>1, <1>3, <1>4, <1>5, <1>6
<1>7. CASE effect = "clear"
  BY <1>1, <1>2, <1>3, <1>4, <1>5, <1>7
<1>8. CASE effect = "none"
  <2>1. s10' = s10
    BY <1>8 DEF Alarm!Sink
  <2>2. Act(key)' <=> Act(key)
    BY <2>1
  <2>3. Act(key)' \/ key \in s13' <=> Act(key) \/ key \in s13
    BY <2>1, <1>1, <1>4, <1>8
  <2> QED  BY <1>3, <1>5, <1>8, <2>3
<1> QED  BY <1>6, <1>7, <1>8

(* A line takes the place of the oldest kept one. *)
LEMMA AlarmSinksEvents ==
  ASSUME Alarm!AlarmInv, NEW key, NEW effect, Alarm!Sink(key, effect)
  PROVE  /\ edits' = edits + 1 /\ edits' \in 0 .. MAX_LINES
         /\ s9' \in [0 .. AM_EVENTS - 1 -> 0 .. MAX_LINES] /\ Alarm!Kept'
<1>1. /\ edits \in Nat /\ edits' = edits + 1 /\ edits < MAX_LINES /\ edits \in 0 .. MAX_LINES
      /\ s9 \in [0 .. AM_EVENTS - 1 -> 0 .. MAX_LINES] /\ s9' = [s9 EXCEPT ![edits % AM_EVENTS] = edits + 1]
      /\ AM_EVENTS \in Nat \ {0} /\ MAX_LINES \in Nat
  BY AlarmBounds DEF Alarm!AlarmInv, Alarm!TypeOK, Alarm!Sink
<1>2. edits' \in 0 .. MAX_LINES /\ edits % AM_EVENTS \in 0 .. AM_EVENTS - 1
  BY <1>1
<1>3. ASSUME NEW n \in 1 .. edits + 1, edits + 1 - n < AM_EVENTS
      PROVE  s9'[(n - 1) % AM_EVENTS] = n
  <2>1. CASE n = edits + 1
    BY <1>1, <1>2, <2>1
  <2>2. CASE n # edits + 1
    <3>1. n \in 1 .. edits /\ n - 1 \in Nat /\ n - 1 < edits /\ edits - (n - 1) < AM_EVENTS
      BY <1>1, <1>3, <2>2
    <3>2. (n - 1) % AM_EVENTS # edits % AM_EVENTS
      BY <1>1, <3>1, ModApart
    <3>3. edits - n < AM_EVENTS
      BY <1>1, <3>1
    <3>4. s9[(n - 1) % AM_EVENTS] = n
      BY <3>1, <3>3 DEF Alarm!AlarmInv, Alarm!Kept
    <3>5. (n - 1) % AM_EVENTS \in 0 .. AM_EVENTS - 1
      BY <1>1, <3>1
    <3> QED  BY <1>1, <1>2, <3>2, <3>4, <3>5
  <2> QED  BY <2>1, <2>2
<1>4. s9' \in [0 .. AM_EVENTS - 1 -> 0 .. MAX_LINES]
  BY <1>1, <1>2
<1>5. Alarm!Kept'
  BY <1>1, <1>3 DEF Alarm!Kept
<1> QED  BY <1>1, <1>2, <1>4, <1>5

(* An export under way follows no more than what was active all the time. *)
LEMMA AlarmSinksExport ==
  ASSUME Alarm!AlarmInv, NEW key \in Alarm!Keys, NEW effect \in {"raise", "clear", "none"}, Alarm!Sink(key, effect)
  PROVE  s11' \in Alarm!Exports /\ Alarm!Followed' /\ Alarm!ExportFaithful'
<1> DEFINE t == IF effect = "clear" THEN s11.through \ {key} ELSE s11.through
<1>1. s11 \in Alarm!Exports /\ s11' = [s11 EXCEPT !.through = t] /\ t \subseteq s11.through
      /\ s11.total \in Nat /\ edits \in Nat
  BY DEF Alarm!AlarmInv, Alarm!TypeOK, Alarm!Sink, Alarm!Exports
<1>2. /\ s11' \in Alarm!Exports /\ s11'.through = t /\ s11'.pc = s11.pc /\ s11'.slot = s11.slot
      /\ s11'.total = s11.total /\ s11'.i = s11.i /\ s11'.listed = s11.listed /\ s11'.lines = s11.lines
  BY <1>1 DEF Alarm!Exports
<1>3. \A k \in t : k \in s11.through /\ k \in Alarm!Keys /\ (effect = "clear" => k # key)
  BY <1>1 DEF Alarm!Exports
<1> HIDE DEF t
<1>4. edits' = edits + 1
  BY AlarmSinksEvents
<1>5. s11.total <= edits
  BY DEF Alarm!AlarmInv, Alarm!Followed
<1>6. \A k : Alarm!ListedOnce(k)' <=> Alarm!ListedOnce(k)
  BY <1>2 DEF Alarm!ListedOnce
<1>7. ASSUME NEW k \in t, s11.pc = "active"
      PROVE  \E s \in DOMAIN s10' :
               /\ s10'[s] = k
               /\ IF s < s11.slot THEN Alarm!ListedOnce(k) ELSE \A j \in DOMAIN s11.listed : s11.listed[j] # k
  <2>1. PICK s \in DOMAIN s10 :
          /\ s10[s] = k
          /\ IF s < s11.slot THEN Alarm!ListedOnce(k) ELSE \A j \in DOMAIN s11.listed : s11.listed[j] # k
    BY <1>3, <1>7 DEF Alarm!AlarmInv, Alarm!Followed
  <2>2. s10'[s] = k
    BY <1>3, <2>1, AlarmSinksActive
  <2>3. s \in DOMAIN s10'
    BY AlarmSinksActive DEF Alarm!AlarmInv, Alarm!TypeOK
  <2> QED  BY <2>1, <2>2, <2>3
<1>8. Alarm!Followed'
  <2>1. /\ s11'.total <= edits' /\ Len(s11'.lines) = s11'.i
    BY <1>1, <1>2, <1>4, <1>5 DEF Alarm!AlarmInv, Alarm!Followed
  <2>2. s11'.pc = "active" =>
          \A k \in s11'.through : \E s \in DOMAIN s10' :
            /\ s10'[s] = k
            /\ IF s < s11'.slot THEN Alarm!ListedOnce(k)' ELSE \A j \in DOMAIN s11'.listed : s11'.listed[j] # k
    BY <1>2, <1>6, <1>7
  <2>4. s11'.pc = "active" => s11'.slot > 0 /\ s11'.i = 0
    BY <1>2 DEF Alarm!AlarmInv, Alarm!Followed
  <2>3. s11'.pc \in {"events", "done"} => \A k \in s11'.through : Alarm!ListedOnce(k)'
    BY <1>2, <1>3, <1>6 DEF Alarm!AlarmInv, Alarm!Followed
  <2> QED  BY <2>1, <2>2, <2>3, <2>4 DEF Alarm!Followed
<1>9. Alarm!ExportFaithful'
  BY <1>2, <1>3 DEF Alarm!AlarmInv, Alarm!ExportFaithful
<1> QED  BY <1>2, <1>8, <1>9

(* What a step leaves standing when it touches neither the active set, nor   *)
(* the events, nor an export.                                                *)
LEMMA AlarmIdles ==
  ASSUME Alarm!AlarmInv, UNCHANGED <<edits, s9, s10, s11, s13>>
  PROVE  /\ Alarm!Once' /\ Alarm!Kept' /\ Alarm!Followed' /\ Alarm!ExportFaithful'
         /\ edits' \in 0 .. MAX_LINES /\ s9' \in [0 .. AM_EVENTS - 1 -> 0 .. MAX_LINES]
         /\ s10' \in [1 .. AM_ACTIVE_MAX -> Alarm!Keys \cup {Alarm!NoKey}] /\ s11' \in Alarm!Exports
         /\ \A k : Alarm!Shown(k)' <=> Alarm!Shown(k)
<1>1. Alarm!Once' /\ Alarm!Kept'
  BY DEF Alarm!AlarmInv, Alarm!Once, Alarm!Kept
<1>2. Alarm!Followed'
  BY DEF Alarm!AlarmInv, Alarm!Followed, Alarm!ListedOnce
<1>3. Alarm!ExportFaithful'
  BY DEF Alarm!AlarmInv, Alarm!ExportFaithful
<1>4. \A k : Alarm!Shown(k)' <=> Alarm!Shown(k)
  BY DEF Alarm!Shown, Alarm!ActiveKeys
<1> QED  BY <1>1, <1>2, <1>3, <1>4 DEF Alarm!AlarmInv, Alarm!TypeOK

(* A line, if it is not swallowed by its latch. *)
LEMMA AlarmEmits ==
  ASSUME Alarm!AlarmInv, NEW type, NEW idx \in Nat, NEW key \in Alarm!Keys,
         NEW effect \in {"raise", "clear", "none"}, NEW reset \in BOOLEAN,
         Alarm!Emit(type, idx, key, effect, reset)
  PROVE  /\ Alarm!Once' /\ Alarm!Kept' /\ Alarm!Followed' /\ Alarm!ExportFaithful'
         /\ edits' \in 0 .. MAX_LINES /\ s9' \in [0 .. AM_EVENTS - 1 -> 0 .. MAX_LINES]
         /\ s10' \in [1 .. AM_ACTIVE_MAX -> Alarm!Keys \cup {Alarm!NoKey}] /\ s11' \in Alarm!Exports
         /\ reply' \subseteq Alarm!Limited \X (0 .. NTF_IDX_N - 1)
         /\ \A l \in reply' : l \in reply \/ (l = Alarm!Latch(type, idx) /\ type \in Alarm!Limited)
         /\ \A k \in Alarm!Keys : k # key => (Alarm!Shown(k)' <=> Alarm!Shown(k))
         /\ (type \notin Alarm!Limited \/ reset \/ Alarm!Latch(type, idx) \notin reply) =>
              /\ effect = "raise" => Alarm!Shown(key)'
              /\ effect = "clear" => ~ Alarm!Shown(key)'
<1> DEFINE l == Alarm!Latch(type, idx)
<1>1. reply \subseteq Alarm!Limited \X (0 .. NTF_IDX_N - 1)
  BY DEF Alarm!AlarmInv, Alarm!TypeOK
<1>2. type \in Alarm!Limited => l \in Alarm!Limited \X (0 .. NTF_IDX_N - 1)
  BY AlarmBounds DEF Alarm!Latch
<1>3. type \notin Alarm!Limited => l \notin reply
  BY <1>1 DEF Alarm!Latch
<1>4. CASE l \in reply /\ ~ reset
  <2>1. UNCHANGED <<reply, edits, s9, s10, s11, s13>>
    BY <1>4 DEF Alarm!Emit, Alarm!alarms
  <2> QED  BY <1>1, <1>3, <1>4, <2>1, AlarmIdles
<1>5. CASE ~ (l \in reply /\ ~ reset)
  <2>1. Alarm!Sink(key, effect) /\ reply' = IF type \in Alarm!Limited THEN reply \cup {l} ELSE reply
    BY <1>5 DEF Alarm!Emit
  <2>2. Alarm!Once' /\ s10' \in [1 .. AM_ACTIVE_MAX -> Alarm!Keys \cup {Alarm!NoKey}]
    BY <2>1, AlarmSinksActive
  <2>3. edits' \in 0 .. MAX_LINES /\ s9' \in [0 .. AM_EVENTS - 1 -> 0 .. MAX_LINES] /\ Alarm!Kept'
    BY <2>1, AlarmSinksEvents
  <2>4. s11' \in Alarm!Exports /\ Alarm!Followed' /\ Alarm!ExportFaithful'
    BY <2>1, AlarmSinksExport
  <2>5. /\ \A k \in Alarm!Keys : k # key => (Alarm!Shown(k)' <=> Alarm!Shown(k))
        /\ effect = "raise" => Alarm!Shown(key)'
        /\ effect = "clear" => ~ Alarm!Shown(key)'
    BY <2>1, AlarmSinksShown
  <2>6. /\ reply' \subseteq Alarm!Limited \X (0 .. NTF_IDX_N - 1)
        /\ \A x \in reply' : x \in reply \/ (x = l /\ type \in Alarm!Limited)
    BY <1>1, <1>2, <2>1
  <2> QED  BY <2>2, <2>3, <2>4, <2>5, <2>6
<1> QED  BY <1>4, <1>5

LEMMA AlarmStarts == Alarm!Init => Alarm!AlarmInv
<1> SUFFICES ASSUME Alarm!Init PROVE Alarm!AlarmInv
  OBVIOUS
<1>1. /\ s10 = [s \in 1 .. AM_ACTIVE_MAX |-> Alarm!NoKey] /\ s13 = {} /\ edits = 0
      /\ s9 = [s \in 0 .. AM_EVENTS - 1 |-> 0] /\ s11 = Alarm!NoExport /\ reply = {}
      /\ doc = FALSE /\ file = {} /\ exported = {} /\ dumped = {} /\ tape = FALSE /\ missing = FALSE
      /\ s12 = [seen |-> 0, pub |-> {}, shown |-> {}]
  BY DEF Alarm!Init
<1>2. /\ s11 \in Alarm!Exports /\ s11.pc = "idle" /\ s11.total = 0 /\ s11.i = 0 /\ s11.lines = <<>>
  BY <1>1 DEF Alarm!NoExport, Alarm!Exports
<1>3. \A k \in Alarm!Keys : ~ Alarm!Shown(k)
  BY <1>1, AlarmKeys DEF Alarm!Shown, Alarm!ActiveKeys
<1>4. Alarm!TypeOK
  <2>1. {doc, tape, missing} \subseteq BOOLEAN
    BY <1>1
  <2> QED  BY <1>1, <1>2, <2>1, AlarmBounds DEF Alarm!TypeOK
<1>5. Alarm!AlarmsTrue
  BY <1>1, <1>3, AlarmKeys DEF Alarm!AlarmsTrue
<1>6. Alarm!ExportFaithful /\ Alarm!Followed
  BY <1>1, <1>2 DEF Alarm!ExportFaithful, Alarm!Followed
<1>7. Alarm!Once /\ Alarm!Kept /\ Alarm!FreezeHeard
  BY <1>1 DEF Alarm!Once, Alarm!Kept, Alarm!FreezeHeard
<1> QED  BY <1>4, <1>5, <1>6, <1>7 DEF Alarm!AlarmInv

LEMMA AlarmRings == Alarm!AlarmInv /\ Alarm!RingEdge => Alarm!AlarmInv'
<1> SUFFICES ASSUME Alarm!AlarmInv, Alarm!RingEdge PROVE Alarm!AlarmInv'
  OBVIOUS
<1>1. /\ Alarm!TypeOK /\ doc' = ~ doc
      /\ Alarm!Emit("RING", 0, <<"RING", 0>>, IF doc THEN "clear" ELSE "raise", TRUE)
      /\ UNCHANGED <<file, exported, dumped, tape, missing, s12>>
  BY DEF Alarm!AlarmInv, Alarm!RingEdge
<1> DEFINE effect == IF doc THEN "clear" ELSE "raise"
<1>2. effect \in {"raise", "clear", "none"} /\ <<"RING", 0>> \in Alarm!Keys /\ 0 \in Nat
  BY AlarmKeys
<1>3. /\ Alarm!Once' /\ Alarm!Kept' /\ Alarm!Followed' /\ Alarm!ExportFaithful'
      /\ edits' \in 0 .. MAX_LINES /\ s9' \in [0 .. AM_EVENTS - 1 -> 0 .. MAX_LINES]
      /\ s10' \in [1 .. AM_ACTIVE_MAX -> Alarm!Keys \cup {Alarm!NoKey}] /\ s11' \in Alarm!Exports
      /\ reply' \subseteq Alarm!Limited \X (0 .. NTF_IDX_N - 1)
  BY <1>1, <1>2, AlarmEmits
<1>4. \A l \in reply' : l \in reply \/ l = Alarm!Latch("RING", 0)
  BY <1>1, <1>2, AlarmEmits
<1>5. /\ \A k \in Alarm!Keys : k # <<"RING", 0>> => (Alarm!Shown(k)' <=> Alarm!Shown(k))
      /\ effect = "raise" => Alarm!Shown(<<"RING", 0>>)'
      /\ effect = "clear" => ~ Alarm!Shown(<<"RING", 0>>)'
  BY <1>1, <1>2, AlarmEmits
<1>6. Alarm!TypeOK'
  BY <1>1, <1>3 DEF Alarm!TypeOK
<1>7. Alarm!AlarmsTrue'
  <2>1. Alarm!AlarmsTrue
    BY DEF Alarm!AlarmInv
  <2>2. (Alarm!Shown(<<"RING", 0>>)' <=> doc')
    BY <1>1, <1>5
  <2>3. \A k \in Alarm!Keys : k # <<"RING", 0>> => (Alarm!Shown(k)' <=> Alarm!Shown(k))
    BY <1>5
  <2>4. Alarm!Shown(<<"ALARM", 0>>)' <=> Alarm!Shown(<<"ALARM", 0>>)
    BY <2>3, AlarmKeys
  <2>5. \A z \in ALARM_ZONES : /\ Alarm!Shown(<<"FW", z>>)' <=> Alarm!Shown(<<"FW", z>>)
                               /\ Alarm!Shown(<<"NODE", z>>)' <=> Alarm!Shown(<<"NODE", z>>)
    BY <2>3, AlarmKeys
  <2> QED  BY <1>1, <2>1, <2>2, <2>4, <2>5 DEF Alarm!AlarmsTrue
<1>8. Alarm!FreezeHeard'
  <2>1. Alarm!Latch("RING", 0) # Alarm!Latch("ALARM", 0)
    BY DEF Alarm!Latch
  <2> QED  BY <1>1, <1>4, <2>1 DEF Alarm!AlarmInv, Alarm!FreezeHeard, Alarm!Latch
<1> QED  BY <1>3, <1>6, <1>7, <1>8 DEF Alarm!AlarmInv

(* Only a line that clears takes an alarm away. *)
LEMMA AlarmEmitsKeep ==
  ASSUME Alarm!AlarmInv, NEW type, NEW idx \in Nat, NEW key \in Alarm!Keys,
         NEW effect \in {"raise", "none"}, NEW reset \in BOOLEAN,
         Alarm!Emit(type, idx, key, effect, reset), Alarm!Shown(key)
  PROVE  Alarm!Shown(key)'
<1>1. CASE UNCHANGED <<edits, s9, s10, s11, s13>>
  BY <1>1, AlarmIdles
<1>2. CASE Alarm!Sink(key, effect)
  <2>1. CASE effect = "raise"
    BY <1>2, <2>1, AlarmSinksShown
  <2>2. CASE effect = "none"
    BY <1>2, <2>2, AlarmSinksShown
  <2> QED  BY <2>1, <2>2
<1> QED  BY <1>1, <1>2 DEF Alarm!Emit, Alarm!alarms

(* A line about a zone. *)
LEMMA AlarmZoneLines ==
  ASSUME Alarm!AlarmInv, NEW z \in ALARM_ZONES, NEW type \in {"RING", "NODE", "FW"},
         NEW effect \in {"raise", "clear", "none"}, Alarm!Emit(type, z, <<type, z>>, effect, FALSE),
         UNCHANGED <<doc, tape, missing, s12>>, file' \cup exported' \cup dumped' \subseteq ALARM_ZONES
  PROVE  /\ Alarm!TypeOK' /\ Alarm!Once' /\ Alarm!Kept' /\ Alarm!Followed' /\ Alarm!ExportFaithful' /\ Alarm!FreezeHeard'
         /\ Alarm!Shown(<<"RING", 0>>)' <=> doc'
         /\ Alarm!Shown(<<"ALARM", 0>>)' <=> missing'
         /\ \A y \in ALARM_ZONES :
              /\ type # "FW" \/ y # z => (Alarm!Shown(<<"FW", y>>)' <=> Alarm!Shown(<<"FW", y>>))
              /\ type # "NODE" \/ y # z => (Alarm!Shown(<<"NODE", y>>)' <=> Alarm!Shown(<<"NODE", y>>))
         /\ type # "RING" => /\ effect = "raise" => Alarm!Shown(<<type, z>>)'
                             /\ effect = "clear" => ~ Alarm!Shown(<<type, z>>)'
         /\ effect # "clear" => (Alarm!Shown(<<type, z>>) => Alarm!Shown(<<type, z>>)')
<1> DEFINE key == <<type, z>>
<1>1. key \in Alarm!Keys /\ z \in Nat
  BY AlarmKeys, AlarmBounds
<1>2. /\ Alarm!Once' /\ Alarm!Kept' /\ Alarm!Followed' /\ Alarm!ExportFaithful'
      /\ edits' \in 0 .. MAX_LINES /\ s9' \in [0 .. AM_EVENTS - 1 -> 0 .. MAX_LINES]
      /\ s10' \in [1 .. AM_ACTIVE_MAX -> Alarm!Keys \cup {Alarm!NoKey}] /\ s11' \in Alarm!Exports
      /\ reply' \subseteq Alarm!Limited \X (0 .. NTF_IDX_N - 1)
  BY <1>1, AlarmEmits
<1>3. \A l \in reply' : l \in reply \/ l = Alarm!Latch(type, z)
  BY <1>1, AlarmEmits
<1>4. /\ \A k \in Alarm!Keys : k # key => (Alarm!Shown(k)' <=> Alarm!Shown(k))
      /\ type \notin Alarm!Limited => /\ effect = "raise" => Alarm!Shown(key)'
                                      /\ effect = "clear" => ~ Alarm!Shown(key)'
      /\ effect # "clear" => (Alarm!Shown(key) => Alarm!Shown(key)')
  <2>1. FALSE \in BOOLEAN
    OBVIOUS
  <2>2. \A k \in Alarm!Keys : k # key => (Alarm!Shown(k)' <=> Alarm!Shown(k))
    BY <1>1, <2>1, AlarmEmits
  <2>3. type \notin Alarm!Limited => /\ effect = "raise" => Alarm!Shown(key)'
                                     /\ effect = "clear" => ~ Alarm!Shown(key)'
    BY <1>1, <2>1, AlarmEmits
  <2>4. effect # "clear" => (Alarm!Shown(key) => Alarm!Shown(key)')
    <3> SUFFICES ASSUME effect # "clear", Alarm!Shown(key) PROVE Alarm!Shown(key)'
      OBVIOUS
    <3>1. effect \in {"raise", "none"} /\ Alarm!Emit(type, z, key, effect, FALSE)
      OBVIOUS
    <3> HIDE DEF key
    <3> QED  BY <1>1, <2>1, <3>1, AlarmEmitsKeep
  <2> QED  BY <2>2, <2>3, <2>4
<1>5. Alarm!TypeOK'
  BY <1>2 DEF Alarm!AlarmInv, Alarm!TypeOK
<1>6. Alarm!FreezeHeard'
  <2>1. Alarm!Latch(type, z) # Alarm!Latch("ALARM", 0)
    BY DEF Alarm!Latch
  <2> QED  BY <1>3, <2>1 DEF Alarm!AlarmInv, Alarm!FreezeHeard, Alarm!Latch
<1>7. (Alarm!Shown(<<"RING", 0>>) <=> doc) /\ (Alarm!Shown(<<"ALARM", 0>>) <=> missing)
  BY DEF Alarm!AlarmInv, Alarm!AlarmsTrue
<1>8. (Alarm!Shown(<<"RING", 0>>)' <=> doc') /\ (Alarm!Shown(<<"ALARM", 0>>)' <=> missing')
  <2>1. <<"RING", 0>> # key /\ <<"ALARM", 0>> # key
    BY AlarmKeys
  <2> QED  BY <1>4, <1>7, <2>1, AlarmKeys
<1>9. ASSUME NEW y \in ALARM_ZONES
      PROVE  /\ type # "FW" \/ y # z => (Alarm!Shown(<<"FW", y>>)' <=> Alarm!Shown(<<"FW", y>>))
             /\ type # "NODE" \/ y # z => (Alarm!Shown(<<"NODE", y>>)' <=> Alarm!Shown(<<"NODE", y>>))
  <2>1. /\ type # "FW" \/ y # z => <<"FW", y>> # key
        /\ type # "NODE" \/ y # z => <<"NODE", y>> # key
    BY AlarmKeys
  <2> QED  BY <1>4, <2>1, AlarmKeys
<1>10. type # "RING" => type \notin Alarm!Limited
  BY DEF Alarm!Limited
<1> QED  BY <1>2, <1>4, <1>5, <1>6, <1>8, <1>9, <1>10

LEMMA AlarmOfZones ==
  ASSUME Alarm!AlarmInv, NEW z \in ALARM_ZONES,
         \/ Alarm!LinkLost(z) \/ Alarm!LinkBack(z) \/ Alarm!NodeEdge(z) \/ Alarm!FwEdge(z)
         \/ \E effect \in {"raise", "none"} : Alarm!NodeRemark(z, effect)
  PROVE  Alarm!AlarmInv'
<1> USE DEF Alarm!AlarmInv
<1>1. file \cup exported \cup dumped \subseteq ALARM_ZONES
  BY DEF Alarm!TypeOK
<1>2. ASSUME UNCHANGED <<doc, exported, dumped, tape, missing, reply, edits, s9, s10, s11, s12, s13>>,
             file' \subseteq ALARM_ZONES
      PROVE  Alarm!AlarmInv'
  <2>1. /\ Alarm!Once' /\ Alarm!Kept' /\ Alarm!Followed' /\ Alarm!ExportFaithful'
        /\ \A k : Alarm!Shown(k)' <=> Alarm!Shown(k)
    BY <1>2, AlarmIdles
  <2>2. Alarm!TypeOK'
    BY <1>2 DEF Alarm!TypeOK
  <2>3. Alarm!AlarmsTrue' /\ Alarm!FreezeHeard'
    BY <1>2, <2>1 DEF Alarm!AlarmsTrue, Alarm!FreezeHeard, Alarm!Latch
  <2> QED  BY <2>1, <2>2, <2>3
<1>3. ASSUME Alarm!LinkLost(z) PROVE Alarm!AlarmInv'
  <2>1. /\ UNCHANGED <<doc, exported, dumped, tape, missing, s12>> /\ file' \cup exported' \cup dumped' \subseteq ALARM_ZONES
    BY <1>1, <1>3 DEF Alarm!LinkLost
  <2>2. CASE Alarm!Emit("RING", z, <<"RING", z>>, "raise", FALSE)
    <3>1. Alarm!TypeOK' /\ Alarm!Once' /\ Alarm!Kept' /\ Alarm!Followed' /\ Alarm!ExportFaithful' /\ Alarm!FreezeHeard'
      BY <2>1, <2>2, AlarmZoneLines
    <3>2. Alarm!AlarmsTrue'
      BY <2>1, <2>2, AlarmZoneLines DEF Alarm!AlarmsTrue
    <3> QED  BY <3>1, <3>2
  <2>3. CASE UNCHANGED <<reply, edits, s9, s10, s11, s13>>
    BY <1>2, <2>1, <2>3
  <2> QED  BY <1>3, <2>2, <2>3 DEF Alarm!LinkLost, Alarm!alarms
<1>4. ASSUME Alarm!LinkBack(z) PROVE Alarm!AlarmInv'
  BY <1>1, <1>2, <1>4 DEF Alarm!LinkBack, Alarm!alarms
<1>5. ASSUME Alarm!NodeEdge(z) PROVE Alarm!AlarmInv'
  <2> DEFINE effect == IF z \in exported THEN "clear" ELSE "raise"
  <2>1. /\ exported' = IF z \in exported THEN exported \ {z} ELSE exported \cup {z}
        /\ UNCHANGED <<doc, file, dumped, tape, missing, s12>> /\ file' \cup exported' \cup dumped' \subseteq ALARM_ZONES
        /\ Alarm!Emit("NODE", z, <<"NODE", z>>, effect, FALSE)
    BY <1>1, <1>5 DEF Alarm!NodeEdge
  <2>2. effect \in {"raise", "clear", "none"}
    OBVIOUS
  <2>3. Alarm!TypeOK' /\ Alarm!Once' /\ Alarm!Kept' /\ Alarm!Followed' /\ Alarm!ExportFaithful' /\ Alarm!FreezeHeard'
    BY <2>1, <2>2, AlarmZoneLines
  <2>4. /\ Alarm!Shown(<<"RING", 0>>)' <=> doc'
        /\ Alarm!Shown(<<"ALARM", 0>>)' <=> missing'
        /\ \A y \in ALARM_ZONES :
             /\ Alarm!Shown(<<"FW", y>>)' <=> Alarm!Shown(<<"FW", y>>)
             /\ y # z => (Alarm!Shown(<<"NODE", y>>)' <=> Alarm!Shown(<<"NODE", y>>))
        /\ effect = "raise" => Alarm!Shown(<<"NODE", z>>)'
    BY <2>1, <2>2, AlarmZoneLines
  <2>5. Alarm!AlarmsTrue'
    BY <2>1, <2>4 DEF Alarm!AlarmsTrue
  <2> QED  BY <2>3, <2>5
<1>6. ASSUME Alarm!FwEdge(z) PROVE Alarm!AlarmInv'
  <2> DEFINE effect == IF z \in dumped THEN "clear" ELSE "raise"
  <2>1. /\ dumped' = IF z \in dumped THEN dumped \ {z} ELSE dumped \cup {z}
        /\ UNCHANGED <<doc, file, exported, tape, missing, s12>> /\ file' \cup exported' \cup dumped' \subseteq ALARM_ZONES
        /\ Alarm!Emit("FW", z, <<"FW", z>>, effect, FALSE)
    BY <1>1, <1>6 DEF Alarm!FwEdge
  <2>2. effect \in {"raise", "clear", "none"}
    OBVIOUS
  <2>3. Alarm!TypeOK' /\ Alarm!Once' /\ Alarm!Kept' /\ Alarm!Followed' /\ Alarm!ExportFaithful' /\ Alarm!FreezeHeard'
    BY <2>1, <2>2, AlarmZoneLines
  <2>4. /\ Alarm!Shown(<<"RING", 0>>)' <=> doc'
        /\ Alarm!Shown(<<"ALARM", 0>>)' <=> missing'
        /\ \A y \in ALARM_ZONES :
             /\ y # z => (Alarm!Shown(<<"FW", y>>)' <=> Alarm!Shown(<<"FW", y>>))
             /\ Alarm!Shown(<<"NODE", y>>)' <=> Alarm!Shown(<<"NODE", y>>)
        /\ effect = "raise" => Alarm!Shown(<<"FW", z>>)'
        /\ effect = "clear" => ~ Alarm!Shown(<<"FW", z>>)'
    BY <2>1, <2>2, AlarmZoneLines
  <2>5. Alarm!AlarmsTrue'
    BY <2>1, <2>4 DEF Alarm!AlarmsTrue
  <2> QED  BY <2>3, <2>5
<1>7. ASSUME NEW effect \in {"raise", "none"}, Alarm!NodeRemark(z, effect) PROVE Alarm!AlarmInv'
  <2>1. /\ UNCHANGED <<doc, file, exported, dumped, tape, missing, s12>>
        /\ file' \cup exported' \cup dumped' \subseteq ALARM_ZONES
        /\ Alarm!Emit("NODE", z, <<"NODE", z>>, effect, FALSE)
    BY <1>1, <1>7 DEF Alarm!NodeRemark, Alarm!facts
  <2>2. Alarm!TypeOK' /\ Alarm!Once' /\ Alarm!Kept' /\ Alarm!Followed' /\ Alarm!ExportFaithful' /\ Alarm!FreezeHeard'
    BY <2>1, AlarmZoneLines
  <2>3. /\ Alarm!Shown(<<"RING", 0>>)' <=> doc'
        /\ Alarm!Shown(<<"ALARM", 0>>)' <=> missing'
        /\ \A y \in ALARM_ZONES :
             /\ Alarm!Shown(<<"FW", y>>)' <=> Alarm!Shown(<<"FW", y>>)
             /\ y # z => (Alarm!Shown(<<"NODE", y>>)' <=> Alarm!Shown(<<"NODE", y>>))
        /\ Alarm!Shown(<<"NODE", z>>) => Alarm!Shown(<<"NODE", z>>)'
    BY <2>1, AlarmZoneLines
  <2>4. Alarm!AlarmsTrue'
    BY <2>1, <2>3 DEF Alarm!AlarmsTrue
  <2> QED  BY <2>2, <2>4
<1> QED  BY <1>3, <1>4, <1>5, <1>6, <1>7

LEMMA AlarmHears == Alarm!AlarmInv /\ Alarm!HeartbeatCheck => Alarm!AlarmInv'
<1> SUFFICES ASSUME Alarm!AlarmInv, Alarm!HeartbeatCheck PROVE Alarm!AlarmInv'
  OBVIOUS
<1> DEFINE effect == IF tape THEN "raise" ELSE "clear"
           key == <<"ALARM", 0>>
<1>1. /\ Alarm!TypeOK /\ tape # missing /\ missing' = tape
      /\ Alarm!Emit("ALARM", 0, key, effect, ~ tape)
      /\ UNCHANGED <<doc, file, exported, dumped, tape, s12>>
  BY DEF Alarm!AlarmInv, Alarm!HeartbeatCheck
<1>2. effect \in {"raise", "clear", "none"} /\ key \in Alarm!Keys /\ 0 \in Nat
  BY AlarmKeys
<1>3. (~ tape) \in BOOLEAN
  OBVIOUS
<1>4. ~ tape \/ Alarm!Latch("ALARM", 0) \notin reply
  <2>1. tape \in BOOLEAN /\ missing \in BOOLEAN
    BY DEF Alarm!AlarmInv, Alarm!TypeOK
  <2>2. CASE tape
    BY <1>1, <2>1, <2>2 DEF Alarm!AlarmInv, Alarm!FreezeHeard
  <2> QED  BY <2>2
<1>5. /\ Alarm!Once' /\ Alarm!Kept' /\ Alarm!Followed' /\ Alarm!ExportFaithful'
      /\ edits' \in 0 .. MAX_LINES /\ s9' \in [0 .. AM_EVENTS - 1 -> 0 .. MAX_LINES]
      /\ s10' \in [1 .. AM_ACTIVE_MAX -> Alarm!Keys \cup {Alarm!NoKey}] /\ s11' \in Alarm!Exports
      /\ reply' \subseteq Alarm!Limited \X (0 .. NTF_IDX_N - 1)
  BY <1>1, <1>2, <1>3, AlarmEmits
<1>6. /\ \A k \in Alarm!Keys : k # key => (Alarm!Shown(k)' <=> Alarm!Shown(k))
      /\ effect = "raise" => Alarm!Shown(key)'
      /\ effect = "clear" => ~ Alarm!Shown(key)'
  BY <1>1, <1>2, <1>3, <1>4, AlarmEmits
<1>7. Alarm!TypeOK'
  BY <1>1, <1>5 DEF Alarm!TypeOK
<1>8. Alarm!AlarmsTrue'
  <2>1. Alarm!AlarmsTrue
    BY DEF Alarm!AlarmInv
  <2>2. Alarm!Shown(key)' <=> missing'
    BY <1>1, <1>6
  <2>3. Alarm!Shown(<<"RING", 0>>)' <=> Alarm!Shown(<<"RING", 0>>)
    BY <1>6, AlarmKeys
  <2>4. \A z \in ALARM_ZONES : /\ Alarm!Shown(<<"FW", z>>)' <=> Alarm!Shown(<<"FW", z>>)
                               /\ Alarm!Shown(<<"NODE", z>>)' <=> Alarm!Shown(<<"NODE", z>>)
    BY <1>6, AlarmKeys
  <2> QED  BY <1>1, <2>1, <2>2, <2>3, <2>4 DEF Alarm!AlarmsTrue
<1>9. Alarm!FreezeHeard'
  BY <1>1 DEF Alarm!FreezeHeard
<1> QED  BY <1>5, <1>7, <1>8, <1>9 DEF Alarm!AlarmInv

(* The panel's task, the latches, and the panel's copies. *)
LEMMA AlarmQuiets ==
  ASSUME Alarm!AlarmInv,
         Alarm!Stall \/ Alarm!Poll \/ Alarm!Show \/ \E l \in reply : Alarm!IntervalEnds(l)
  PROVE  Alarm!AlarmInv'
<1> USE DEF Alarm!AlarmInv
<1>1. UNCHANGED <<doc, file, exported, dumped, missing, edits, s9, s10, s11, s13>>
  BY DEF Alarm!Stall, Alarm!Poll, Alarm!Show, Alarm!IntervalEnds, Alarm!facts, Alarm!alarms
<1>2. /\ Alarm!Once' /\ Alarm!Kept' /\ Alarm!Followed' /\ Alarm!ExportFaithful'
      /\ \A k : Alarm!Shown(k)' <=> Alarm!Shown(k)
  BY <1>1, AlarmIdles
<1>3. Alarm!AlarmsTrue'
  BY <1>1, <1>2 DEF Alarm!AlarmsTrue
<1>4. reply' \subseteq reply
  BY DEF Alarm!Stall, Alarm!Poll, Alarm!Show, Alarm!IntervalEnds
<1>5. Alarm!FreezeHeard'
  BY <1>1, <1>4
     DEF Alarm!Stall, Alarm!Poll, Alarm!Show, Alarm!IntervalEnds, Alarm!facts, Alarm!FreezeHeard, Alarm!Latch
<1>6. s12' \in [seen : Nat, pub : SUBSET Alarm!Keys, shown : SUBSET Alarm!Keys]
  <2>1. s12 \in [seen : Nat, pub : SUBSET Alarm!Keys, shown : SUBSET Alarm!Keys] /\ edits \in Nat
    BY DEF Alarm!TypeOK
  <2>2. Alarm!ActiveKeys \subseteq Alarm!Keys
    BY DEF Alarm!ActiveKeys, Alarm!TypeOK
  <2>3. CASE Alarm!Poll
    <3> DEFINE p == IF s12.seen = edits THEN s12.pub ELSE Alarm!ActiveKeys
    <3>1. p \in SUBSET Alarm!Keys
      BY <2>1, <2>2
    <3>2. s12' = [s12 EXCEPT !.seen = edits, !.pub = p]
      BY <2>3 DEF Alarm!Poll
    <3> HIDE DEF p
    <3> QED  BY <2>1, <3>1, <3>2
  <2>4. CASE Alarm!Show
    BY <2>1, <2>4 DEF Alarm!Show
  <2>5. CASE s12' = s12
    BY <2>1, <2>5
  <2> QED  BY <2>3, <2>4, <2>5 DEF Alarm!Stall, Alarm!IntervalEnds
<1>7. {doc, tape, missing}' \subseteq BOOLEAN
  <2>1. tape' \in BOOLEAN
    BY DEF Alarm!TypeOK, Alarm!Stall, Alarm!Poll, Alarm!Show, Alarm!IntervalEnds, Alarm!facts
  <2> QED  BY <1>1, <2>1 DEF Alarm!TypeOK
<1>8. Alarm!TypeOK'
  BY <1>1, <1>4, <1>6, <1>7 DEF Alarm!TypeOK
<1> QED  BY <1>2, <1>3, <1>5, <1>8

(* What a step of an export leaves standing. *)
LEMMA AlarmExports ==
  ASSUME Alarm!AlarmInv, UNCHANGED <<doc, file, exported, dumped, tape, missing, reply, edits, s9, s10, s12, s13>>,
         s11' \in Alarm!Exports, Alarm!Followed',
         \A j \in DOMAIN s11'.lines : s11'.lines[j] = s11'.total + 1 - j
  PROVE  Alarm!AlarmInv'
<1>1. Alarm!Once' /\ Alarm!Kept'
  BY DEF Alarm!AlarmInv, Alarm!Once, Alarm!Kept
<1>2. Alarm!TypeOK'
  BY DEF Alarm!AlarmInv, Alarm!TypeOK
<1>3. \A k : Alarm!Shown(k)' <=> Alarm!Shown(k)
  BY DEF Alarm!Shown, Alarm!ActiveKeys
<1>4. Alarm!AlarmsTrue' /\ Alarm!FreezeHeard'
  BY <1>3 DEF Alarm!AlarmInv, Alarm!AlarmsTrue, Alarm!FreezeHeard, Alarm!Latch
<1>5. ASSUME NEW k, Alarm!ListedOnce(k)'
      PROVE  Cardinality({s \in DOMAIN s11'.listed : s11'.listed[s] = k}) = 1
  <2>1. PICK j \in DOMAIN s11'.listed : \A i \in DOMAIN s11'.listed : s11'.listed[i] = k <=> i = j
    BY <1>5 DEF Alarm!ListedOnce
  <2>2. {s \in DOMAIN s11'.listed : s11'.listed[s] = k} = {j}
    BY <2>1
  <2> QED  BY <2>2, FS_Singleton
<1>6. s11'.pc \in {"events", "done"} =>
        \A k \in s11'.through : Cardinality({s \in DOMAIN s11'.listed : s11'.listed[s] = k}) = 1
  BY <1>5 DEF Alarm!Followed
<1>7. \A j \in DOMAIN s11'.lines : s11'.lines[j] = s11'.total + 1 - j
  OBVIOUS
<1>8. Alarm!ExportFaithful'
  <2>1. \A S : Alarm!Cardinality(S) = Cardinality(S)
    BY DEF Alarm!Cardinality, Cardinality
  <2> QED  BY <1>6, <1>7, <2>1 DEF Alarm!ExportFaithful
<1> QED  BY <1>1, <1>2, <1>4, <1>8 DEF Alarm!AlarmInv

(* The first lock hold, and the end of the answer. *)
LEMMA AlarmExportEnds == Alarm!AlarmInv /\ (Alarm!ExportStart \/ Alarm!ExportSent) => Alarm!AlarmInv'
<1> SUFFICES ASSUME Alarm!AlarmInv, Alarm!ExportStart \/ Alarm!ExportSent PROVE Alarm!AlarmInv'
  OBVIOUS
<1>1. UNCHANGED <<doc, file, exported, dumped, tape, missing, reply, edits, s9, s10, s12, s13>>
  BY DEF Alarm!ExportStart, Alarm!ExportSent, Alarm!facts, Alarm!alarms
<1>2. edits \in Nat /\ s10 \in [1 .. AM_ACTIVE_MAX -> Alarm!Keys \cup {Alarm!NoKey}] /\ AM_ACTIVE_MAX \in Nat
  BY AlarmBounds DEF Alarm!AlarmInv, Alarm!TypeOK
<1>3. CASE Alarm!ExportStart
  <2>1. s11' = [Alarm!NoExport EXCEPT !.pc = "active", !.slot = 1, !.through = Alarm!ActiveKeys]
    BY <1>3 DEF Alarm!ExportStart
  <2>2. Alarm!ActiveKeys \subseteq Alarm!Keys
    BY <1>2 DEF Alarm!ActiveKeys
  <2>3. s11' = [pc |-> "active", slot |-> 1, total |-> 0, i |-> 0, listed |-> <<>>, lines |-> <<>>,
                through |-> Alarm!ActiveKeys]
    BY <2>1 DEF Alarm!NoExport
  <2>4. s11' \in Alarm!Exports
    BY <2>2, <2>3 DEF Alarm!Exports
  <2>5. /\ s11'.pc = "active" /\ s11'.slot = 1 /\ s11'.total = 0 /\ s11'.i = 0 /\ s11'.listed = <<>>
        /\ s11'.lines = <<>> /\ s11'.through = Alarm!ActiveKeys
    BY <2>3
  <2>6. \A k \in Alarm!ActiveKeys : \E s \in DOMAIN s10 : s10[s] = k /\ ~ (s < 1)
    BY <1>2 DEF Alarm!ActiveKeys
  <2>7. Alarm!Followed'
    BY <1>1, <1>2, <2>5, <2>6 DEF Alarm!Followed
  <2> QED  BY <1>1, <2>4, <2>5, <2>7, AlarmExports
<1>4. CASE Alarm!ExportSent
  <2>1. s11' = Alarm!NoExport
    BY <1>4 DEF Alarm!ExportSent
  <2>2. s11' \in Alarm!Exports
    BY <2>1 DEF Alarm!Exports, Alarm!NoExport
  <2>3. s11'.pc = "idle" /\ s11'.total = 0 /\ s11'.i = 0 /\ s11'.lines = <<>>
    BY <2>1 DEF Alarm!NoExport
  <2>4. Alarm!Followed'
    BY <1>1, <1>2, <2>3 DEF Alarm!Followed
  <2> QED  BY <1>1, <2>2, <2>3, <2>4, AlarmExports
<1> QED  BY <1>3, <1>4

(* The active set, one slot a lock hold. *)
LEMMA AlarmExportActive == Alarm!AlarmInv /\ Alarm!ExportActive => Alarm!AlarmInv'
<1> SUFFICES ASSUME Alarm!AlarmInv, Alarm!ExportActive PROVE Alarm!AlarmInv'
  OBVIOUS
<1>1. UNCHANGED <<doc, file, exported, dumped, tape, missing, reply, edits, s9, s10, s12, s13>>
  BY DEF Alarm!ExportActive, Alarm!facts, Alarm!alarms
<1>2. /\ edits \in Nat /\ s10 \in [1 .. AM_ACTIVE_MAX -> Alarm!Keys \cup {Alarm!NoKey}] /\ AM_ACTIVE_MAX \in Nat
      /\ s11 \in Alarm!Exports /\ Alarm!NoKey \notin Alarm!Keys
  BY AlarmBounds, AlarmKeys DEF Alarm!AlarmInv, Alarm!TypeOK
<1>3. /\ s11.pc = "active" /\ s11.slot \in Nat /\ s11.slot > 0 /\ s11.i = 0 /\ s11.listed \in Seq(Alarm!Keys)
      /\ s11.total \in Nat /\ s11.total <= edits /\ Len(s11.lines) = s11.i /\ s11.through \subseteq Alarm!Keys
  BY <1>2 DEF Alarm!ExportActive, Alarm!AlarmInv, Alarm!Followed, Alarm!Exports
<1>4. ASSUME NEW k \in s11.through
      PROVE  \E s \in DOMAIN s10 :
               /\ s10[s] = k
               /\ IF s < s11.slot THEN Alarm!ListedOnce(k) ELSE \A j \in DOMAIN s11.listed : s11.listed[j] # k
  BY <1>3 DEF Alarm!AlarmInv, Alarm!Followed
<1>5. \A j \in DOMAIN s11.lines : s11.lines[j] = s11.total + 1 - j
  BY DEF Alarm!AlarmInv, Alarm!ExportFaithful
<1>6. CASE s11.slot \in DOMAIN s10
  <2> DEFINE x == s10[s11.slot]
             l == IF x = Alarm!NoKey THEN s11.listed ELSE Append(s11.listed, x)
  <2>1. s11' = [s11 EXCEPT !.slot = s11.slot + 1, !.listed = l]
    BY <1>6 DEF Alarm!ExportActive
  <2>2. l \in Seq(Alarm!Keys) /\ s11.slot + 1 \in Nat
    BY <1>2, <1>3, <1>6
  <2>3. ASSUME NEW k \in s11.through
        PROVE  \E s \in DOMAIN s10 :
                 /\ s10[s] = k
                 /\ IF s < s11.slot + 1
                    THEN \E j \in DOMAIN l : \A i \in DOMAIN l : l[i] = k <=> i = j
                    ELSE \A j \in DOMAIN l : l[j] # k
    <3>1. PICK s \in DOMAIN s10 :
            /\ s10[s] = k
            /\ IF s < s11.slot THEN Alarm!ListedOnce(k) ELSE \A j \in DOMAIN s11.listed : s11.listed[j] # k
      BY <1>4
    <3>2. k # Alarm!NoKey /\ s \in Nat
      BY <1>2, <1>3
    <3>3. s # s11.slot => x # k
      BY <1>6, <3>1, <3>2 DEF Alarm!AlarmInv, Alarm!Once
    <3>4. /\ DOMAIN s11.listed = 1 .. Len(s11.listed) /\ Len(s11.listed) \in Nat
          /\ DOMAIN Append(s11.listed, x) = 1 .. Len(s11.listed) + 1
          /\ \A i \in 1 .. Len(s11.listed) : Append(s11.listed, x)[i] = s11.listed[i]
          /\ Append(s11.listed, x)[Len(s11.listed) + 1] = x
      BY <1>3
    <3>5. CASE s < s11.slot
      <4>1. PICK j \in DOMAIN s11.listed : \A i \in DOMAIN s11.listed : s11.listed[i] = k <=> i = j
        BY <3>1, <3>5 DEF Alarm!ListedOnce
      <4>2. x # k /\ s < s11.slot + 1
        BY <1>3, <3>2, <3>3, <3>5
      <4>3. j \in DOMAIN l /\ \A i \in DOMAIN l : l[i] = k <=> i = j
        BY <3>4, <4>1, <4>2
      <4> QED  BY <3>1, <4>2, <4>3
    <3>6. CASE s = s11.slot
      <4>1. x = k /\ l = Append(s11.listed, x) /\ s < s11.slot + 1
        BY <1>3, <3>1, <3>2, <3>6
      <4>2. \A j \in DOMAIN s11.listed : s11.listed[j] # k
        BY <1>3, <3>1, <3>6
      <4>3. \A i \in DOMAIN l : l[i] = k <=> i = Len(s11.listed) + 1
        BY <3>4, <4>1, <4>2
      <4>4. Len(s11.listed) + 1 \in DOMAIN l
        BY <3>4, <4>1
      <4> QED  BY <3>1, <4>1, <4>3, <4>4
    <3>7. CASE s > s11.slot
      <4>1. x # k /\ ~ (s < s11.slot + 1) /\ ~ (s < s11.slot)
        BY <1>3, <3>2, <3>3, <3>7
      <4>2. \A j \in DOMAIN l : l[j] # k
        BY <3>1, <3>4, <4>1
      <4> HIDE DEF l
      <4> QED  BY <3>1, <4>1, <4>2
    <3>8. s < s11.slot \/ s = s11.slot \/ s > s11.slot
      BY <1>3, <3>2
    <3> HIDE DEF l
    <3> QED  BY <3>5, <3>6, <3>7, <3>8
  <2> HIDE DEF l
  <2>4. /\ s11' \in Alarm!Exports /\ s11'.pc = s11.pc /\ s11'.slot = s11.slot + 1 /\ s11'.listed = l
        /\ s11'.total = s11.total /\ s11'.i = s11.i /\ s11'.lines = s11.lines /\ s11'.through = s11.through
    BY <1>2, <2>1, <2>2 DEF Alarm!Exports
  <2>5. /\ s11'.total <= edits' /\ Len(s11'.lines) = s11'.i /\ s11'.slot > 0 /\ s11'.i = 0
        /\ s11'.pc = "active" /\ s11'.pc \notin {"events", "done"}
    BY <1>1, <1>3, <2>4
  <2>6. ASSUME NEW k \in s11'.through
        PROVE  \E s \in DOMAIN s10' :
                 /\ s10'[s] = k
                 /\ IF s < s11'.slot THEN Alarm!ListedOnce(k)' ELSE \A j \in DOMAIN s11'.listed : s11'.listed[j] # k
    <3>1. Alarm!ListedOnce(k)' <=> \E j \in DOMAIN l : \A i \in DOMAIN l : l[i] = k <=> i = j
      BY <2>4 DEF Alarm!ListedOnce
    <3> QED  BY <1>1, <2>3, <2>4, <3>1
  <2>7. Alarm!Followed'
    BY <2>5, <2>6 DEF Alarm!Followed
  <2> QED  BY <1>1, <1>5, <2>4, <2>7, AlarmExports
<1>7. CASE s11.slot \notin DOMAIN s10
  <2>1. s11' = [s11 EXCEPT !.pc = "events", !.total = edits]
    BY <1>7 DEF Alarm!ExportActive
  <2>2. /\ s11' \in Alarm!Exports /\ s11'.pc = "events" /\ s11'.listed = s11.listed
        /\ s11'.total = edits /\ s11'.i = s11.i /\ s11'.lines = s11.lines /\ s11'.through = s11.through
    BY <1>2, <2>1 DEF Alarm!Exports
  <2>3. ASSUME NEW k \in s11.through PROVE Alarm!ListedOnce(k)'
    <3>1. Alarm!ListedOnce(k)
      BY <1>2, <1>3, <1>4, <1>7
    <3> QED  BY <2>2, <3>1 DEF Alarm!ListedOnce
  <2>4. Alarm!Followed'
    BY <1>1, <1>2, <1>3, <2>2, <2>3 DEF Alarm!Followed
  <2>5. s11.lines = <<>>
    BY <1>2, <1>3 DEF Alarm!Exports
  <2> QED  BY <1>1, <2>2, <2>4, <2>5, AlarmExports
<1> QED  BY <1>6, <1>7

(* The events, newest first, one a lock hold. *)
LEMMA AlarmExportEvent == Alarm!AlarmInv /\ Alarm!ExportEvent => Alarm!AlarmInv'
<1> SUFFICES ASSUME Alarm!AlarmInv, Alarm!ExportEvent PROVE Alarm!AlarmInv'
  OBVIOUS
<1>1. UNCHANGED <<doc, file, exported, dumped, tape, missing, reply, edits, s9, s10, s12, s13>>
  BY DEF Alarm!ExportEvent, Alarm!facts, Alarm!alarms
<1>2. /\ edits \in Nat /\ s11 \in Alarm!Exports /\ AM_EVENTS \in Nat \ {0} /\ MAX_LINES \in Nat
      /\ s9 \in [0 .. AM_EVENTS - 1 -> 0 .. MAX_LINES]
  BY AlarmBounds DEF Alarm!AlarmInv, Alarm!TypeOK
<1>3. /\ s11.pc = "events" /\ s11.i \in Nat /\ s11.lines \in Seq(Nat) /\ Len(s11.lines) = s11.i
      /\ s11.total \in Nat /\ s11.total <= edits
  BY <1>2 DEF Alarm!ExportEvent, Alarm!AlarmInv, Alarm!Followed, Alarm!Exports
<1>4. \A j \in DOMAIN s11.lines : s11.lines[j] = s11.total + 1 - j
  BY DEF Alarm!AlarmInv, Alarm!ExportFaithful
<1>5. \A k \in s11.through : Alarm!ListedOnce(k)
  BY <1>3 DEF Alarm!AlarmInv, Alarm!Followed
<1> DEFINE e == Alarm!Event(s11.total, s11.i)
           pc == IF e = <<>> \/ s11.i + 1 = AM_EVENTS THEN "done" ELSE s11.pc
<1>6. e = <<>> \/ (e = <<s11.total - s11.i>> /\ s11.total - s11.i \in Nat)
  <2>1. CASE ~ (/\ s11.i < (IF s11.total < AM_EVENTS THEN s11.total ELSE AM_EVENTS)
                /\ edits - (s11.total - 1 - s11.i) <= AM_EVENTS)
    BY <2>1 DEF Alarm!Event
  <2>2. CASE /\ s11.i < (IF s11.total < AM_EVENTS THEN s11.total ELSE AM_EVENTS)
             /\ edits - (s11.total - 1 - s11.i) <= AM_EVENTS
    <3> DEFINE n == s11.total - s11.i
    <3>0. s11.i < s11.total
      BY <1>2, <1>3, <2>2
    <3>1. n \in 1 .. edits /\ edits - n < AM_EVENTS /\ s11.total - 1 - s11.i = n - 1
      <4> DEFINE t == s11.total
                 i == s11.i
      <4>1. /\ t \in Nat /\ i \in Nat /\ i < t /\ t <= edits /\ edits \in Nat /\ AM_EVENTS \in Nat
            /\ edits - (t - 1 - i) <= AM_EVENTS
        BY <1>2, <1>3, <2>2, <3>0
      <4> HIDE DEF t, i
      <4>2. t - i \in 1 .. edits /\ edits - (t - i) < AM_EVENTS /\ t - 1 - i = (t - i) - 1
        BY <4>1
      <4> QED  BY <4>2 DEF t, i
    <3>2. e = <<s9[(n - 1) % AM_EVENTS]>>
      BY <2>2, <3>1 DEF Alarm!Event
    <3> HIDE DEF n
    <3>3. s9[(n - 1) % AM_EVENTS] = n
      BY <3>1 DEF Alarm!AlarmInv, Alarm!Kept
    <3>4. e = <<n>> /\ n \in Nat
      BY <3>1, <3>2, <3>3
    <3> QED  BY <3>4 DEF n
  <2> QED  BY <2>1, <2>2
<1>7. s11' = [s11 EXCEPT !.lines = s11.lines \o e, !.i = s11.i + Len(e), !.pc = pc]
  BY DEF Alarm!ExportEvent
<1>8. s11.lines \o e \in Seq(Nat) /\ Len(e) \in Nat /\ Len(s11.lines \o e) = s11.i + Len(e)
  <2>1. CASE e = <<>>
    BY <1>3, <2>1
  <2>2. CASE e = <<s11.total - s11.i>> /\ s11.total - s11.i \in Nat
    BY <1>3, <2>2
  <2> QED  BY <1>6, <2>1, <2>2
<1>9. \A j \in DOMAIN (s11.lines \o e) : (s11.lines \o e)[j] = s11.total + 1 - j
  <2>1. CASE e = <<>>
    BY <1>3, <1>4, <2>1
  <2>2. CASE e = <<s11.total - s11.i>> /\ s11.total - s11.i \in Nat
    BY <1>3, <1>4, <2>2
  <2> QED  BY <1>6, <2>1, <2>2
<1>10. pc \in {"events", "done"}
  BY <1>3
<1> HIDE DEF e, pc
<1>11. /\ s11' \in Alarm!Exports /\ s11'.pc = pc /\ s11'.listed = s11.listed /\ s11'.total = s11.total
       /\ s11'.i = s11.i + Len(e) /\ s11'.lines = s11.lines \o e /\ s11'.through = s11.through
  <2>1. s11.i + Len(e) \in Nat /\ pc \in {"idle", "active", "events", "done"}
    BY <1>3, <1>8, <1>10
  <2> QED  BY <1>2, <1>7, <1>8, <2>1 DEF Alarm!Exports
<1>12. \A k \in s11'.through : Alarm!ListedOnce(k)'
  BY <1>5, <1>11 DEF Alarm!ListedOnce
<1>13. Alarm!Followed'
  BY <1>1, <1>3, <1>8, <1>10, <1>11, <1>12 DEF Alarm!Followed
<1> QED  BY <1>1, <1>9, <1>11, <1>13, AlarmExports

LEMMA AlarmSteps == Alarm!AlarmInv /\ Alarm!Next => Alarm!AlarmInv'
<1> SUFFICES ASSUME Alarm!AlarmInv, Alarm!Next PROVE Alarm!AlarmInv'
  OBVIOUS
<1>1. ASSUME NEW z \in ALARM_ZONES,
             \/ Alarm!LinkLost(z) \/ Alarm!LinkBack(z) \/ Alarm!NodeEdge(z) \/ Alarm!FwEdge(z)
             \/ \E effect \in {"raise", "none"} : Alarm!NodeRemark(z, effect)
      PROVE  Alarm!AlarmInv'
  BY <1>1, AlarmOfZones
<1>2. CASE Alarm!Stall \/ Alarm!Poll \/ Alarm!Show \/ \E l \in reply : Alarm!IntervalEnds(l)
  BY <1>2, AlarmQuiets
<1>3. CASE Alarm!RingEdge
  BY <1>3, AlarmRings
<1>4. CASE Alarm!HeartbeatCheck
  BY <1>4, AlarmHears
<1>5. CASE Alarm!ExportStart \/ Alarm!ExportSent
  BY <1>5, AlarmExportEnds
<1>6. CASE Alarm!ExportActive
  BY <1>6, AlarmExportActive
<1>7. CASE Alarm!ExportEvent
  BY <1>7, AlarmExportEvent
<1> QED  BY <1>1, <1>2, <1>3, <1>4, <1>5, <1>6, <1>7 DEF Alarm!Next

LEMMA AlarmStays == Alarm!AlarmInv /\ UNCHANGED slots => Alarm!AlarmInv'
<1> SUFFICES ASSUME Alarm!AlarmInv, UNCHANGED slots PROVE Alarm!AlarmInv'
  OBVIOUS
<1>1. UNCHANGED <<doc, file, exported, dumped, tape, missing, reply, edits, s9, s10, s11, s12, s13>>
  BY DEF slots
<1>2. s11' \in Alarm!Exports /\ Alarm!Followed'
  BY <1>1, AlarmIdles
<1>3. \A j \in DOMAIN s11'.lines : s11'.lines[j] = s11'.total + 1 - j
  BY <1>1 DEF Alarm!AlarmInv, Alarm!ExportFaithful
<1> QED  BY <1>1, <1>2, <1>3, AlarmExports

(* notify.c, alarm_mgr.c and alarm_mgr_json.c: whatever the rate limit       *)
(* swallows, an alarm is active as long as its condition lasts, and an export *)
(* that runs while lines arrive has neither a gap nor a repetition.          *)
THEOREM AlarmsHold == BoardsSpec => []AlarmsKept
<1> DEFINE I == part \in {"export", "screen"} => Alarm!AlarmInv
<1>1. BoardsInit => I
  BY AlarmStarts DEF BoardsInit
<1>2. I /\ [BoardsNext]_<<part, slots>> => I'
  <2> SUFFICES ASSUME I, [BoardsNext]_<<part, slots>>, part' \in {"export", "screen"} PROVE Alarm!AlarmInv'
    OBVIOUS
  <2>1. part \in {"export", "screen"} /\ Alarm!AlarmInv /\ (Alarm!Next \/ UNCHANGED slots)
    BY DEF BoardsNext
  <2> QED  BY <2>1, AlarmSteps, AlarmStays
<1>3. I => AlarmsKept
  BY DEF AlarmsKept, Alarm!AlarmInv
<1> QED  BY <1>1, <1>2, <1>3, PTL DEF BoardsSpec
=============================================================================
