---------------------------- MODULE EnrolProofs ----------------------------
(***************************************************************************)
(* Who answers on which zone id, for any number of ids and boards: the     *)
(* table's operations keep it sound, and with it hold one board per id,    *)
(* what GET NODES shows, and what a cached configuration may be pushed to. *)
(***************************************************************************)
EXTENDS Enrol, FiniteSetTheorems, WellFoundedInduction, TLAPS

-----------------------------------------------------------------------------
(* The operators of ztab.c.                                                 *)

Entries == [mac : BOARDS \cup {NONE}, id : 0 .. IDS]
Tables  == [Slots -> Entries]

(* Min finds an element of every nonempty set of ids or slots.              *)
LEMMA MinFound ==
  ASSUME NEW T \in SUBSET Nat, T # {}
  PROVE  Min(T) \in T
<1> DEFINE R == {ss \in Nat \X Nat : ss[1] < ss[2]}
<1>1. IsWellFoundedOn(R, Nat)
  BY NatLessThanWellFounded DEF OpToRel
<1>2. \A n, m \in Nat : n < m => <<n, m>> \in R
  OBVIOUS
<1> HIDE DEF R
<1>3. PICK m \in T : \A n \in T : <<n, m>> \notin R
  BY <1>1, WFMin
<1>4. \A n \in T : m <= n
  <2> TAKE n \in T
  <2>1. n \in Nat /\ m \in Nat /\ ~(n < m)
    BY <1>2, <1>3
  <2> QED
    BY <2>1
<1> QED
  BY <1>4 DEF Min

LEMMA SomeId == \A x \in 0 .. IDS : x # 0 => x \in Ids
<1>1. IDS \in Nat
  BY EnrolAssumption
<1> QED
  BY <1>1 DEF Ids

LEMMA EntryTyped ==
  ASSUME NEW t \in Tables, NEW s \in Slots
  PROVE  /\ t[s].mac \in BOARDS \cup {NONE} /\ t[s].id \in 0 .. IDS
         /\ t[s] = [mac |-> t[s].mac, id |-> t[s].id]
BY DEF Tables, Entries

(* ztab_find_mac and ztab_find_id find an entry of the table.               *)
LEMMA MacFound ==
  ASSUME NEW t \in Tables, Sound(t), NEW b \in Macs(t)
  PROVE  /\ SlotOfMac(t, b) \in Slots /\ t[SlotOfMac(t, b)].mac = b
         /\ IdOf(t, b) = t[SlotOfMac(t, b)].id
         /\ IdOf(t, b) \in Ids /\ IdOf(t, b) \in UsedIds(t) /\ b \in BOARDS
<1> DEFINE T == {s \in Slots : t[s].mac = b}
<1>1. T \in SUBSET Nat /\ T # {} /\ b # NONE
  BY EnrolAssumption DEF Macs, Slots
<1> HIDE DEF T
<1>2. Min(T) \in T
  BY <1>1, MinFound
<1>3. SlotOfMac(t, b) \in Slots /\ t[SlotOfMac(t, b)].mac = b
  BY <1>2 DEF T, SlotOfMac
<1>4. t[SlotOfMac(t, b)].id # 0 /\ t[SlotOfMac(t, b)].id \in 0 .. IDS
  BY <1>1, <1>3, EntryTyped DEF Sound
<1>5. b \in BOARDS
  BY <1>1, <1>3, EntryTyped
<1> QED
  BY <1>3, <1>4, <1>5, EnrolAssumption DEF IdOf, Ids, UsedIds

LEMMA IdFound ==
  ASSUME NEW t \in Tables, Sound(t), NEW z \in UsedIds(t)
  PROVE  /\ SlotOfId(t, z) \in Slots /\ t[SlotOfId(t, z)].id = z
         /\ t[SlotOfId(t, z)].mac \in BOARDS /\ t[SlotOfId(t, z)].mac \in Macs(t)
         /\ z \in Ids
<1> DEFINE T == {s \in Slots : t[s].id = z}
<1>1. T \in SUBSET Nat /\ T # {} /\ z # 0
  BY EnrolAssumption DEF UsedIds, Slots
<1> HIDE DEF T
<1>2. Min(T) \in T
  BY <1>1, MinFound
<1>3. SlotOfId(t, z) \in Slots /\ t[SlotOfId(t, z)].id = z
  BY <1>2 DEF T, SlotOfId
<1>4. t[SlotOfId(t, z)].mac # NONE /\ t[SlotOfId(t, z)].mac \in BOARDS
  BY <1>1, <1>3, EntryTyped DEF Sound
<1>6. t[SlotOfId(t, z)].mac \in Macs(t)
  BY <1>3, <1>4 DEF Macs
<1>7. z \in Ids
  BY <1>1, <1>3, EntryTyped, SomeId
<1> QED
  BY <1>3, <1>4, <1>6, <1>7

(* An id the table does not hold leaves a slot for it: the ids of a table   *)
(* without a free slot are as many as there are ids.                        *)
LEMMA RoomFound ==
  ASSUME NEW t \in Tables, Sound(t), UsedIds(t) # Ids
  PROVE  LET n == Min({s \in Slots : t[s].id = 0}) IN n \in Slots /\ t[n].id = 0
<1> DEFINE T == {s \in Slots : t[s].id = 0}
<1>1. T # {}
  <2> SUFFICES ASSUME \A s \in Slots : t[s].id # 0 PROVE FALSE
    OBVIOUS
  <2> DEFINE f == [s \in Slots |-> t[s].id]
  <2>1. \A s \in Slots : t[s].id \in Ids
    BY EntryTyped, SomeId
  <2>2. f \in Injection(Slots, Ids)
    BY <2>1 DEF Injection, IsInjective, Sound
  <2>3. IsFiniteSet(Ids) /\ Slots = Ids
    BY EnrolAssumption, FS_Interval DEF Ids, Slots
  <2> HIDE DEF f
  <2>4. f \in Surjection(Slots, Ids)
    BY <2>2, <2>3, FS_Injection
  <2>5. \A z \in Ids : \E s \in Slots : f[s] = z
    BY <2>4 DEF Surjection
  <2>6. Ids \subseteq UsedIds(t)
    BY <2>5, EnrolAssumption DEF f, UsedIds, Ids
  <2>7. UsedIds(t) \subseteq Ids
    BY <2>1 DEF UsedIds
  <2> QED
    BY <2>6, <2>7
<1>2. T \in SUBSET Nat
  BY EnrolAssumption DEF Slots
<1> HIDE DEF T
<1>3. Min(T) \in T
  BY <1>1, <1>2, MinFound
<1> QED
  BY <1>3 DEF T

LEMMA UsedAreIds ==
  ASSUME NEW t \in Tables
  PROVE  UsedIds(t) \subseteq Ids /\ Macs(t) \subseteq BOARDS
<1>1. ASSUME NEW s \in Slots
      PROVE  /\ t[s].id # 0 => t[s].id \in Ids
             /\ t[s].mac # NONE => t[s].mac \in BOARDS
  BY EntryTyped, SomeId
<1> QED
  BY <1>1 DEF UsedIds, Macs

LEMMA LowestFreeFound ==
  ASSUME NEW t \in Tables, UsedIds(t) # Ids
  PROVE  LowestFree(t) \in Ids \ UsedIds(t)
<1> DEFINE T == Ids \ UsedIds(t)
<1>1. T \in SUBSET Nat
  BY EnrolAssumption DEF Ids
<1>2. T # {}
  BY UsedAreIds
<1> HIDE DEF T
<1>3. Min(T) \in T
  BY <1>1, <1>2, MinFound
<1> QED
  BY <1>3 DEF T, LowestFree

(* Putting a board and an id that no other slot has, or neither, into a     *)
(* slot keeps the table sound.                                              *)
LEMMA PutSound ==
  ASSUME NEW t \in Tables, Sound(t), NEW n \in Slots, NEW e \in Entries,
         e.id = 0 <=> e.mac = NONE,
         e.id # 0 => \A s \in Slots : s # n => t[s].id # e.id /\ t[s].mac # e.mac
  PROVE  LET u == [t EXCEPT ![n] = e] IN
         /\ u \in Tables /\ Sound(u)
         /\ u[n] = e /\ \A s \in Slots : s # n => u[s] = t[s]
<1> DEFINE u == [t EXCEPT ![n] = e]
<1>1. u \in Tables /\ u[n] = e /\ \A s \in Slots : s # n => u[s] = t[s]
  BY DEF Tables
<1> HIDE DEF u
<1>2. \A s \in Slots : u[s].id = 0 <=> u[s].mac = NONE
  BY <1>1 DEF Sound
<1>3. ASSUME NEW r \in Slots, NEW s \in Slots, r # s, u[r].id # 0
      PROVE  u[r].id # u[s].id /\ u[r].mac # u[s].mac
  <2>1. CASE r = n
    BY <1>1, <1>3, <2>1
  <2>2. CASE s = n
    <3>1. CASE e.id = 0
      <4>1. u[r] = t[r] /\ t[r].mac # NONE /\ e.mac = NONE
        BY <1>1, <1>3, <2>2, <3>1 DEF Sound
      <4> QED
        BY <1>1, <1>3, <2>2, <3>1, <4>1
    <3>2. CASE e.id # 0
      BY <1>1, <1>3, <2>2, <3>2
    <3> QED
      BY <3>1, <3>2
  <2>3. CASE r # n /\ s # n
    BY <1>1, <1>3, <2>3 DEF Sound
  <2> QED
    BY <2>1, <2>2, <2>3
<1> QED
  BY <1>1, <1>2, <1>3 DEF Sound, u

(* What an operation does to the table, entry by entry.                     *)
Rewrites(t, u, n, e) == n \in Slots /\ u[n] = e /\ \A s \in Slots : s # n => u[s] = t[s]

LEMMA PlacedSound ==
  ASSUME NEW t \in Tables, Sound(t), NEW b \in BOARDS \ Macs(t), NEW z \in Ids \ UsedIds(t)
  PROVE  /\ Placed(t, b, z) \in Tables /\ Sound(Placed(t, b, z))
         /\ \E n \in Slots : /\ t[n].id = 0
                             /\ Rewrites(t, Placed(t, b, z), n, [mac |-> b, id |-> z])
<1> DEFINE n == Min({s \in Slots : t[s].id = 0})
           e == [mac |-> b, id |-> z]
<1>1. n \in Slots /\ t[n].id = 0
  BY RoomFound
<1>2. e \in Entries /\ e.id # 0 /\ e.mac # NONE
  BY EnrolAssumption DEF Entries, Ids
<1>3. \A s \in Slots : t[s].id # e.id /\ t[s].mac # e.mac
  BY EnrolAssumption DEF UsedIds, Macs, Ids
<1>4. Placed(t, b, z) = [t EXCEPT ![n] = e]
  BY DEF Placed
<1> HIDE DEF n, e
<1>5. LET u == [t EXCEPT ![n] = e] IN
      u \in Tables /\ Sound(u) /\ u[n] = e /\ \A s \in Slots : s # n => u[s] = t[s]
  BY <1>1, <1>2, <1>3, PutSound
<1> QED
  BY <1>1, <1>4, <1>5 DEF Rewrites, e

LEMMA FreeEntry == FreeSlot \in Entries /\ FreeSlot.id = 0 /\ FreeSlot.mac = NONE
BY EnrolAssumption DEF FreeSlot, Entries

LEMMA FreedSound ==
  ASSUME NEW t \in Tables, Sound(t), NEW n \in Slots
  PROVE  LET u == [t EXCEPT ![n] = FreeSlot] IN
         u \in Tables /\ Sound(u) /\ Rewrites(t, u, n, FreeSlot)
BY FreeEntry, PutSound DEF Rewrites

(* Seeding: z goes to b, b's old entry is free, and nothing else changes.   *)
LEMMA SeededSound ==
  ASSUME NEW t \in Tables, Sound(t), NEW b \in BOARDS, NEW z \in Ids,
         ~(b \in Macs(t) /\ IdOf(t, b) = z)
  PROVE  /\ Seeded(t, b, z) \in Tables /\ Sound(Seeded(t, b, z))
         /\ \E n \in Slots : /\ Seeded(t, b, z)[n] = [mac |-> b, id |-> z]
                             /\ t[n].id \in {0, z} \cup (IF b \in Macs(t) THEN {IdOf(t, b)} ELSE {})
                             /\ \A s \in Slots : s # n => \/ Seeded(t, b, z)[s] = t[s] /\ t[s].mac # b
                                                          \/ Seeded(t, b, z)[s] = FreeSlot /\ t[s].mac = b
<1> DEFINE m == SlotOfMac(t, b)
           left == IF b \in Macs(t) THEN [t EXCEPT ![m] = FreeSlot] ELSE t
           slot == IF z \in UsedIds(left) THEN SlotOfId(left, z)
                   ELSE Min({s \in Slots : left[s].id = 0})
           e == [mac |-> b, id |-> z]
<1>1. Seeded(t, b, z) = [left EXCEPT ![slot] = e]
  BY DEF Seeded
<1>2. b \in Macs(t) => m \in Slots /\ t[m].mac = b /\ t[m].id = IdOf(t, b) /\ t[m].id # z /\ t[m].id # 0
  BY MacFound, EnrolAssumption DEF Ids
<1>3. b \notin Macs(t) => \A s \in Slots : t[s].mac # b
  BY EnrolAssumption DEF Macs
<1>4. left \in Tables /\ Sound(left)
  BY <1>2, FreedSound
<1>5. \A s \in Slots : \/ left[s] = t[s] /\ t[s].mac # b
                       \/ left[s] = FreeSlot /\ t[s].mac = b /\ t[s].id = IdOf(t, b) /\ b \in Macs(t)
  <2>1. CASE b \in Macs(t)
    <3>1. \A s \in Slots : s # m => t[s].mac # b
      BY <1>2, <2>1 DEF Sound
    <3>2. left[m] = FreeSlot /\ \A s \in Slots : s # m => left[s] = t[s]
      BY <1>2, <2>1 DEF Tables
    <3> QED
      BY <1>2, <2>1, <3>1, <3>2
  <2>2. CASE b \notin Macs(t)
    BY <1>3, <2>2
  <2> QED
    BY <2>1, <2>2
<1> HIDE DEF left, m
<1>6. \A s \in Slots : left[s].mac # b
  BY <1>5, FreeEntry, EnrolAssumption
<1>7. slot \in Slots /\ left[slot].id \in {0, z}
  <2>1. CASE z \in UsedIds(left)
    BY <1>4, <2>1, IdFound
  <2>2. CASE z \notin UsedIds(left)
    <3>1. UsedIds(left) # Ids
      BY <2>2
    <3> QED
      BY <1>4, <2>2, <3>1, RoomFound
  <2> QED
    BY <2>1, <2>2
<1>8. \A s \in Slots : s # slot => left[s].id # z
  <2>1. CASE z \in UsedIds(left)
    <3>1. left[slot].id = z /\ z # 0
      BY <1>4, <2>1, IdFound, EnrolAssumption DEF Ids
    <3> QED
      BY <1>4, <1>7, <3>1 DEF Sound
  <2>2. CASE z \notin UsedIds(left)
    BY <2>2, EnrolAssumption DEF UsedIds, Ids
  <2> QED
    BY <2>1, <2>2
<1>9. e \in Entries /\ e.id # 0 /\ e.mac # NONE
  BY EnrolAssumption DEF Entries, Ids
<1> HIDE DEF slot, e
<1>10. \A s \in Slots : s # slot => left[s].id # e.id /\ left[s].mac # e.mac
  BY <1>6, <1>8 DEF e
<1>11. LET u == [left EXCEPT ![slot] = e] IN
       u \in Tables /\ Sound(u) /\ u[slot] = e /\ \A s \in Slots : s # slot => u[s] = left[s]
  BY <1>4, <1>7, <1>9, <1>10, PutSound
<1>12. t[slot].id \in {0, z} \cup (IF b \in Macs(t) THEN {IdOf(t, b)} ELSE {})
  BY <1>5, <1>7
<1> QED
  BY <1>1, <1>5, <1>7, <1>11, <1>12 DEF e

-----------------------------------------------------------------------------
(* The state.                                                               *)

MasterTyped ==
  /\ ztab \in Tables /\ nvs \in Tables
  /\ rows \in [Ids -> BOARDS \cup {NONE}]
  /\ unassigned \subseteq BOARDS
  /\ cache \in [Ids -> BOARDS \cup {NONE}]
  /\ fresh \subseteq Ids /\ clearMask \subseteq Ids /\ refused \subseteq Ids
  /\ cx \in [kind : {"idle", "pull", "push"}, zone : 0 .. IDS]
  /\ cx.kind # "idle" => cx.zone \in Ids
  /\ op \in Seq(Ids)

BoardsTyped ==
  /\ present \subseteq BOARDS
  /\ zid \in [BOARDS -> 0 .. IDS]
  /\ hb \in [BOARDS -> 0 .. IDS + 1]
  /\ asg \in [BOARDS -> Seq(0 .. IDS)]

TypeInv == MasterTyped /\ BoardsTyped

Queued == {op[i] : i \in DOMAIN op}

(* What is cached for an id was read for the board of its row, unless the   *)
(* id was given away: then its clear is queued, or the command has yet to   *)
(* queue it, or the command was answered with an error.                     *)
CacheOwned ==
  \A z \in Ids : cache[z] \notin {NONE, rows[z]} => z \in refused \cup clearMask \cup Queued

EnrolInv == TypeInv /\ OneBoardPerId /\ GhostsExplained /\ CacheOwned

LEMMA EnrolInit == Init => EnrolInv
<1> SUFFICES ASSUME Init PROVE EnrolInv
  OBVIOUS
<1>1. EmptyTab \in Tables /\ \A s \in Slots : EmptyTab[s] = FreeSlot
  BY FreeEntry DEF EmptyTab, Tables
<1>2. TypeInv
  <2>1. 0 \in 0 .. IDS /\ NoFrame \in 0 .. IDS + 1
    BY EnrolAssumption DEF NoFrame
  <2>2. cx \in [kind : {"idle", "pull", "push"}, zone : 0 .. IDS] /\ cx.kind = "idle"
    BY <2>1 DEF Init, NoTransfer
  <2>3. op \in Seq(Ids) /\ \A b \in BOARDS : <<>> \in Seq(0 .. IDS)
    BY DEF Init
  <2> QED
    BY <1>1, <2>1, <2>2, <2>3 DEF Init, TypeInv, MasterTyped, BoardsTyped
<1>3. Sound(EmptyTab)
  BY <1>1, FreeEntry DEF Sound
<1>4. OneBoardPerId
  BY <1>1, <1>3, FreeEntry DEF Init, OneBoardPerId
<1> QED
  BY <1>2, <1>4 DEF Init, EnrolInv, GhostsExplained, CacheOwned

(* The verdicts of ztab_enrol.                                              *)
LEMMA EnrolVerdicts ==
  ASSUME NEW t \in Tables, Sound(t), NEW b \in BOARDS, NEW claim \in 0 .. IDS
  PROVE  LET e == Enrolled(t, b, claim) IN
         \/ e.verdict \in {"KNOWN", "STALE"} /\ b \in Macs(t) /\ e.id = IdOf(t, b)
         \/ e.verdict \in {"CONFLICT", "FULL"} /\ b \notin Macs(t)
         \/ /\ e.verdict = "ASSIGNED" /\ b \notin Macs(t)
            /\ e.id \in Ids \ UsedIds(t) /\ e.tab = Placed(t, b, e.id)
<1>1. CASE b \in Macs(t)
  BY <1>1 DEF Enrolled
<1>2. CASE b \notin Macs(t) /\ (claim \in UsedIds(t) \/ UsedIds(t) = Ids)
  BY <1>2 DEF Enrolled
<1>3. CASE b \notin Macs(t) /\ claim \notin UsedIds(t) /\ UsedIds(t) # Ids
  <2> DEFINE z == IF claim \in Ids THEN claim ELSE LowestFree(t)
  <2>1. z \in Ids \ UsedIds(t)
    BY <1>3, LowestFreeFound
  <2>2. Enrolled(t, b, claim) = [verdict |-> "ASSIGNED", id |-> z, tab |-> Placed(t, b, z)]
    BY <1>3 DEF Enrolled
  <2> HIDE DEF z
  <2> QED
    BY <1>3, <2>1, <2>2
<1> QED
  BY <1>1, <1>2, <1>3

(* What a placement and a removal do to the ids and boards in use.          *)
LEMMA UsedAfter ==
  ASSUME NEW t \in Tables, NEW u \in Tables, NEW n \in Slots, NEW e \in Entries,
         Rewrites(t, u, n, e)
  PROVE  /\ UsedIds(u) \subseteq UsedIds(t) \cup {e.id}
         /\ \A z \in UsedIds(t) : z = t[n].id \/ z \in UsedIds(u)
         /\ Macs(u) \subseteq Macs(t) \cup {e.mac}
         /\ e.id # 0 => e.id \in UsedIds(u)
<1>1. \A s \in Slots : u[s] = t[s] \/ u[s] = e
  BY DEF Rewrites
<1>2. UsedIds(u) \subseteq UsedIds(t) \cup {e.id}
  BY <1>1 DEF UsedIds
<1>3. Macs(u) \subseteq Macs(t) \cup {e.mac}
  BY <1>1 DEF Macs
<1>4. ASSUME NEW z \in UsedIds(t), z # t[n].id
      PROVE  z \in UsedIds(u)
  <2>1. PICK s \in Slots : t[s].id = z /\ z # 0
    BY DEF UsedIds
  <2>2. u[s] = t[s]
    BY <1>4, <2>1 DEF Rewrites
  <2> QED
    BY <2>1, <2>2 DEF UsedIds
<1>5. e.id # 0 => e.id \in UsedIds(u)
  BY DEF Rewrites, UsedIds
<1> QED
  BY <1>2, <1>3, <1>4, <1>5

(* A step that leaves the master's tables, caches and queues alone.         *)
LEMMA Untouched ==
  EnrolInv /\ UNCHANGED <<table, rows, unassigned, cache, fresh, clearMask, op, refused>>
           /\ (cx' = cx \/ cx' = NoTransfer) /\ BoardsTyped'
  => EnrolInv'
<1> SUFFICES ASSUME EnrolInv, UNCHANGED <<table, rows, unassigned, cache, fresh, clearMask, op, refused>>,
                    cx' = cx \/ cx' = NoTransfer, BoardsTyped'
             PROVE  EnrolInv'
  OBVIOUS
<1>1. Tables' = Tables
  BY DEF Tables, Entries, Slots
<1>2. NoTransfer \in [kind : {"idle", "pull", "push"}, zone : 0 .. IDS] /\ NoTransfer.kind = "idle"
  BY EnrolAssumption DEF NoTransfer
<1>3. MasterTyped'
  BY <1>1, <1>2 DEF EnrolInv, TypeInv, MasterTyped, table, Ids
<1>4. OneBoardPerId' /\ GhostsExplained' /\ CacheOwned'
  BY DEF EnrolInv, OneBoardPerId, GhostsExplained, CacheOwned, Queued, table, Sound, Macs, UsedIds, Ids, Slots
<1> QED
  BY <1>3, <1>4 DEF EnrolInv, TypeInv

LEMMA IdTyped == Ids \subseteq 0 .. IDS
BY EnrolAssumption DEF Ids

LEMMA HeadAndTail ==
  ASSUME NEW S, NEW q \in Seq(S), q # <<>>
  PROVE  Head(q) \in S /\ Tail(q) \in Seq(S)
OBVIOUS

(* The boards' own steps, and frames lost, touch the wires only.            *)
LEMMA BoardsKeep ==
  ASSUME NEW b \in BOARDS
  PROVE  EnrolInv /\ (Heartbeat(b) \/ OnAssign(b) \/ Plug(b) \/ Erase(b) \/ Lose(b)) => EnrolInv'
<1> SUFFICES ASSUME EnrolInv, Heartbeat(b) \/ OnAssign(b) \/ Plug(b) \/ Erase(b) \/ Lose(b)
             PROVE  EnrolInv'
  OBVIOUS
<1>1. BoardsTyped
  BY DEF EnrolInv, TypeInv
<1>2. zid[b] \in 0 .. IDS + 1 /\ 0 \in 0 .. IDS /\ NoFrame \in 0 .. IDS + 1 /\ <<>> \in Seq(0 .. IDS)
  BY <1>1, EnrolAssumption DEF BoardsTyped, NoFrame
<1>3. asg[b] # <<>> => Tail(asg[b]) \in Seq(0 .. IDS) /\ Head(asg[b]) \in 0 .. IDS
  <2>1. asg[b] \in Seq(0 .. IDS)
    BY <1>1 DEF BoardsTyped
  <2> QED
    BY <2>1, HeadAndTail
<1>4. UNCHANGED <<table, rows, unassigned, cache, fresh, clearMask, op, refused>> /\ cx' = cx
  BY DEF Heartbeat, OnAssign, Plug, Erase, Lose, config
<1>5. BoardsTyped'
  <2>1. CASE Heartbeat(b)
    BY <1>1, <1>2, <2>1 DEF Heartbeat, BoardsTyped, boards
  <2>2. CASE OnAssign(b)
    BY <1>1, <1>3, <2>2 DEF OnAssign, BoardsTyped
  <2>3. CASE Plug(b)
    BY <1>1, <1>2, <2>3 DEF Plug, BoardsTyped
  <2>4. CASE Erase(b)
    BY <1>1, <1>2, <2>4 DEF Erase, BoardsTyped
  <2>5. CASE Lose(b)
    BY <1>1, <1>3, <2>5 DEF Lose, BoardsTyped, boards
  <2> QED
    BY <2>1, <2>2, <2>3, <2>4, <2>5
<1> QED
  BY <1>4, <1>5, Untouched

(* A transfer caches what belongs to the row, or nothing.                   *)
LEMMA TransferKeeps ==
  ASSUME NEW b \in BOARDS
  PROVE  EnrolInv /\ Transferred(b) => EnrolInv'
<1> SUFFICES ASSUME EnrolInv, Transferred(b) PROVE EnrolInv'
  OBVIOUS
<1>1. MasterTyped /\ BoardsTyped /\ cx.zone \in Ids
  BY DEF EnrolInv, TypeInv, MasterTyped, Transferred
<1>2. Tables' = Tables
  BY DEF Tables, Entries, Slots
<1>3. NoTransfer \in [kind : {"idle", "pull", "push"}, zone : 0 .. IDS] /\ NoTransfer.kind = "idle"
  BY EnrolAssumption DEF NoTransfer
<1>4. /\ cache' \in [Ids -> BOARDS \cup {NONE}]
      /\ \A z \in Ids : cache'[z] \in {cache[z], rows[z]}
  BY <1>1 DEF Transferred, MasterTyped
<1>5. UNCHANGED <<ztab, nvs, rows, unassigned, fresh, clearMask, op, present, zid, hb, asg, refused>>
  BY DEF Transferred, table, boards
<1>6. MasterTyped'
  BY <1>1, <1>2, <1>3, <1>4, <1>5 DEF Transferred, MasterTyped, Ids
<1>7. BoardsTyped'
  BY <1>1, <1>5 DEF BoardsTyped
<1>8. OneBoardPerId' /\ GhostsExplained'
  BY <1>5 DEF EnrolInv, OneBoardPerId, GhostsExplained, Sound, Macs, UsedIds, Ids, Slots
<1>9. CacheOwned'
  BY <1>4, <1>5 DEF EnrolInv, CacheOwned, Queued, Ids
<1> QED
  BY <1>6, <1>7, <1>8, <1>9 DEF EnrolInv, TypeInv

(* A tick clears what is queued before it decides anything.                 *)
LEMMA TickKeeps == EnrolInv /\ Tick => EnrolInv'
<1> SUFFICES ASSUME EnrolInv, Tick PROVE EnrolInv'
  OBVIOUS
<1>1. MasterTyped /\ BoardsTyped
  BY DEF EnrolInv, TypeInv
<1>2. Tables' = Tables
  BY DEF Tables, Entries, Slots
<1>3. NoTransfer \in [kind : {"idle", "pull", "push"}, zone : 0 .. IDS] /\ NoTransfer.kind = "idle"
  BY EnrolAssumption DEF NoTransfer
<1>4. cache' = Cleared(clearMask) /\ clearMask' = {}
  BY DEF Tick
<1>5. /\ cache' \in [Ids -> BOARDS \cup {NONE}]
      /\ \A z \in Ids : cache'[z] = IF z \in clearMask THEN NONE ELSE cache[z]
  BY <1>1, <1>4 DEF Cleared, MasterTyped
<1>6. UNCHANGED <<ztab, nvs, rows, unassigned, op, present, zid, hb, asg, refused>>
  BY DEF Tick, table, boards
<1>7. fresh' \subseteq Ids
  BY <1>1 DEF Tick, MasterTyped
<1>8. \/ cx' = cx \/ cx' = NoTransfer
      \/ \E z \in Ids : cx' \in {[kind |-> "pull", zone |-> z], [kind |-> "push", zone |-> z]}
  <2> DEFINE slot == IF cx.zone \in clearMask THEN NoTransfer ELSE cx
             heard == {z \in fresh \ clearMask : rows[z] # NONE}
  <2>1. heard \subseteq Ids
    BY <1>1 DEF MasterTyped
  <2>2. slot = cx \/ slot = NoTransfer
    OBVIOUS
  <2>3. \/ cx' = slot
        \/ \E z \in heard : cx' = IF cache'[z] = NONE THEN [kind |-> "pull", zone |-> z]
                         ELSE IF cache'[z] # rows[z] THEN [kind |-> "push", zone |-> z]
                         ELSE NoTransfer
    BY DEF Tick
  <2> HIDE DEF slot, heard
  <2> QED
    BY <2>1, <2>2, <2>3
<1>9. cx' \in [kind : {"idle", "pull", "push"}, zone : 0 .. IDS] /\ (cx'.kind # "idle" => cx'.zone \in Ids)
  BY <1>1, <1>3, <1>8, IdTyped DEF MasterTyped
<1>10. MasterTyped'
  BY <1>1, <1>2, <1>4, <1>5, <1>6, <1>7, <1>9 DEF MasterTyped, Ids
<1>11. BoardsTyped'
  BY <1>1, <1>6 DEF BoardsTyped
<1>12. OneBoardPerId' /\ GhostsExplained'
  BY <1>6 DEF EnrolInv, OneBoardPerId, GhostsExplained, Sound, Macs, UsedIds, Ids, Slots
<1>13. CacheOwned'
  BY <1>5, <1>6 DEF EnrolInv, CacheOwned, Queued, Ids
<1> QED
  BY <1>10, <1>11, <1>12, <1>13 DEF EnrolInv, TypeInv

(* The command queues a clear: the id leaves the queue for the mask.        *)
LEMMA RequestClearKeeps == EnrolInv /\ RequestClear => EnrolInv'
<1> SUFFICES ASSUME EnrolInv, RequestClear PROVE EnrolInv'
  OBVIOUS
<1>1. MasterTyped /\ BoardsTyped
  BY DEF EnrolInv, TypeInv
<1>2. Tables' = Tables
  BY DEF Tables, Entries, Slots
<1>3. op \in Seq(Ids) /\ op # <<>> /\ op' = Tail(op) /\ clearMask' = clearMask \cup {Head(op)}
  BY <1>1 DEF RequestClear, MasterTyped
<1>4. /\ Head(op) \in Ids /\ Tail(op) \in Seq(Ids)
      /\ Queued \subseteq {Head(op)} \cup Queued'
  <2>1. Head(op) \in Ids /\ Tail(op) \in Seq(Ids)
    BY <1>3
  <2>2. ASSUME NEW i \in DOMAIN op PROVE op[i] = Head(op) \/ op[i] \in Queued'
    <3>1. CASE i = 1
      BY <1>3, <3>1
    <3>2. CASE i # 1
      <4>1. i - 1 \in DOMAIN op' /\ op'[i - 1] = op[i]
        BY <1>3, <2>2, <3>2
      <4> QED
        BY <4>1 DEF Queued
    <3> QED
      BY <3>1, <3>2
  <2> QED
    BY <2>1, <2>2 DEF Queued
<1>5. UNCHANGED <<ztab, nvs, rows, unassigned, cache, fresh, cx, present, zid, hb, asg, refused>>
  BY DEF RequestClear, table, boards
<1>6. MasterTyped'
  BY <1>1, <1>2, <1>3, <1>4, <1>5 DEF MasterTyped, Ids
<1>7. BoardsTyped'
  BY <1>1, <1>5 DEF BoardsTyped
<1>8. OneBoardPerId' /\ GhostsExplained'
  BY <1>5 DEF EnrolInv, OneBoardPerId, GhostsExplained, Sound, Macs, UsedIds, Ids, Slots
<1>9. CacheOwned'
  BY <1>3, <1>4, <1>5 DEF EnrolInv, CacheOwned, Ids
<1> QED
  BY <1>6, <1>7, <1>8, <1>9 DEF EnrolInv, TypeInv

(* A restart reads the table from flash and makes the rows agree with it.   *)
LEMMA RebootKeeps == EnrolInv /\ Reboot => EnrolInv'
<1> SUFFICES ASSUME EnrolInv, Reboot PROVE EnrolInv'
  OBVIOUS
<1>1. MasterTyped /\ BoardsTyped /\ Sound(nvs)
  BY DEF EnrolInv, TypeInv, OneBoardPerId
<1>2. Tables' = Tables
  BY DEF Tables, Entries, Slots
<1>3. NoTransfer \in [kind : {"idle", "pull", "push"}, zone : 0 .. IDS] /\ NoTransfer.kind = "idle"
  BY EnrolAssumption DEF NoTransfer
<1>4. EmptyTab \in Tables /\ Sound(EmptyTab)
  BY FreeEntry DEF EmptyTab, Tables, Sound
<1>5. PICK t \in {nvs, EmptyTab} :
        /\ ztab' = t
        /\ rows' = [z \in Ids |-> IF z \in UsedIds(t) THEN t[SlotOfId(t, z)].mac ELSE NONE]
  BY DEF Reboot
<1>6. t \in Tables /\ Sound(t)
  BY <1>1, <1>4 DEF MasterTyped
<1>7. \A z \in UsedIds(t) : t[SlotOfId(t, z)].mac \in BOARDS
  BY <1>6, IdFound
<1>8. /\ rows' \in [Ids -> BOARDS \cup {NONE}]
      /\ \A z \in Ids : rows'[z] # NONE => z \in UsedIds(t)
  BY <1>5, <1>7
<1>9. ASSUME NEW s \in Slots, t[s].id # 0 PROVE rows'[t[s].id] = t[s].mac
  <2>1. t[s].id \in UsedIds(t) /\ t[s].id \in Ids
    BY <1>6, <1>9, UsedAreIds DEF UsedIds
  <2>2. SlotOfId(t, t[s].id) \in Slots /\ t[SlotOfId(t, t[s].id)].id = t[s].id
    BY <1>6, <2>1, IdFound
  <2>3. SlotOfId(t, t[s].id) = s
    BY <1>6, <1>9, <2>2 DEF Sound
  <2> QED
    BY <1>5, <2>1, <2>3
<1>10. UNCHANGED <<nvs, present, zid, hb, asg, refused>> /\ op' = <<>>
  BY DEF Reboot, boards
<1>11. unassigned' = {} /\ fresh' = {} /\ clearMask' = {} /\ cx' = NoTransfer
       /\ cache' = [z \in Ids |-> NONE]
  BY DEF Reboot
<1>12. MasterTyped'
  <2>1. op' \in Seq(Ids)
    BY <1>10
  <2> QED
    BY <1>1, <1>2, <1>3, <1>5, <1>6, <1>8, <1>10, <1>11, <2>1 DEF MasterTyped, Ids
<1>13. BoardsTyped'
  BY <1>1, <1>10 DEF BoardsTyped
<1>14. OneBoardPerId'
  BY <1>1, <1>5, <1>6, <1>9, <1>10, <1>11 DEF OneBoardPerId, Sound, Slots
<1>15. GhostsExplained'
  BY <1>5, <1>8 DEF GhostsExplained, UsedIds, Ids, Slots
<1>16. CacheOwned'
  BY <1>11 DEF CacheOwned, Ids
<1> QED
  BY <1>12, <1>13, <1>14, <1>15, <1>16 DEF EnrolInv, TypeInv

(* CLEAR NODE: the id leaves the table, and the command owes its clear, or  *)
(* it is answered with an error and the row stays as it is.                 *)
LEMMA ClearKeeps ==
  ASSUME NEW z \in Ids
  PROVE  EnrolInv /\ Clear(z) => EnrolInv'
<1> SUFFICES ASSUME EnrolInv, Clear(z) PROVE EnrolInv'
  OBVIOUS
<1> DEFINE n == SlotOfId(ztab, z)
           u == Without(ztab, z)
<1>1. MasterTyped /\ BoardsTyped /\ Sound(ztab) /\ Sound(nvs)
  BY DEF EnrolInv, TypeInv, OneBoardPerId
<1>2. Tables' = Tables
  BY DEF Tables, Entries, Slots
<1>3. z \in UsedIds(ztab) /\ ztab \in Tables
  BY <1>1 DEF Clear, MasterTyped
<1>4. n \in Slots /\ ztab[n].id = z
  BY <1>1, <1>3, IdFound
<1>5. u \in Tables /\ Sound(u) /\ Rewrites(ztab, u, n, FreeSlot)
  BY <1>1, <1>3, <1>4, FreedSound DEF Without
<1> HIDE DEF n, u
<1>6. ztab' = u /\ nvs' \in {u, nvs} /\ op = <<>>
  BY DEF Clear, u
<1>7. /\ Macs(u) \subseteq Macs(ztab) \cup {NONE}
      /\ \A y \in UsedIds(ztab) : y = z \/ y \in UsedIds(u)
  BY <1>3, <1>4, <1>5, FreeEntry, UsedAfter
<1>8. \A s \in Slots : u[s].id # 0 => u[s] = ztab[s] /\ ztab[s].id # z
  <2> SUFFICES ASSUME NEW s \in Slots, u[s].id # 0 PROVE u[s] = ztab[s] /\ ztab[s].id # z
    OBVIOUS
  <2>1. s # n
    BY <1>5, FreeEntry DEF Rewrites
  <2>2. u[s] = ztab[s]
    BY <1>5, <2>1 DEF Rewrites
  <2> QED
    BY <1>1, <1>4, <2>1, <2>2 DEF Sound
<1>9. UNCHANGED <<unassigned, cache, fresh, clearMask, cx, present, zid, hb, asg>>
  BY DEF Clear, config, boards
<1>10. \/ rows' = [rows EXCEPT ![z] = NONE] /\ op' = <<z>> /\ refused' = refused
       \/ rows' = rows /\ op' = op /\ refused' = refused \cup {z}
  BY DEF Clear
<1>11. /\ rows' \in [Ids -> BOARDS \cup {NONE}] /\ refused' \subseteq Ids /\ op' \in Seq(Ids)
       /\ \A y \in Ids : y # z => rows'[y] = rows[y]
       /\ rows'[z] = NONE \/ z \in refused'
       /\ refused \subseteq refused'
  <2>1. rows \in [Ids -> BOARDS \cup {NONE}] /\ refused \subseteq Ids /\ op \in Seq(Ids)
    BY <1>1 DEF MasterTyped
  <2>2. <<z>> \in Seq(Ids)
    OBVIOUS
  <2>3. CASE rows' = [rows EXCEPT ![z] = NONE] /\ op' = <<z>> /\ refused' = refused
    BY <2>1, <2>2, <2>3
  <2>4. CASE rows' = rows /\ op' = op /\ refused' = refused \cup {z}
    BY <2>1, <2>4
  <2> QED
    BY <1>10, <2>3, <2>4
<1>12. MasterTyped'
  BY <1>1, <1>2, <1>5, <1>6, <1>9, <1>11 DEF MasterTyped, Ids
<1>13. BoardsTyped'
  BY <1>1, <1>9 DEF BoardsTyped
<1>15. OneBoardPerId'
  <2>1. \A s \in Slots : u[s].id # 0 => rows'[u[s].id] = u[s].mac
    <3> SUFFICES ASSUME NEW s \in Slots, u[s].id # 0 PROVE rows'[u[s].id] = u[s].mac
      OBVIOUS
    <3>1. u[s] = ztab[s] /\ ztab[s].id # z
      BY <1>8
    <3>2. rows[ztab[s].id] = ztab[s].mac
      BY <3>1 DEF EnrolInv, OneBoardPerId
    <3>3. ztab[s].id \in Ids
      BY <1>3, <3>1, EntryTyped, SomeId
    <3> QED
      BY <1>11, <3>1, <3>2, <3>3
  <2>2. unassigned \cap Macs(u) = {}
    BY <1>1, <1>7, EnrolAssumption DEF EnrolInv, OneBoardPerId, MasterTyped
  <2>3. Sound(ztab') /\ Sound(nvs')
    BY <1>1, <1>5, <1>6
  <2> QED
    BY <1>6, <1>9, <2>1, <2>2, <2>3 DEF OneBoardPerId, Sound, Macs, Slots
<1>16. GhostsExplained'
  <2> SUFFICES ASSUME NEW y \in Ids, rows'[y] # NONE PROVE y \in UsedIds(u) \cup refused'
    BY <1>6 DEF GhostsExplained, UsedIds, Ids, Slots
  <2>1. CASE y = z
    BY <1>11, <2>1
  <2>2. CASE y # z
    BY <1>7, <1>11, <2>2 DEF EnrolInv, GhostsExplained
  <2> QED
    BY <2>1, <2>2
<1>17. CacheOwned'
  <2> SUFFICES ASSUME NEW y \in Ids, cache[y] \notin {NONE, rows'[y]}
               PROVE  y \in refused' \cup clearMask \cup Queued'
    BY <1>9 DEF CacheOwned, Ids
  <2>1. Queued = {}
    BY <1>6 DEF Queued
  <2>2. z \in refused' \cup Queued'
    <3>1. op' = <<z>> => z \in Queued'
      BY DEF Queued
    <3> QED
      BY <1>10, <3>1
  <2>3. CASE y = z
    BY <2>2, <2>3
  <2>4. CASE y # z
    BY <1>11, <2>1, <2>4 DEF EnrolInv, CacheOwned
  <2> QED
    BY <2>3, <2>4
<1> QED
  BY <1>12, <1>13, <1>15, <1>16, <1>17 DEF EnrolInv, TypeInv

(* A heartbeat places a board only where nobody is, on an id whose row is   *)
(* free or the ghost of a refused command.                                  *)
LEMMA HandleHbKeeps ==
  ASSUME NEW b \in BOARDS
  PROVE  EnrolInv /\ HandleHb(b) => EnrolInv'
<1> SUFFICES ASSUME EnrolInv, HandleHb(b) PROVE EnrolInv'
  OBVIOUS
<1> DEFINE claim == hb[b]
           e     == Enrolled(ztab, b, claim)
<1>1. MasterTyped /\ BoardsTyped /\ Sound(ztab) /\ Sound(nvs) /\ OneBoardPerId
  BY DEF EnrolInv, TypeInv, OneBoardPerId
<1>2. Tables' = Tables
  BY DEF Tables, Entries, Slots
<1>3. claim \in 0 .. IDS /\ ztab \in Tables
  BY <1>1, EnrolAssumption DEF HandleHb, BoardsTyped, MasterTyped, NoFrame
<1>4. \/ e.verdict \in {"KNOWN", "STALE"} /\ b \in Macs(ztab) /\ e.id = IdOf(ztab, b)
      \/ e.verdict \in {"CONFLICT", "FULL"} /\ b \notin Macs(ztab)
      \/ /\ e.verdict = "ASSIGNED" /\ b \notin Macs(ztab)
         /\ e.id \in Ids \ UsedIds(ztab) /\ e.tab = Placed(ztab, b, e.id)
  BY <1>1, <1>3, EnrolVerdicts
<1>5. /\ UNCHANGED <<cache, clearMask, cx, op, present, zid, refused>>
      /\ hb' = [hb EXCEPT ![b] = NoFrame]
  BY DEF HandleHb, boards
<1>6. \/ /\ e.verdict = "FULL"
         /\ unassigned' \in {unassigned, unassigned \cup {b}}
         /\ UNCHANGED <<ztab, nvs, rows, fresh, asg>>
      \/ /\ e.verdict = "CONFLICT"
         /\ asg' = [asg EXCEPT ![b] = Append(@, 0)]
         /\ UNCHANGED <<ztab, nvs, rows, unassigned, fresh>>
      \/ /\ e.verdict \in {"ASSIGNED", "KNOWN", "STALE"}
         /\ IF e.verdict = "ASSIGNED"
            THEN ztab' = e.tab /\ nvs' \in {e.tab, nvs} /\ unassigned' = unassigned \ {b}
            ELSE UNCHANGED <<ztab, nvs, unassigned>>
         /\ rows' = [rows EXCEPT ![e.id] = b]
         /\ fresh' = fresh \cup {e.id}
         /\ asg' \in {asg, [asg EXCEPT ![b] = Append(@, e.id)]}
  BY DEF HandleHb, Assign, Save, table
<1> HIDE DEF e
<1>7. BoardsTyped' <=> hb' \in [BOARDS -> 0 .. IDS + 1] /\ asg' \in [BOARDS -> Seq(0 .. IDS)]
  BY <1>1, <1>5 DEF BoardsTyped
<1>8. hb' \in [BOARDS -> 0 .. IDS + 1]
  <2>1. NoFrame \in 0 .. IDS + 1
    BY EnrolAssumption DEF NoFrame
  <2> QED
    BY <1>1, <1>5, <2>1 DEF BoardsTyped
<1>9. \A i \in 0 .. IDS : [asg EXCEPT ![b] = Append(@, i)] \in [BOARDS -> Seq(0 .. IDS)]
  <2> SUFFICES ASSUME NEW i \in 0 .. IDS PROVE [asg EXCEPT ![b] = Append(@, i)] \in [BOARDS -> Seq(0 .. IDS)]
    OBVIOUS
  <2>1. asg \in [BOARDS -> Seq(0 .. IDS)]
    BY <1>1 DEF BoardsTyped
  <2>2. Append(asg[b], i) \in Seq(0 .. IDS)
    BY <2>1
  <2> QED
    BY <2>1, <2>2
<1>10. CASE e.verdict \in {"FULL", "CONFLICT"}
  <2>1. UNCHANGED <<ztab, nvs, rows, fresh>> /\ b \notin Macs(ztab)
    BY <1>4, <1>6, <1>10
  <2>2. unassigned' \in {unassigned, unassigned \cup {b}}
    BY <1>6, <1>10
  <2>3. asg' \in [BOARDS -> Seq(0 .. IDS)]
    <3>1. 0 \in 0 .. IDS
      BY EnrolAssumption
    <3> QED
      BY <1>1, <1>6, <1>9, <1>10, <3>1 DEF BoardsTyped
  <2>4. MasterTyped'
    BY <1>1, <1>2, <1>5, <2>1, <2>2 DEF MasterTyped, Ids
  <2>5. OneBoardPerId'
    BY <1>1, <2>1, <2>2 DEF OneBoardPerId, Sound, Macs, Slots
  <2>6. GhostsExplained' /\ CacheOwned'
    BY <1>5, <2>1 DEF EnrolInv, GhostsExplained, CacheOwned, Queued, UsedIds, Ids, Slots
  <2> QED
    BY <1>7, <1>8, <2>3, <2>4, <2>5, <2>6 DEF EnrolInv, TypeInv
<1>11. CASE e.verdict \in {"KNOWN", "STALE"}
  <2> DEFINE m == SlotOfMac(ztab, b)
  <2>1. /\ e.id = IdOf(ztab, b) /\ e.id \in Ids
        /\ m \in Slots /\ ztab[m].mac = b /\ ztab[m].id = e.id
    BY <1>1, <1>3, <1>4, <1>11, MacFound
  <2> HIDE DEF m
  <2>2. rows[e.id] = b
    BY <1>1, <2>1, EnrolAssumption DEF OneBoardPerId, Ids
  <2>3. UNCHANGED <<ztab, nvs, unassigned>> /\ rows' = rows /\ fresh' = fresh \cup {e.id}
    <3>1. rows' = [rows EXCEPT ![e.id] = b]
      BY <1>6, <1>11
    <3>2. rows' = rows
      BY <1>1, <2>1, <2>2, <3>1 DEF MasterTyped
    <3> QED
      BY <1>6, <1>11, <3>2
  <2>4. asg' \in [BOARDS -> Seq(0 .. IDS)]
    <3>1. e.id \in 0 .. IDS
      BY <2>1, IdTyped
    <3>2. asg' \in {asg, [asg EXCEPT ![b] = Append(@, e.id)]}
      BY <1>6, <1>11
    <3>3. [asg EXCEPT ![b] = Append(@, e.id)] \in [BOARDS -> Seq(0 .. IDS)]
      BY <1>9, <3>1
    <3>4. asg \in [BOARDS -> Seq(0 .. IDS)]
      BY <1>1 DEF BoardsTyped
    <3> QED
      BY <3>2, <3>3, <3>4
  <2>5. MasterTyped'
    BY <1>1, <1>2, <1>5, <2>1, <2>3 DEF MasterTyped, Ids
  <2>6. OneBoardPerId'
    BY <1>1, <2>3 DEF OneBoardPerId, Sound, Macs, Slots
  <2>7. GhostsExplained' /\ CacheOwned'
    BY <1>5, <2>3 DEF EnrolInv, GhostsExplained, CacheOwned, Queued, UsedIds, Ids, Slots
  <2> QED
    BY <1>7, <1>8, <2>4, <2>5, <2>6, <2>7 DEF EnrolInv, TypeInv
<1>12. CASE e.verdict = "ASSIGNED"
  <2> DEFINE z == e.id
             u == Placed(ztab, b, z)
  <2>1. b \notin Macs(ztab) /\ z \in Ids \ UsedIds(ztab) /\ e.tab = u
    BY <1>4, <1>12
  <2>2. u \in Tables /\ Sound(u)
    BY <1>1, <1>3, <2>1, PlacedSound
  <2>3. PICK n \in Slots : ztab[n].id = 0 /\ Rewrites(ztab, u, n, [mac |-> b, id |-> z])
    BY <1>1, <1>3, <2>1, PlacedSound
  <2>4. ztab' = u /\ nvs' \in {u, nvs} /\ unassigned' = unassigned \ {b}
    BY <1>6, <1>12, <2>1
  <2>5. rows' = [rows EXCEPT ![z] = b] /\ fresh' = fresh \cup {z}
    BY <1>6, <1>12
  <2>6. asg' \in [BOARDS -> Seq(0 .. IDS)]
    <3>1. e.id \in 0 .. IDS
      BY <2>1, IdTyped
    <3>2. asg' \in {asg, [asg EXCEPT ![b] = Append(@, e.id)]}
      BY <1>6, <1>12
    <3>3. [asg EXCEPT ![b] = Append(@, e.id)] \in [BOARDS -> Seq(0 .. IDS)]
      BY <1>9, <3>1
    <3>4. asg \in [BOARDS -> Seq(0 .. IDS)]
      BY <1>1 DEF BoardsTyped
    <3> QED
      BY <3>2, <3>3, <3>4
  <2>7. z # 0 /\ [mac |-> b, id |-> z] \in Entries
    BY <2>1, IdTyped, EnrolAssumption DEF Ids, Entries
  <2> HIDE DEF z, u
  <2>8. /\ rows' \in [Ids -> BOARDS \cup {NONE}] /\ rows'[z] = b
        /\ \A y \in Ids : y # z => rows'[y] = rows[y]
    BY <1>1, <2>1, <2>5 DEF MasterTyped
  <2>9. /\ Macs(u) \subseteq Macs(ztab) \cup {b}
        /\ UsedIds(ztab) \subseteq UsedIds(u) /\ z \in UsedIds(u)
    <3>1. /\ \A y \in UsedIds(ztab) : y = ztab[n].id \/ y \in UsedIds(u)
          /\ Macs(u) \subseteq Macs(ztab) \cup {b} /\ z \in UsedIds(u)
      <4> DEFINE d == [mac |-> b, id |-> z]
      <4>1. d \in Entries /\ d.mac = b /\ d.id = z /\ Rewrites(ztab, u, n, d)
        BY <2>3, <2>7
      <4> HIDE DEF d
      <4> QED
        BY <1>3, <2>2, <2>7, <4>1, UsedAfter
    <3>2. 0 \notin UsedIds(ztab)
      BY DEF UsedIds
    <3> QED
      BY <2>3, <3>1, <3>2
  <2>10. MasterTyped'
    BY <1>1, <1>2, <1>5, <2>1, <2>2, <2>4, <2>5, <2>8 DEF MasterTyped, Ids
  <2>11. OneBoardPerId'
    <3>1. \A s \in Slots : u[s].id # 0 => rows'[u[s].id] = u[s].mac
      <4> SUFFICES ASSUME NEW s \in Slots, u[s].id # 0 PROVE rows'[u[s].id] = u[s].mac
        OBVIOUS
      <4>1. CASE s = n
        BY <2>3, <2>8, <4>1 DEF Rewrites
      <4>2. CASE s # n
        <5>1. u[s] = ztab[s]
          BY <2>3, <4>2 DEF Rewrites
        <5>2. ztab[s].id \in Ids /\ ztab[s].id # z
          BY <1>3, <2>1, <5>1, UsedAreIds DEF UsedIds
        <5> QED
          BY <1>1, <2>8, <5>1, <5>2 DEF OneBoardPerId
      <4> QED
        BY <4>1, <4>2
    <3>2. unassigned' \cap Macs(u) = {}
      BY <1>1, <2>4, <2>9 DEF OneBoardPerId
    <3>3. Sound(ztab') /\ Sound(nvs')
      BY <1>1, <2>2, <2>4
    <3> QED
      BY <2>4, <3>1, <3>2, <3>3 DEF OneBoardPerId, Sound, Macs, Slots
  <2>12. GhostsExplained'
    <3> SUFFICES ASSUME NEW y \in Ids, rows'[y] # NONE PROVE y \in UsedIds(u) \cup refused
      BY <1>5, <2>4 DEF GhostsExplained, UsedIds, Ids, Slots
    <3>1. CASE y = z
      BY <2>9, <3>1
    <3>2. CASE y # z
      BY <2>8, <2>9, <3>2 DEF EnrolInv, GhostsExplained
    <3> QED
      BY <3>1, <3>2
  <2>13. CacheOwned'
    <3> SUFFICES ASSUME NEW y \in Ids, cache[y] \notin {NONE, rows'[y]}
                 PROVE  y \in refused \cup clearMask \cup Queued
      BY <1>5 DEF CacheOwned, Queued, Ids
    <3>1. CASE y = z
      <4>1. CASE rows[z] = NONE
        BY <3>1, <4>1 DEF EnrolInv, CacheOwned
      <4>2. CASE rows[z] # NONE
        BY <2>1, <3>1, <4>2 DEF EnrolInv, GhostsExplained
      <4> QED
        BY <4>1, <4>2
    <3>2. CASE y # z
      BY <2>8, <3>2 DEF EnrolInv, CacheOwned
    <3> QED
      BY <3>1, <3>2
  <2> QED
    BY <1>7, <1>8, <2>6, <2>10, <2>11, <2>12, <2>13 DEF EnrolInv, TypeInv
<1> QED
  BY <1>4, <1>10, <1>11, <1>12

LEMMA PairOf ==
  ASSUME NEW S, NEW x \in S, NEW y \in S
  PROVE  LET p == <<x>> \o <<y>> IN
         p \in Seq(S) /\ {1, 2} \subseteq DOMAIN p /\ p[1] = x /\ p[2] = y
<1>1. <<x>> \in Seq(S) /\ <<y>> \in Seq(S)
  OBVIOUS
<1> QED
  BY <1>1

(* SET NODE MAC: the board leaves its old id, the id its old board, and the *)
(* command owes the clears of both before anything else may happen to it.   *)
LEMMA SeedKeeps ==
  ASSUME NEW b \in BOARDS, NEW z \in Ids
  PROVE  EnrolInv /\ Seed(z, b) => EnrolInv'
<1> SUFFICES ASSUME EnrolInv, Seed(z, b) PROVE EnrolInv'
  OBVIOUS
<1> DEFINE u   == Seeded(ztab, b, z)
           old == IF b \in Macs(ztab) THEN {IdOf(ztab, b)} ELSE {}
<1>1. MasterTyped /\ BoardsTyped /\ Sound(ztab) /\ Sound(nvs) /\ OneBoardPerId
  BY DEF EnrolInv, TypeInv, OneBoardPerId
<1>2. Tables' = Tables
  BY DEF Tables, Entries, Slots
<1>3. ztab \in Tables /\ ~(b \in Macs(ztab) /\ IdOf(ztab, b) = z) /\ op = <<>>
  BY <1>1 DEF Seed, MasterTyped
<1>4. u \in Tables /\ Sound(u)
  BY <1>1, <1>3, SeededSound
<1>5. PICK n \in Slots :
        /\ u[n] = [mac |-> b, id |-> z]
        /\ ztab[n].id \in {0, z} \cup old
        /\ \A s \in Slots : s # n => \/ u[s] = ztab[s] /\ ztab[s].mac # b
                                     \/ u[s] = FreeSlot /\ ztab[s].mac = b
  BY <1>1, <1>3, SeededSound
<1>6. old \subseteq Ids /\ \A s \in Slots : ztab[s].mac = b => ztab[s].id \in old
  <2>1. CASE b \in Macs(ztab)
    <3>1. /\ SlotOfMac(ztab, b) \in Slots /\ ztab[SlotOfMac(ztab, b)].mac = b
          /\ IdOf(ztab, b) = ztab[SlotOfMac(ztab, b)].id /\ IdOf(ztab, b) \in Ids
      BY <1>1, <1>3, <2>1, MacFound
    <3>2. IdOf(ztab, b) # 0
      BY <3>1, EnrolAssumption DEF Ids
    <3>3. \A s \in Slots : ztab[s].mac = b => s = SlotOfMac(ztab, b)
      BY <1>1, <3>1, <3>2 DEF Sound
    <3> QED
      BY <2>1, <3>1, <3>3
  <2>2. CASE b \notin Macs(ztab)
    BY <2>2, EnrolAssumption DEF Macs
  <2> QED
    BY <2>1, <2>2
<1>7. /\ ztab' = u /\ nvs' \in {u, nvs} /\ unassigned' = unassigned \ {b}
      /\ rows' = [y \in Ids |-> IF y = z THEN b ELSE IF y \in old THEN NONE ELSE rows[y]]
      /\ UNCHANGED <<cache, fresh, clearMask, cx, present, zid, hb, asg, refused>>
  BY DEF Seed, config, boards
<1>8. op' = <<z>> \o (IF old = {} THEN <<>> ELSE <<IdOf(ztab, b)>>)
  BY DEF Seed
<1> HIDE DEF u
<1>9. op' \in Seq(Ids) /\ {z} \cup old \subseteq Queued'
  <2>1. CASE b \in Macs(ztab)
    <3>1. old = {IdOf(ztab, b)} /\ old # {}
      BY <2>1
    <3>2. op' = <<z>> \o <<IdOf(ztab, b)>>
      BY <1>8, <3>1
    <3>3. IdOf(ztab, b) \in Ids
      BY <1>6, <3>1
    <3>4. /\ op' \in Seq(Ids) /\ {1, 2} \subseteq DOMAIN op'
          /\ op'[1] = z /\ op'[2] = IdOf(ztab, b)
      BY <3>2, <3>3, PairOf
    <3> QED
      BY <3>1, <3>4 DEF Queued
  <2>2. CASE b \notin Macs(ztab)
    <3>1. op' = <<z>> /\ old = {}
      BY <1>8, <2>2
    <3>2. op'[1] = z /\ 1 \in DOMAIN op'
      BY <3>1
    <3> QED
      BY <3>1, <3>2 DEF Queued
  <2> QED
    BY <2>1, <2>2
<1> HIDE DEF old
<1>10. /\ rows' \in [Ids -> BOARDS \cup {NONE}] /\ rows'[z] = b
       /\ \A y \in Ids : y # z /\ y \notin old => rows'[y] = rows[y]
       /\ \A y \in Ids : y # z /\ y \in old => rows'[y] = NONE
  BY <1>1, <1>7 DEF MasterTyped
<1>11. \A s \in Slots : s # n /\ u[s].id # 0 => /\ u[s] = ztab[s] /\ ztab[s].mac # b
                                                /\ ztab[s].id \in Ids /\ ztab[s].id # z
  <2> SUFFICES ASSUME NEW s \in Slots, s # n, u[s].id # 0
               PROVE  /\ u[s] = ztab[s] /\ ztab[s].mac # b
                      /\ ztab[s].id \in Ids /\ ztab[s].id # z
    OBVIOUS
  <2>1. u[s] = ztab[s] /\ ztab[s].mac # b
    BY <1>5, FreeEntry
  <2>2. ztab[s].id \in Ids
    BY <1>3, <2>1, EntryTyped, SomeId
  <2>3. u[s].id # u[n].id
    BY <1>4 DEF Sound
  <2> QED
    BY <1>5, <2>1, <2>2, <2>3
<1>12. MasterTyped'
  BY <1>1, <1>2, <1>4, <1>7, <1>9, <1>10 DEF MasterTyped, Ids
<1>13. BoardsTyped'
  BY <1>1, <1>7 DEF BoardsTyped
<1>14. OneBoardPerId'
  <2>1. ASSUME NEW s \in Slots, u[s].id # 0 PROVE rows'[u[s].id] = u[s].mac
    <3>1. CASE s = n
      BY <1>5, <1>10, <3>1
    <3>2. CASE s # n
      <4>1. u[s] = ztab[s] /\ ztab[s].mac # b /\ ztab[s].id \in Ids /\ ztab[s].id # z
        BY <1>11, <2>1, <3>2
      <4>2. ztab[s].id \notin old
        <5> SUFFICES ASSUME ztab[s].id \in old PROVE FALSE
          OBVIOUS
        <5>1. b \in Macs(ztab) /\ ztab[s].id = IdOf(ztab, b)
          BY DEF old
        <5>2. /\ SlotOfMac(ztab, b) \in Slots /\ ztab[SlotOfMac(ztab, b)].mac = b
              /\ IdOf(ztab, b) = ztab[SlotOfMac(ztab, b)].id
          BY <1>1, <1>3, <5>1, MacFound
        <5>3. s # SlotOfMac(ztab, b) /\ ztab[s].id # 0
          BY <2>1, <4>1, <5>2
        <5> QED
          BY <1>1, <5>1, <5>2, <5>3 DEF Sound
      <4>3. rows[ztab[s].id] = ztab[s].mac
        BY <1>1, <2>1, <4>1 DEF OneBoardPerId
      <4> QED
        BY <1>10, <4>1, <4>2, <4>3
    <3> QED
      BY <3>1, <3>2
  <2>2. Macs(u) \subseteq Macs(ztab) \cup {b}
    <3> SUFFICES ASSUME NEW s \in Slots, u[s].mac # NONE PROVE u[s].mac \in Macs(ztab) \cup {b}
      BY DEF Macs
    <3>1. CASE s = n
      BY <1>5, <3>1
    <3>2. CASE s # n
      <4>1. u[s] = ztab[s]
        BY <1>5, <3>2, FreeEntry
      <4> QED
        BY <4>1 DEF Macs
    <3> QED
      BY <3>1, <3>2
  <2>3. unassigned' \cap Macs(u) = {}
    BY <1>1, <1>7, <2>2 DEF OneBoardPerId
  <2>4. Sound(ztab') /\ Sound(nvs')
    BY <1>1, <1>4, <1>7
  <2> QED
    BY <1>7, <2>1, <2>3, <2>4 DEF OneBoardPerId, Sound, Macs, Slots
<1>15. GhostsExplained'
  <2> SUFFICES ASSUME NEW y \in Ids, rows'[y] # NONE PROVE y \in UsedIds(u) \cup refused
    BY <1>7 DEF GhostsExplained, UsedIds, Ids, Slots
  <2>1. CASE y = z
    <3>1. z # 0
      BY EnrolAssumption DEF Ids
    <3> QED
      BY <1>5, <2>1, <3>1 DEF UsedIds
  <2>2. CASE y # z
    <3>1. y \notin old /\ rows[y] # NONE
      BY <1>10, <2>2
    <3>2. CASE y \in UsedIds(ztab)
      <4>1. PICK s \in Slots : ztab[s].id = y /\ y # 0
        BY <3>2 DEF UsedIds
      <4>2. s # n
        BY <1>5, <2>2, <3>1, <4>1
      <4>3. u[s] = ztab[s]
        BY <1>5, <1>6, <3>1, <4>1, <4>2
      <4> QED
        BY <4>1, <4>3 DEF UsedIds
    <3> QED
      BY <3>1, <3>2 DEF EnrolInv, GhostsExplained
  <2> QED
    BY <2>1, <2>2
<1>16. CacheOwned'
  <2> SUFFICES ASSUME NEW y \in Ids, cache[y] \notin {NONE, rows'[y]}
               PROVE  y \in refused \cup clearMask \cup Queued'
    BY <1>7 DEF CacheOwned, Ids
  <2>1. Queued = {}
    BY <1>3 DEF Queued
  <2>2. CASE y \in {z} \cup old
    BY <1>9, <2>2
  <2>3. CASE y \notin {z} \cup old
    BY <1>10, <2>1, <2>3 DEF EnrolInv, CacheOwned
  <2> QED
    BY <2>2, <2>3
<1> QED
  BY <1>12, <1>13, <1>14, <1>15, <1>16 DEF EnrolInv, TypeInv

-----------------------------------------------------------------------------
(* The theorems.                                                            *)

LEMMA EnrolStep == EnrolInv /\ [Next]_vars => EnrolInv'
<1> SUFFICES ASSUME EnrolInv, [Next]_vars PROVE EnrolInv'
  OBVIOUS
<1>1. CASE TransferFails
  <2>1. BoardsTyped'
    BY <1>1 DEF TransferFails, boards, EnrolInv, TypeInv, BoardsTyped
  <2> QED
    BY <1>1, <2>1, Untouched DEF TransferFails
<1>2. CASE UNCHANGED vars
  <2>1. BoardsTyped'
    BY <1>2 DEF vars, boards, EnrolInv, TypeInv, BoardsTyped
  <2> QED
    BY <1>2, <2>1, Untouched DEF vars, config
<1>3. ASSUME NEW b \in BOARDS,
             \/ HandleHb(b) \/ Transferred(b)
             \/ Heartbeat(b) \/ OnAssign(b) \/ Plug(b) \/ Erase(b) \/ Lose(b)
             \/ \E z \in Ids : Seed(z, b)
      PROVE  EnrolInv'
  BY <1>3, HandleHbKeeps, TransferKeeps, BoardsKeep, SeedKeeps
<1>4. ASSUME NEW z \in Ids, Clear(z) PROVE EnrolInv'
  BY <1>4, ClearKeeps
<1> QED
  BY <1>1, <1>2, <1>3, <1>4, TickKeeps, RebootKeeps, RequestClearKeeps DEF Next

THEOREM EnrolInvariant == Spec => []EnrolInv
BY EnrolInit, EnrolStep, PTL DEF Spec

(* Every value of the model stays in the range of its C type.               *)
THEOREM EnrolTypeCorrect == Spec => []TypeOK
<1>1. EnrolInv => TypeOK
  BY DEF EnrolInv, TypeInv, MasterTyped, BoardsTyped, TypeOK, Tables, Entries
<1> QED
  BY <1>1, EnrolInvariant, PTL

(* One board per id and one id per board, in RAM and in flash, GET NODES    *)
(* showing the board the table gives an id to, and nobody with an id listed *)
(* as waiting for one: through every order of heartbeats, SET NODE MAC,     *)
(* CLEAR NODE, failed writes and restarts (ztab.c, node_mgr_enrol.c).       *)
THEOREM OneBoardPerIdHolds == Spec => []OneBoardPerId
<1>1. EnrolInv => OneBoardPerId
  BY DEF EnrolInv
<1> QED
  BY <1>1, EnrolInvariant, PTL

(* A row the table does not know comes from a CLEAR NODE answered with an   *)
(* error, and from nothing else (node_mgr.c 276-283).                       *)
THEOREM GhostsExplainedHolds == Spec => []GhostsExplained
<1>1. EnrolInv => GhostsExplained
  BY DEF EnrolInv
<1> QED
  BY <1>1, EnrolInvariant, PTL

(* A push that starts is of an id whose queued clear, if any, was carried   *)
(* out by the same tick; so what it pushes is the row's own, unless the     *)
(* command still owes the clear or was answered with an error               *)
(* (node_mgr_cfg.c, nmgr_cfg_tick_1s).                                      *)
LEMMA PushesOwn ==
  EnrolInv /\ [Next]_vars =>
    \A z \in Ids : PushStarts(z) /\ cache[z] # rows[z] =>
       z \in refused \cup {op[i] : i \in DOMAIN op}
<1> SUFFICES ASSUME EnrolInv, [Next]_vars, NEW z \in Ids, PushStarts(z), cache[z] # rows[z]
             PROVE  z \in refused \cup Queued
  BY DEF Queued
<1>1. MasterTyped
  BY DEF EnrolInv, TypeInv
<1>2. Tick
  <2>1. cx' # cx /\ cx' # NoTransfer
    BY DEF PushStarts, NoTransfer
  <2> QED
    BY <2>1 DEF Next, vars, config, TransferFails, Reboot, RequestClear, Clear, HandleHb, Transferred,
                Heartbeat, OnAssign, Plug, Erase, Lose, Seed
<1>3. z \notin clearMask /\ cache'[z] # NONE
  <2>1. cx' # cx /\ cx' # NoTransfer /\ cx'.kind = "push" /\ cx'.zone = z
    BY DEF PushStarts, NoTransfer
  <2>2. \E y \in fresh \ clearMask :
          cx' = IF cache'[y] = NONE THEN [kind |-> "pull", zone |-> y]
                ELSE IF cache'[y] # rows[y] THEN [kind |-> "push", zone |-> y]
                ELSE NoTransfer
    BY <1>2, <2>1 DEF Tick
  <2> QED
    BY <2>1, <2>2
<1>4. cache'[z] = cache[z]
  BY <1>2, <1>3 DEF Tick, Cleared
<1> QED
  BY <1>3, <1>4 DEF EnrolInv, CacheOwned

(* What was cached for one board reaches another only in the window of a    *)
(* command that still owes the clear, or after one answered with an error.  *)
THEOREM StrangersInWindow == Spec => StrangerOnlyInWindow
BY EnrolInvariant, PushesOwn, PTL DEF Spec, StrangerOnlyInWindow
=============================================================================
