----------------------------- MODULE MCCfgLive -----------------------------
(***************************************************************************)
(* CfgSync's liveness for TLC on two instances: one zone whose blobs take  *)
(* two chunks, with edits and faults (one), and two zones that take turns  *)
(* for the transfer slot, with an edit and no fault (two).                 *)
(***************************************************************************)
EXTENDS CfgSync

VARIABLE prof

Two == INSTANCE CfgSync WITH ZONES <- 2, CHUNKS <- 1, MAX_FAULT <- 0

One == prof = "one"

MCInit ==
  \/ One /\ Init
  \/ prof = "two" /\ Two!Init

MCNext ==
  /\ prof' = prof
  /\ \/ One /\ Next
     \/ ~ One /\ Two!Next

(* The fairness of FairSpec, of whichever instance it is.                   *)
Sends    == (One /\ (SendHead \/ GiveUp)) \/ (~ One /\ (Two!SendHead \/ Two!GiveUp))
Ticks    == (One /\ Tick) \/ (~ One /\ Two!Tick)
Arms     == (One /\ ArmForward) \/ (~ One /\ Two!ArmForward)
Times    == (One /\ ForwardTimeout) \/ (~ One /\ Two!ForwardTimeout)
Hears(z) ==
  \/ One /\ z \in Zones /\ (OnAck(z) \/ OnChunk(z) \/ OnHeartbeat(z))
  \/ ~ One /\ (Two!OnAck(z) \/ Two!OnChunk(z) \/ Two!OnHeartbeat(z))
Runs(z) ==
  \/ /\ One /\ z \in Zones
     /\ Replay(z) \/ RunSet(z) \/ ZoneChunk(z) \/ Commit(z) \/ Flushed(z) \/ ConfigGet(z)
  \/ /\ ~ One
     /\ \/ Two!Replay(z) \/ Two!RunSet(z) \/ Two!ZoneChunk(z)
        \/ Two!Commit(z) \/ Two!Flushed(z) \/ Two!ConfigGet(z)
Beats(z) == (One /\ z \in Zones /\ Heartbeat(z)) \/ (~ One /\ Two!Heartbeat(z))
Cools(z) == (One /\ z \in Zones /\ CoolDown(z)) \/ (~ One /\ Two!CoolDown(z))

MCSpec ==
  /\ MCInit /\ [][MCNext]_<<vars, prof>>
  /\ WF_vars(Sends) /\ SF_vars(Ticks) /\ WF_vars(Arms) /\ WF_vars(Times)
  /\ \A z \in 1 .. 2 : WF_vars(Hears(z)) /\ WF_vars(Runs(z)) /\ WF_vars(Beats(z)) /\ WF_vars(Cools(z))

(* Once nothing is edited or lost any more, every zone ends up with the     *)
(* configuration the master holds (see Settles), with one zone and losses as *)
(* well as with two that compete for the transfer slot.                      *)
AllSettle ==
  \/ <>[](IF One THEN Agreed ELSE Two!Agreed)
  \/ <>[](IF One THEN Starved ELSE Two!Starved)
=============================================================================
