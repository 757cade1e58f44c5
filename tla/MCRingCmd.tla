----------------------------- MODULE MCRingCmd -----------------------------
(* RingCmd for TLC: one zone is enough for the protocol, whose only state   *)
(* shared between zones is the tracker; a tick stands for about a second.   *)
EXTENDS RingCmd

OneZone == {"z1"}

AllTypes  == {"CMD", "CFG_COMMIT", "CFG_GET", "FW_UPDATE"}
OnceTypes == {"CMD", "CFG_COMMIT"}
=============================================================================
