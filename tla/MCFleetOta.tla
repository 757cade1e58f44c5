----------------------------- MODULE MCFleetOta -----------------------------
(* FleetOta for TLC: one of the two installing tasks at a time. *)
EXTENDS FleetOta

PanelTask == {"panel"}
HttpdTask == {"httpd"}
=============================================================================
