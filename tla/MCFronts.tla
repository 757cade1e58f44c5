------------------------------ MODULE MCFronts ------------------------------
(***************************************************************************)
(* Fronts on small instances.                                               *)
(***************************************************************************)
EXTENDS Fronts, TLC

Typed    == {<<"str", n, c>> : n \in {0, 1, 8, 15, 16, 33, 63, 64}, c \in {"host", "plain", "space"}}
Patience == "cli" :> 1 @@ "web" :> 2

(* Four taps, or two that an idle wipe may come between.                    *)
Taps == s10.tap + 2 * s10.wipe = 2
(* Two edits or scans, or one of them with a reader or a fault.             *)
Profile == s17.op < 2 /\ s17.op + s17.read + s17.fault = 2

MCInit ==
  /\ FrontsInit
  /\ part = "net" => Profile
  /\ part = "editor" => Taps

MCSpec == MCInit /\ [][FrontsNext]_<<part, slots>> /\ Fairness
=============================================================================
