------------------------------- MODULE BlStore -------------------------------
(***************************************************************************)
(* What bl_data.c promises the boot loader about its administrative data:  *)
(* it is there from the first provisioning on, and every update of it      *)
(* happens at once or not at all, whenever the power fails.                *)
(* FirmwareManager.tla implements this module.                             *)
(***************************************************************************)
CONSTANTS
  Descriptors,  \* what may be stored
  Defaults      \* what the first provisioning stores

VARIABLES
  provisioned,
  wanted,       \* the copy in RAM
  stored        \* what a boot would find

Init ==
  /\ provisioned = FALSE
  /\ wanted = Defaults /\ stored = Defaults

\* The copy in RAM changes, or is lost with the power.
Change ==
  /\ wanted' \in Descriptors
  /\ UNCHANGED <<provisioned, stored>>

Save ==
  /\ provisioned' = TRUE
  /\ provisioned \/ wanted = Defaults
  /\ stored' = wanted
  /\ UNCHANGED wanted

Next == Change \/ Save

Spec == Init /\ [][Next]_<<provisioned, wanted, stored>>
=============================================================================
