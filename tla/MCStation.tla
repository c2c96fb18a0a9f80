------------------------------ MODULE MCStation ------------------------------
(***************************************************************************)
(* Station for TLC.  The real periods are 3600 and 10; the small instances *)
(* keep what the state machine tells apart: at least one idle tick before  *)
(* the request (IdleTicks > 1) and more than one waiting second            *)
(* (ConnectionTime > 2), so that both counters count.                      *)
(***************************************************************************)
EXTENDS StationInvariant

AnyOutcome == {"valid", "error"}
AlwaysValid == {"valid"}
=============================================================================
