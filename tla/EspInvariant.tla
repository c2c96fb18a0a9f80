---------------------------- MODULE EspInvariant ----------------------------
(***************************************************************************)
(* The inductive invariant behind the results of EspLink: how long a       *)
(* request is, and how long the module can still be waiting for data of an *)
(* upload that went wrong.                                                 *)
(***************************************************************************)
EXTENDS EspLink

\* A request, once there is one, is complete and states its length rightly.
Requests ==
  /\ post_buffer \in [length : Nat, payload : Nat, stated : Nat]
  /\ temp_buffer \in {0, 16, 43}
  /\ \/ post_buffer.payload = 0 /\ post_buffer.length = 0 /\ next # "request"
     \/ /\ 51 <= post_buffer.payload /\ post_buffer.payload <= 72
        /\ post_buffer.stated = post_buffer.payload
        /\ post_buffer.length = post_buffer.payload + 112

\* The module waits for data because it has been told to in this upload, or
\* because of a fault in the one before; then the connect and the announcement
\* have already gone the way of data.
Jams ==
  /\ next = "connect" /\ mode = "data" => faulty
  /\ next = "announce" /\ mode = "data" => faultyBefore /\ remaining <= 157
  /\ next = "request" /\ mode = "data" =>
       \/ faultyBefore /\ remaining <= 141
       \/ connected /\ remaining = post_buffer.length

\* Without a fault the module follows the upload.
Follows ==
  /\ next = "announce" => faulty \/ faultyBefore \/ connected
  /\ next = "request" =>
       \/ faulty \/ faultyBefore
       \/ connected /\ mode = "data" /\ remaining = post_buffer.length

IInv ==
  /\ TypeOK /\ Requests /\ Jams /\ Follows
  /\ OverrunOnlyBelowZero /\ FaultCostsTwoUploads
=============================================================================
