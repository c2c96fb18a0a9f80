------------------------------- MODULE Uplink -------------------------------
(***************************************************************************)
(* What the station promises its server, without the machinery that keeps  *)
(* the promise: a connection is requested, and no sooner than             *)
(* ConnectionTime seconds later one report is uploaded over it; two        *)
(* uploads are at least Period seconds apart.  As long as the station is   *)
(* punctual both distances are exact.  Station.tla implements this module. *)
(***************************************************************************)
EXTENDS Integers

CONSTANTS
  Period,           \* seconds between two uploads
  ConnectionTime    \* seconds the server is given to wake up

VARIABLES
  sinceUpload,      \* ticks since the last upload, or since power-on
  sinceRequest,     \* ticks since the last connection request
  link,             \* "down", or "up" from the request to the upload
  punctual          \* whether the two distances are exact or lower bounds

vars == <<sinceUpload, sinceRequest, link, punctual>>

\* The ages saturate one past the largest value a property tells apart.
Aged(age, bound) == IF age > bound THEN age ELSE age + 1

\* A distance the server may rely on: exact if the station is punctual.
Apart(age, bound) == age >= bound /\ (punctual => age = bound)

Init ==
  /\ sinceUpload = 0
  /\ sinceRequest = 0
  /\ link = "down"
  /\ punctual \in BOOLEAN

ConnectDue == link = "down" /\ Apart(sinceUpload, Period - ConnectionTime)

UploadDue ==
  /\ link = "up"
  /\ Apart(sinceUpload, Period)
  /\ Apart(sinceRequest, ConnectionTime)

\* A station that lets a second pass while something is due is no longer
\* punctual, and never again.
Tick ==
  /\ punctual' \in BOOLEAN
  /\ punctual' => punctual /\ ~ConnectDue /\ ~UploadDue
  /\ sinceUpload' = Aged(sinceUpload, Period)
  /\ sinceRequest' = Aged(sinceRequest, ConnectionTime)
  /\ UNCHANGED link

Connect ==
  /\ ConnectDue
  /\ link' = "up"
  /\ sinceRequest' = 0
  /\ UNCHANGED <<sinceUpload, punctual>>

Upload ==
  /\ UploadDue
  /\ link' = "down"
  /\ sinceUpload' = 0
  /\ UNCHANGED <<sinceRequest, punctual>>

Next == Tick \/ Connect \/ Upload

Spec == Init /\ [][Next]_vars
=============================================================================
