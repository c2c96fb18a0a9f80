-------------------------- MODULE XmodemInvariant --------------------------
(***************************************************************************)
(* The inductive invariant behind the results of Xmodem.  As long as the   *)
(* ends speak in turn and no byte passes for EOT that is none, at most one *)
(* answer is on its way, and it is an answer to the packet the sender is   *)
(* waiting for.                                                            *)
(***************************************************************************)
EXTENDS Xmodem

InTurn == ~crossed /\ ~misread

\* The variables of each end, from its place in the code.
Places ==
  /\ sender = "start" => pkt_no = 1
  /\ sender = "packet" => pkt_no <= NumPackets
  /\ sender = "eot" => pkt_no = NumPackets + 1
  /\ Receiving => err_cnt < MAX_RX_ERRORS

\* The bytes the receiver rejected may be followed by the packet it asked for,
\* and by nothing else.  While an answer is on its way nothing is behind it.
OneAtATime ==
  /\ Receiving => Len(toReceiver) <= 2
  /\ Receiving /\ Len(toReceiver) = 2 =>
       toReceiver[1].type = "tail" /\ toReceiver[2].type # "tail"
  /\ Receiving /\ toReceiver # <<>> /\ toReceiver[1].type = "tail" => receiver = "first"
  /\ Sending => Len(toSender) <= 1
  /\ Sending /\ Receiving /\ toSender # <<>> =>
       \/ toReceiver = <<>>
       \/ Len(toReceiver) = 1 /\ toReceiver[1].type = "tail"

\* Who is being spoken to does not lose patience.
Patience ==
  /\ Sending /\ Receiving /\ toReceiver # <<>> => sTimer = setup.sTimeout
  /\ Sending /\ Receiving /\ toSender # <<>> => rTimer = setup.rTimeout

\* What the receiver has, and what is on its way to it, against what the
\* sender is waiting for.
Agreement ==
  /\ sender = "start" => received = <<>> /\ toReceiver = <<>> /\ receiver # "ok"
  /\ sender = "packet" =>
       /\ Len(received) \in {pkt_no - 1, pkt_no} /\ receiver # "ok"
       /\ \A i \in DOMAIN toReceiver :
            toReceiver[i].type # "tail" =>
              toReceiver[i].type \notin {"eot", "noise"} /\ toReceiver[i].seq_no = pkt_no
  /\ sender = "eot" =>
       /\ Len(received) = NumPackets
       /\ \A i \in DOMAIN toReceiver : toReceiver[i].type \in {"eot", "noise", "tail"}
  /\ \A i \in DOMAIN toReceiver : toReceiver[i].type = "eot" => Len(received) = NumPackets

\* An acknowledgement is for the packet, or the end, the sender is waiting for.
Acknowledged ==
  Sending /\ toSender = <<"ACK">> =>
    \/ sender = "packet" /\ Len(received) = pkt_no /\ toReceiver = <<>>
    \/ sender = "eot" /\ receiver = "ok"

IInv ==
  /\ TypeOK /\ Places /\ ReceivedIsPrefix
  /\ InTurn => /\ OneAtATime /\ Patience /\ Agreement /\ Acknowledged
               /\ OkMeansComplete /\ SentMeansReceived
=============================================================================
