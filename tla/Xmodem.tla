------------------------------- MODULE Xmodem -------------------------------
(***************************************************************************)
(* One package over XMODEM (xmodem.c), from xmodem_transmit_package() at   *)
(* one end of a serial line to xmodem_receive_package() at the other, and  *)
(* the timeouts and the UART errors of xmodem_io_getc()                    *)
(* (xmodem_io_uart.c).  The line loses and damages bytes.                  *)
(*                                                                         *)
(* Time is counted in the unit of the timeouts; what is on the line        *)
(* arrives, and is answered, within the same unit.                         *)
(***************************************************************************)
EXTENDS Naturals, Sequences

CONSTANTS
  NumPackets,     \* of the package
  MAX_RETRANSMIT,
  MAX_RX_ERRORS,
  MaxUartErrors,  \* bound: errors that the UARTs of both ends report
  Setups          \* the timeouts of both ends, and how many packets the
                  \* receiver's buffer takes

\* The packet numbers are bytes; a package has no more than 17.
ASSUME XmodemAssumption ==
  /\ NumPackets \in 1 .. 254
  /\ MAX_RETRANSMIT \in 1 .. 255 /\ MAX_RX_ERRORS \in Nat \ {0}
  /\ MaxUartErrors \in Nat
  /\ Setups \subseteq [sTimeout : Nat \ {0}, rTimeout : Nat \ {0}, capacity : Nat]

VARIABLES
  sender,       \* what xmodem_transmit_package() waits for, or its result
  pkt_no,
  retransmit,   \* tries left, the present one included
  sTimer,
  receiver,     \* where xmodem_read_pkt() waits, or the result
  exp_seq_no,
  received,     \* the packets in the buffer
  err_cnt,
  rTimer,
  toReceiver, toSender,   \* the line, and the FIFO of the UART at its end
  setup,
  uartErrors,   \* reported so far
  crossed,      \* history: an end has spoken out of turn, while it was being
                \* spoken to or when it had not been answered yet
  misread       \* history: a byte from within a packet was taken for EOT

sVars == <<sender, pkt_no, retransmit, sTimer>>
rVars == <<receiver, exp_seq_no, received, err_cnt, rTimer, misread>>
vars == <<sVars, rVars, toReceiver, toSender, setup, uartErrors, crossed>>

Sending == sender \in {"start", "packet", "eot"}
Receiving == receiver \in {"first", "rest", "drain"}

\* The control characters SOH and EOT, which are packet numbers too.
SOH == 1
EOT == 4

-----------------------------------------------------------------------------
\* A packet arrives whole, with bytes that are wrong, without its SOH, or
\* without some of the others.  Anything may be lost altogether.
Packet(n) == {[type |-> t, seq_no |-> n] : t \in {"whole", "damaged", "headless", "cut"}}
EndOfPackets == {[type |-> t, seq_no |-> 0] : t \in {"eot", "noise"}}

Messages ==
  [type : {"whole", "damaged", "headless", "cut", "tail", "eot", "noise"},
   seq_no : 0 .. NumPackets]

Answers == {"C", "ACK", "NAK", "CAN", "noise"}

Transmitted(messages) ==
  IF Receiving
    THEN toReceiver' \in {toReceiver} \cup {Append(toReceiver, m) : m \in messages}
    ELSE UNCHANGED toReceiver

\* The receiver has a message before it of which it has read nothing.
SpokenTo(line) == \E i \in DOMAIN line : line[i].type # "tail"

\* A byte may be gone with the read that ended without it.
Unread(line) == IF line = <<>> THEN {<<>>} ELSE {line, Tail(line)}

Answered(cmd) ==
  IF Sending
    THEN toSender' \in {toSender} \cup {Append(toSender, c) : c \in {cmd, "noise"}}
    ELSE UNCHANGED toSender

-----------------------------------------------------------------------------
\* xmodem_transmit_package()

\* The packet n, or EOT after the last one.
Transmit(n, tries) ==
  /\ pkt_no' = n /\ retransmit' = tries
  /\ sender' = IF n <= NumPackets THEN "packet" ELSE "eot"
  /\ Transmitted(IF n <= NumPackets THEN Packet(n) ELSE EndOfPackets)

\* Mutant: the end of the retries is reported as success.
GiveUpSilently ==
  IF sender = "packet"
    THEN Transmit(pkt_no + 1, MAX_RETRANSMIT)
    ELSE sender' = "ok" /\ UNCHANGED <<pkt_no, retransmit, toReceiver>>

GiveUp == sender' = "failed" /\ UNCHANGED <<pkt_no, retransmit, toReceiver>>

\* xmodem_io_getc() returns with a byte, or without one.
SenderGets(rsp) ==
  /\ Sending /\ sTimer' = setup.sTimeout
  /\ \/ /\ sender = "start" /\ rsp = "C"
        /\ Transmit(1, MAX_RETRANSMIT)
     \/ /\ sender = "packet" /\ rsp = "ACK"
        /\ Transmit(pkt_no + 1, MAX_RETRANSMIT)
     \/ /\ sender = "eot" /\ rsp = "ACK"
        /\ sender' = "ok" /\ UNCHANGED <<pkt_no, retransmit, toReceiver>>
     \/ /\ rsp # (IF sender = "start" THEN "C" ELSE "ACK")
        /\ \/ retransmit = 1 /\ GiveUp
           \/ /\ retransmit > 1 /\ sender = "start"
              /\ retransmit' = retransmit - 1 /\ UNCHANGED <<sender, pkt_no, toReceiver>>
           \/ /\ retransmit > 1 /\ sender # "start"
              /\ Transmit(pkt_no, retransmit - 1)
  /\ UNCHANGED <<rVars, setup>>

SenderReads ==
  /\ toSender # <<>>
  /\ toSender' = Tail(toSender)
  /\ SenderGets(Head(toSender))
  /\ UNCHANGED <<crossed, uartErrors>>

\* pic_timer_callback(), which may overwrite what uart_callback() has just
\* written: then the byte is gone.
SenderTimesOut ==
  /\ sTimer = 0
  /\ toSender' \in Unread(toSender)
  /\ crossed' = (crossed \/ toSender # <<>>)
  /\ SenderGets("none")
  /\ UNCHANGED uartErrors

\* uart_callback() with an error of the line, which ends xmodem_io_getc() at
\* once: what is in the FIFO is read by the next call.
SenderErrs ==
  /\ uartErrors < MaxUartErrors /\ uartErrors' = uartErrors + 1
  /\ toSender' \in Unread(toSender)
  /\ crossed' = (crossed \/ toSender' # <<>> \/ (Receiving /\ SpokenTo(toReceiver)))
  /\ SenderGets("none")

-----------------------------------------------------------------------------
\* xmodem_receive_package()

Nak == IF received = <<>> THEN "C" ELSE "NAK"

\* The outcomes of xmodem_read_pkt(), and the command that answers each.
ReadSOH(n) ==
  /\ receiver' = "first" /\ Answered("ACK")
  /\ received' = Append(received, n) /\ exp_seq_no' = exp_seq_no + 1
  /\ err_cnt' = 0
  /\ UNCHANGED misread
ReadDUP ==
  /\ receiver' = "first" /\ Answered("ACK")
  /\ UNCHANGED <<exp_seq_no, received, err_cnt, misread>>
ReadEOT ==
  /\ receiver' = "ok" /\ Answered("ACK")
  /\ UNCHANGED <<exp_seq_no, received, err_cnt>>
ReadCAN ==
  /\ receiver' = "failed" /\ Answered("CAN")
  /\ UNCHANGED <<exp_seq_no, received, err_cnt, misread>>

\* Mutant: errors are not counted.
ReadERRUncounted ==
  /\ receiver' = "first"
  /\ Answered(Nak)
  /\ UNCHANGED <<err_cnt, exp_seq_no, received, misread>>

\* Mutant: an error repeats the last command instead of asking again.
ReadERRKeepsCmd ==
  /\ err_cnt' = err_cnt + 1
  /\ receiver' = IF err_cnt + 1 < MAX_RX_ERRORS THEN "first" ELSE "failed"
  /\ Answered(IF received = <<>> THEN "C" ELSE "ACK")
  /\ UNCHANGED <<exp_seq_no, received, misread>>

ReadERR ==
  /\ err_cnt' = err_cnt + 1
  /\ receiver' = IF err_cnt + 1 < MAX_RX_ERRORS THEN "first" ELSE "failed"
  /\ Answered(Nak)
  /\ UNCHANGED <<exp_seq_no, received, misread>>

\* xmodem_read_pkt() waits for more bytes.
Await(where) ==
  /\ receiver' = where
  /\ UNCHANGED <<exp_seq_no, received, err_cnt, misread, toSender>>

\* Mutant: a repeated packet is taken for a new one.
CheckTakesRepeats(n) ==
  \/ n \in {exp_seq_no - 1, exp_seq_no} /\ Len(received) < setup.capacity /\ ReadSOH(n)
  \/ n = exp_seq_no /\ Len(received) = setup.capacity /\ ReadCAN
  \/ n \notin {exp_seq_no - 1, exp_seq_no} /\ ReadCAN

\* The checks of a packet whose bytes are right.
Check(n) ==
  \/ n = exp_seq_no - 1 /\ ReadDUP
  \/ n = exp_seq_no /\ Len(received) < setup.capacity /\ ReadSOH(n)
  \/ n = exp_seq_no /\ Len(received) = setup.capacity /\ ReadCAN
  \/ n \notin {exp_seq_no - 1, exp_seq_no} /\ ReadCAN

\* The first byte is not at the head of a packet.
ReadByte(b) ==
  \/ b = SOH /\ Await("rest")
  \/ b = EOT /\ ReadEOT /\ misread' = TRUE
  \/ b \notin {SOH, EOT} /\ Await("drain")

\* A packet whose wrong bytes are noticed by the CRC, or by the UART together
\* with the byte's arrival, is read to its end.
ReadFirst(m) ==
  \/ m.type = "whole" /\ Check(m.seq_no)
  \/ m.type = "damaged" /\ ReadERR
  \/ m.type = "cut" /\ Await("rest")
  \/ m.type = "headless" /\ ReadByte(m.seq_no)
  \/ m.type = "tail" /\ \E b \in {0, SOH, EOT} : ReadByte(b)
  \/ m.type = "eot" /\ ReadEOT /\ UNCHANGED misread
  \/ m.type = "noise" /\ Await("drain")

\* Bytes of the next packet complete one that was cut, and its CRC is wrong.
\* The last of them are still to come.
ReadRest(m) ==
  \/ /\ m.type \notin {"eot", "noise"} /\ ReadERR
     /\ toReceiver' = [toReceiver EXCEPT ![1].type = "tail"]
  \/ /\ m.type \in {"eot", "noise"} /\ (ReadERR \/ Await("rest"))
     /\ toReceiver' = Tail(toReceiver)

ReceiverReads ==
  /\ Receiving /\ toReceiver # <<>>
  /\ \/ /\ receiver = "first" /\ ReadFirst(Head(toReceiver))
        /\ toReceiver' = Tail(toReceiver)
     \/ receiver = "rest" /\ ReadRest(Head(toReceiver))
     \/ /\ receiver = "drain" /\ Await("drain")
        /\ toReceiver' = Tail(toReceiver)
  /\ rTimer' = setup.rTimeout
  /\ UNCHANGED <<sVars, setup, uartErrors, crossed>>

\* A byte that is lost to the timer callback is the first of a packet.
ReceiverTimesOut ==
  /\ Receiving /\ rTimer = 0
  /\ ReadERR
  /\ \/ UNCHANGED toReceiver
     \/ /\ toReceiver # <<>>
        /\ LET type == toReceiver[1].type IN
             toReceiver' =
               IF type \in {"eot", "noise"} THEN Tail(toReceiver)
               ELSE [toReceiver EXCEPT ![1].type =
                       IF type \in {"headless", "tail"} THEN "tail" ELSE "headless"]
  /\ crossed' = (crossed \/ toReceiver # <<>>)
  /\ rTimer' = setup.rTimeout
  /\ UNCHANGED <<sVars, setup, uartErrors>>

\* The line after an error in its first message: the byte is still to come,
\* or those behind it are, or it was the last one.
AfterError(line) ==
  Unread(line) \cup
    (IF line = <<>> \/ line[1].type \in {"eot", "noise"} THEN {}
     ELSE {[line EXCEPT ![1].type = "tail"]})

\* uart_callback() with an error of the line, at any byte of a packet, in the
\* drain or when nothing is sent: the receiver asks again, whatever is still
\* on its way, and takes the next byte for the first of a packet.
ReceiverErrs ==
  /\ Receiving
  /\ uartErrors < MaxUartErrors /\ uartErrors' = uartErrors + 1
  /\ ReadERR
  /\ toReceiver' \in AfterError(toReceiver)
  /\ crossed' = (crossed \/ toSender # <<>> \/ SpokenTo(toReceiver'))
  /\ rTimer' = setup.rTimeout
  /\ UNCHANGED <<sVars, setup>>

-----------------------------------------------------------------------------
\* Time passes when neither end has anything to do.
Tick ==
  /\ Sending => toSender = <<>> /\ sTimer > 0
  /\ Receiving => toReceiver = <<>> /\ rTimer > 0
  /\ Sending \/ Receiving
  /\ sTimer' = IF Sending THEN sTimer - 1 ELSE sTimer
  /\ rTimer' = IF Receiving THEN rTimer - 1 ELSE rTimer
  /\ UNCHANGED <<sender, pkt_no, retransmit, receiver, exp_seq_no, received,
                 err_cnt, toReceiver, toSender, setup, uartErrors, crossed, misread>>

\* The receiver has sent its first 'C', and maybe others before the sender
\* listened.
Init ==
  /\ sender = "start" /\ pkt_no = 1 /\ retransmit = MAX_RETRANSMIT
  /\ receiver = "first" /\ exp_seq_no = 1 /\ received = <<>> /\ err_cnt = 0
  /\ setup \in Setups
  /\ sTimer = setup.sTimeout /\ rTimer = setup.rTimeout
  /\ toReceiver = <<>> /\ toSender \in {<<>>, <<"C">>, <<"C", "C">>}
  /\ uartErrors = 0 /\ crossed = (toSender = <<"C", "C">>) /\ misread = FALSE

Next ==
  \/ SenderReads \/ SenderTimesOut \/ SenderErrs
  \/ ReceiverReads \/ ReceiverTimesOut \/ ReceiverErrs
  \/ Tick

Spec == Init /\ [][Next]_vars /\ WF_vars(Next)

-----------------------------------------------------------------------------
TypeOK ==
  /\ sender \in {"start", "packet", "eot", "ok", "failed"}
  /\ pkt_no \in 1 .. NumPackets + 1 /\ retransmit \in 1 .. MAX_RETRANSMIT
  /\ receiver \in {"first", "rest", "drain", "ok", "failed"}
  /\ received \in Seq(1 .. NumPackets) /\ exp_seq_no = Len(received) + 1
  /\ err_cnt \in 0 .. MAX_RX_ERRORS
  /\ toReceiver \in Seq(Messages) /\ toSender \in Seq(Answers)
  /\ setup \in Setups
  /\ sTimer \in 0 .. setup.sTimeout /\ rTimer \in 0 .. setup.rTimeout
  /\ uartErrors \in 0 .. MaxUartErrors /\ crossed \in BOOLEAN /\ misread \in BOOLEAN

\* What the receiver has is a beginning of what was sent, each packet once and
\* in its place, and fits into its buffer: whatever was lost, repeated,
\* answered twice or read late (xmodem.c:288-306, 341-363).
ReceivedIsPrefix ==
  /\ Len(received) <= setup.capacity
  /\ \A i \in DOMAIN received : received[i] = i

\* The receiver reports a package only if all of it has arrived, though an
\* error of the UART makes it ask again in the middle of a packet and read the
\* rest for a new one (xmodem.c:215-250, 273-277).  It can be fooled in two
\* ways: by an EOT that is none, and by a sender that has counted an answer
\* twice because an end has spoken out of turn, as at the second error in a
\* packet.
OkMeansComplete ==
  receiver = "ok" /\ ~crossed /\ ~misread => Len(received) = NumPackets

\* The sender reports a package as sent only if the receiver has it, under the
\* same conditions.
SentMeansReceived ==
  sender = "ok" /\ ~crossed /\ ~misread => receiver = "ok"

\* However bad the line is, both ends come to a result.
Ends == <>(~Sending /\ ~Receiving)
=============================================================================
