---------------------------- MODULE XmodemProofs ----------------------------
(***************************************************************************)
(* Proofs of the safety properties of Xmodem, for packages, buffers,       *)
(* timeouts and numbers of tries of any size.                              *)
(***************************************************************************)
EXTENDS XmodemInvariant, SequenceTheorems, TLAPS

USE XmodemAssumption DEF sVars, rVars, SOH, EOT

-----------------------------------------------------------------------------
\* What is taken from the line.
LEMMA TailFacts ==
  ASSUME NEW S, NEW s \in Seq(S), s # <<>>
  PROVE  /\ Head(s) = s[1] /\ s[1] \in S /\ Len(s) \in Nat \ {0}
         /\ Tail(s) \in Seq(S) /\ Len(Tail(s)) = Len(s) - 1
         /\ DOMAIN Tail(s) = 1 .. Len(s) - 1
         /\ \A i \in 1 .. Len(s) - 1 : Tail(s)[i] = s[i + 1]
         /\ Len(s) = 1 <=> Tail(s) = <<>>
<1>1. Head(s) = s[1] /\ Len(s) \in Nat \ {0} /\ s[1] \in S
  OBVIOUS
<1>2. /\ Tail(s) \in Seq(S) /\ Len(Tail(s)) = Len(s) - 1
      /\ DOMAIN Tail(s) = 1 .. Len(s) - 1
      /\ \A i \in 1 .. Len(s) - 1 : Tail(s)[i] = s[i + 1]
  BY HeadTailProperties, LenProperties
<1>3. Len(Tail(s)) = 0 <=> Tail(s) = <<>>
  BY <1>2, EmptySeq
<1> QED
  BY <1>1, <1>2, <1>3

\* What is put onto it.
LEMMA AppendFacts ==
  ASSUME NEW S, NEW s \in Seq(S), NEW e \in S
  PROVE  /\ Append(s, e) \in Seq(S) /\ Len(Append(s, e)) = Len(s) + 1
         /\ DOMAIN Append(s, e) = 1 .. Len(s) + 1
         /\ \A i \in 1 .. Len(s) : Append(s, e)[i] = s[i]
         /\ Append(s, e)[Len(s) + 1] = e
OBVIOUS

\* What is spoilt on it: the first message changes and nothing else.
LEMMA SpoilFacts ==
  ASSUME NEW s \in Seq(Messages), s # <<>>, NEW t \in {"tail", "headless"}
  PROVE  /\ [s EXCEPT ![1].type = t] \in Seq(Messages)
         /\ Len([s EXCEPT ![1].type = t]) = Len(s)
         /\ DOMAIN [s EXCEPT ![1].type = t] = DOMAIN s
         /\ [s EXCEPT ![1].type = t][1] = [s[1] EXCEPT !.type = t]
         /\ \A i \in DOMAIN s \ {1} : [s EXCEPT ![1].type = t][i] = s[i]
<1> DEFINE f == [s EXCEPT ![1].type = t]
<1>1. DOMAIN s = 1 .. Len(s) /\ Len(s) \in Nat \ {0} /\ s[1] \in Messages
  OBVIOUS
<1>2. [s[1] EXCEPT !.type = t] \in Messages
  BY <1>1 DEF Messages
<1>3. f \in [1 .. Len(s) -> Messages]
  BY <1>1, <1>2
<1>4. f \in Seq(Messages) /\ Len(f) = Len(s)
  BY <1>1, <1>3
<1> QED
  BY <1>1, <1>3, <1>4

\* The line after a read that ended without a byte.
LEMMA UnreadFacts ==
  ASSUME NEW S, NEW s \in Seq(S), NEW t \in Unread(s)
  PROVE  t \in Seq(S) /\ (t = s \/ (s # <<>> /\ t = Tail(s)))
<1>1. CASE s = <<>>
  BY <1>1 DEF Unread
<1>2. CASE s # <<>>
  <2>1. t \in {s, Tail(s)}
    BY <1>2, Zenon DEF Unread
  <2>2. Tail(s) \in Seq(S)
    BY <1>2, TailFacts
  <2> QED
    BY <1>2, <2>1, <2>2
<1> QED
  BY <1>1, <1>2

\* The receiver's line after an error of its UART.
LEMMA AfterErrorFacts ==
  ASSUME NEW s \in Seq(Messages), NEW t \in AfterError(s)
  PROVE  /\ t \in Seq(Messages)
         /\ \/ t = s
            \/ s # <<>> /\ t = Tail(s)
            \/ s # <<>> /\ t = [s EXCEPT ![1].type = "tail"]
<1>1. CASE t \in Unread(s)
  BY <1>1, UnreadFacts
<1>2. CASE s # <<>> /\ t = [s EXCEPT ![1].type = "tail"]
  BY <1>2, SpoilFacts
<1> QED
  BY <1>1, <1>2 DEF AfterError

\* The timeouts of a setup.
LEMMA SetupFacts ==
  ASSUME TypeOK
  PROVE  setup.sTimeout \in Nat \ {0} /\ setup.rTimeout \in Nat \ {0} /\ setup.capacity \in Nat
BY DEF TypeOK

-----------------------------------------------------------------------------
\* What the sender may do: repeat, go on, end.
LEMMA TransmitType ==
  ASSUME TypeOK, Places, NEW n \in {pkt_no, pkt_no + 1}, n \in 1 .. NumPackets + 1,
         NEW tries \in 1 .. MAX_RETRANSMIT, Transmit(n, tries)
  PROVE  /\ sender' = IF n <= NumPackets THEN "packet" ELSE "eot"
         /\ pkt_no' = n /\ retransmit' = tries
         /\ toReceiver' \in Seq(Messages)
         /\ \/ toReceiver' = toReceiver
            \/ /\ Receiving
               /\ \E m \in Messages :
                    /\ toReceiver' = Append(toReceiver, m)
                    /\ m.type # "tail"
                    /\ n <= NumPackets => m.type \notin {"eot", "noise"} /\ m.seq_no = n
                    /\ n > NumPackets => m.type \in {"eot", "noise"}
<1>1. n <= NumPackets => \A m \in Packet(n) :
        /\ m \in Messages /\ m.seq_no = n /\ m.type \notin {"eot", "noise", "tail"}
  BY DEF Packet, Messages
<1>2. \A m \in EndOfPackets : m \in Messages /\ m.type \in {"eot", "noise"}
  BY DEF EndOfPackets, Messages
<1>3. toReceiver \in Seq(Messages)
  BY DEF TypeOK
<1>4. \/ toReceiver' = toReceiver
      \/ /\ Receiving
         /\ \E m \in (IF n <= NumPackets THEN Packet(n) ELSE EndOfPackets) :
              toReceiver' = Append(toReceiver, m)
  BY DEF Transmit, Transmitted
<1>5. CASE n <= NumPackets
  <2>1. /\ sender' = "packet" /\ pkt_no' = n /\ retransmit' = tries
    BY <1>5 DEF Transmit
  <2>2. CASE toReceiver' = toReceiver
    BY <1>3, <1>5, <2>1, <2>2
  <2>3. CASE Receiving /\ \E m \in Packet(n) : toReceiver' = Append(toReceiver, m)
    <3> PICK m \in Packet(n) : toReceiver' = Append(toReceiver, m)
      BY <2>3
    <3>1. m \in Messages /\ m.seq_no = n /\ m.type \notin {"eot", "noise", "tail"}
      BY <1>1, <1>5
    <3>2. toReceiver' \in Seq(Messages)
      BY <1>3, <3>1, AppendFacts
    <3>3. ~(n > NumPackets)
      BY <1>5, n \in Nat, NumPackets \in Nat
    <3> QED
      BY <1>5, <2>1, <2>3, <3>1, <3>2, <3>3
  <2> QED
    BY <1>4, <1>5, <2>2, <2>3
<1>6. CASE ~(n <= NumPackets)
  <2>1. /\ sender' = "eot" /\ pkt_no' = n /\ retransmit' = tries
    BY <1>6 DEF Transmit
  <2>2. CASE toReceiver' = toReceiver
    BY <1>3, <1>6, <2>1, <2>2
  <2>3. CASE Receiving /\ \E m \in EndOfPackets : toReceiver' = Append(toReceiver, m)
    <3> PICK m \in EndOfPackets : toReceiver' = Append(toReceiver, m)
      BY <2>3
    <3>1. m \in Messages /\ m.type \in {"eot", "noise"}
      BY <1>2
    <3>2. toReceiver' \in Seq(Messages)
      BY <1>3, <3>1, AppendFacts
    <3> QED
      BY <1>6, <2>1, <2>3, <3>1, <3>2
  <2> QED
    BY <1>4, <1>6, <2>2, <2>3
<1> QED
  BY <1>5, <1>6

\* The ways on for the sender.
LEMMA SenderCases ==
  ASSUME TypeOK, Places, NEW rsp, SenderGets(rsp)
  PROVE  /\ Sending /\ sTimer' = setup.sTimeout /\ UNCHANGED <<rVars, setup>>
         /\ \/ /\ sender = "start" /\ rsp = "C" /\ Transmit(1, MAX_RETRANSMIT)
            \/ /\ sender = "packet" /\ rsp = "ACK" /\ Transmit(pkt_no + 1, MAX_RETRANSMIT)
            \/ /\ sender = "eot" /\ rsp = "ACK" /\ sender' = "ok"
               /\ UNCHANGED <<pkt_no, retransmit, toReceiver>>
            \/ GiveUp
            \/ /\ sender = "start" /\ retransmit > 1 /\ retransmit' = retransmit - 1
               /\ UNCHANGED <<sender, pkt_no, toReceiver>>
            \/ /\ sender # "start" /\ retransmit > 1 /\ Transmit(pkt_no, retransmit - 1)
BY DEF SenderGets

\* Whatever the sender gets, its variables stay in their ranges.
LEMMA SenderType ==
  ASSUME TypeOK, Places, ReceivedIsPrefix, NEW rsp, SenderGets(rsp),
         toSender' \in Seq(Answers), crossed' \in BOOLEAN,
         uartErrors' \in 0 .. MaxUartErrors
  PROVE  TypeOK' /\ Places' /\ ReceivedIsPrefix'
<1>0. /\ Sending /\ sTimer' = setup.sTimeout /\ UNCHANGED <<rVars, setup>>
      /\ retransmit \in 1 .. MAX_RETRANSMIT /\ pkt_no \in 1 .. NumPackets + 1
      /\ NumPackets \in Nat /\ MAX_RETRANSMIT \in Nat
  BY SenderCases DEF TypeOK
<1>1. ReceivedIsPrefix'
  BY <1>0 DEF ReceivedIsPrefix
<1>2. SUFFICES /\ sender' \in {"start", "packet", "eot", "ok", "failed"}
               /\ pkt_no' \in 1 .. NumPackets + 1 /\ retransmit' \in 1 .. MAX_RETRANSMIT
               /\ toReceiver' \in Seq(Messages)
               /\ sender' = "start" => pkt_no' = 1
               /\ sender' = "packet" => pkt_no' <= NumPackets
               /\ sender' = "eot" => pkt_no' = NumPackets + 1
  BY <1>0, <1>1, SetupFacts DEF TypeOK, Places, Receiving
<1>3. CASE sender = "start" /\ Transmit(1, MAX_RETRANSMIT)
  BY <1>0, <1>3, TransmitType DEF Places
<1>4. CASE sender = "packet" /\ Transmit(pkt_no + 1, MAX_RETRANSMIT)
  BY <1>0, <1>4, TransmitType DEF Places
<1>5. CASE sender' \in {"ok", "failed"} /\ UNCHANGED <<pkt_no, retransmit, toReceiver>>
  BY <1>5 DEF TypeOK
<1>6. CASE sender # "start" /\ retransmit > 1 /\ Transmit(pkt_no, retransmit - 1)
  <2>1. retransmit - 1 \in 1 .. MAX_RETRANSMIT /\ pkt_no \in {pkt_no, pkt_no + 1}
    BY <1>0, <1>6
  <2>2. /\ sender' = IF pkt_no <= NumPackets THEN "packet" ELSE "eot"
        /\ pkt_no' = pkt_no /\ retransmit' = retransmit - 1
        /\ toReceiver' \in Seq(Messages)
    BY <1>0, <1>6, <2>1, TransmitType
  <2> QED
    BY <1>0, <2>1, <2>2
<1>7. CASE /\ sender = "start" /\ retransmit > 1 /\ retransmit' = retransmit - 1
           /\ UNCHANGED <<sender, pkt_no, toReceiver>>
  BY <1>7 DEF TypeOK, Places
<1> QED
  BY <1>3, <1>4, <1>5, <1>6, <1>7, SenderCases DEF GiveUp

-----------------------------------------------------------------------------
\* An answer reaches the sender as it is, spoilt, or not at all.
LEMMA AnsweredFacts ==
  ASSUME TypeOK, NEW cmd \in Answers, Answered(cmd)
  PROVE  /\ toSender' \in Seq(Answers)
         /\ ~Sending => toSender' = toSender
         /\ \/ toSender' = toSender
            \/ toSender' = Append(toSender, cmd)
            \/ toSender' = Append(toSender, "noise")
<1>1. toSender \in Seq(Answers) /\ "noise" \in Answers
  BY DEF TypeOK, Answers
<1> QED
  BY <1>1, AppendFacts DEF Answered

\* A rejection is an answer and no acknowledgement.
LEMMA NakFacts == Nak \in Answers /\ Nak # "ACK"
BY DEF Nak, Answers

\* The outcomes of a packet, or of another, with what has been read by then.
LEMMA ReadCases ==
  ASSUME TypeOK, ReceiverReads
  PROVE  /\ Receiving /\ toReceiver # <<>> /\ rTimer' = setup.rTimeout
         /\ UNCHANGED <<sVars, setup, uartErrors, crossed>>
         /\ \/ /\ toReceiver' = Tail(toReceiver)
               /\ \/ \E where \in {"rest", "drain"} : Await(where)
                  \/ /\ toReceiver[1].type = "whole" /\ receiver = "first"
                     /\ \/ ReadDUP /\ toReceiver[1].seq_no = exp_seq_no - 1
                        \/ /\ ReadSOH(toReceiver[1].seq_no)
                           /\ toReceiver[1].seq_no = exp_seq_no
                           /\ Len(received) < setup.capacity
                        \/ ReadCAN
                  \/ toReceiver[1].type = "eot" /\ ReadEOT /\ UNCHANGED misread
                  \/ ReadEOT /\ misread' = TRUE
                  \/ toReceiver[1].type # "tail" /\ ReadERR
                  \/ receiver = "rest" /\ ReadERR
            \/ /\ toReceiver' = [toReceiver EXCEPT ![1].type = "tail"]
               /\ receiver = "rest" /\ ReadERR
<1>1. toReceiver \in Seq(Messages)
  BY DEF TypeOK
<1>2. toReceiver # <<>> => Head(toReceiver) = toReceiver[1]
  BY <1>1, TailFacts
<1>3. ASSUME receiver = "first", ReadFirst(toReceiver[1]), toReceiver' = Tail(toReceiver)
      PROVE  \/ \E where \in {"rest", "drain"} : Await(where)
             \/ /\ toReceiver[1].type = "whole" /\ receiver = "first"
                /\ \/ ReadDUP /\ toReceiver[1].seq_no = exp_seq_no - 1
                   \/ /\ ReadSOH(toReceiver[1].seq_no)
                      /\ toReceiver[1].seq_no = exp_seq_no
                      /\ Len(received) < setup.capacity
                   \/ ReadCAN
             \/ toReceiver[1].type = "eot" /\ ReadEOT /\ UNCHANGED misread
             \/ ReadEOT /\ misread' = TRUE
             \/ toReceiver[1].type # "tail" /\ ReadERR
  BY <1>3 DEF ReadFirst, ReadByte, Check
<1>4. ASSUME receiver = "rest", ReadRest(toReceiver[1])
      PROVE  \/ /\ toReceiver' = Tail(toReceiver)
                /\ Await("rest") \/ ReadERR
             \/ /\ toReceiver' = [toReceiver EXCEPT ![1].type = "tail"]
                /\ ReadERR
  BY <1>4 DEF ReadRest
<1> QED
  BY <1>2, <1>3, <1>4 DEF ReceiverReads

\* Whatever the receiver reads, its variables stay in their ranges, and a packet
\* it accepts is the next one.
LEMMA ReceiverReadsType ==
  ASSUME TypeOK, Places, ReceivedIsPrefix, ReceiverReads
  PROVE  TypeOK' /\ Places' /\ ReceivedIsPrefix'
<1>0. /\ Receiving /\ toReceiver # <<>> /\ rTimer' = setup.rTimeout
      /\ UNCHANGED <<sVars, setup, uartErrors, crossed>>
      /\ toReceiver \in Seq(Messages) /\ toReceiver' \in Seq(Messages)
      /\ toReceiver[1] \in Messages
      /\ err_cnt \in 0 .. MAX_RX_ERRORS - 1 /\ MAX_RX_ERRORS \in Nat
      /\ received \in Seq(1 .. NumPackets) /\ exp_seq_no = Len(received) + 1
      /\ misread \in BOOLEAN /\ toSender \in Seq(Answers) /\ setup.capacity \in Nat
      /\ receiver \in {"first", "rest", "drain"}
  <2>1. toReceiver \in Seq(Messages) /\ toReceiver # <<>>
    BY ReadCases DEF TypeOK
  <2>2. toReceiver' \in Seq(Messages) /\ toReceiver[1] \in Messages
    <3>1. toReceiver[1] \in Messages /\ Tail(toReceiver) \in Seq(Messages)
      BY <2>1, TailFacts
    <3>2. [toReceiver EXCEPT ![1].type = "tail"] \in Seq(Messages)
      BY <2>1, SpoilFacts
    <3>3. \/ toReceiver' = Tail(toReceiver)
          \/ toReceiver' = [toReceiver EXCEPT ![1].type = "tail"]
      BY ReadCases
    <3> QED
      BY <3>1, <3>2, <3>3
  <2>3. /\ Receiving /\ rTimer' = setup.rTimeout
        /\ UNCHANGED <<sVars, setup, uartErrors, crossed>>
    BY ReadCases
  <2> QED
    BY <2>1, <2>2, <2>3, SetupFacts DEF TypeOK, Places, Receiving
<1>1. SUFFICES /\ receiver' \in {"first", "rest", "drain", "ok", "failed"}
               /\ received' \in Seq(1 .. NumPackets) /\ exp_seq_no' = Len(received') + 1
               /\ err_cnt' \in 0 .. MAX_RX_ERRORS
               /\ receiver' \in {"first", "rest", "drain"} => err_cnt' < MAX_RX_ERRORS
               /\ toSender' \in Seq(Answers) /\ misread' \in BOOLEAN
               /\ ReceivedIsPrefix'
  BY <1>0, SetupFacts DEF TypeOK, Places, Receiving
<1>2. CASE \E where \in {"rest", "drain"} : Await(where)
  BY <1>0, <1>2 DEF Await, ReceivedIsPrefix
<1>3. CASE ReadDUP
  BY <1>0, <1>3, AnsweredFacts DEF ReadDUP, ReceivedIsPrefix, Answers
<1>4. CASE /\ ReadSOH(toReceiver[1].seq_no) /\ toReceiver[1].seq_no = exp_seq_no
           /\ Len(received) < setup.capacity
  <2>1. toReceiver[1].seq_no \in 1 .. NumPackets
    BY <1>0, <1>4 DEF Messages
  <2>2. /\ received' \in Seq(1 .. NumPackets) /\ Len(received') = Len(received) + 1
        /\ DOMAIN received' = 1 .. Len(received) + 1
        /\ \A i \in 1 .. Len(received) : received'[i] = received[i]
        /\ received'[Len(received) + 1] = exp_seq_no
    BY <1>0, <1>4, <2>1, AppendFacts DEF ReadSOH
  <2>3. ReceivedIsPrefix'
    <3>1. Len(received) \in Nat /\ DOMAIN received = 1 .. Len(received)
      BY <1>0
    <3>2. Len(received') <= setup'.capacity
      BY <1>0, <1>4, <2>2, <3>1
    <3>3. \A i \in 1 .. Len(received) : received[i] = i
      BY <3>1 DEF ReceivedIsPrefix
    <3>4. \A i \in 1 .. Len(received) + 1 : i \in 1 .. Len(received) \/ i = Len(received) + 1
      BY <3>1
    <3>5. \A i \in DOMAIN received' : received'[i] = i
      <4>1. received'[Len(received) + 1] = Len(received) + 1
        BY <1>0, <2>2
      <4>2. ASSUME NEW i \in 1 .. Len(received) + 1
            PROVE  received'[i] = i
        <5>1. CASE i \in 1 .. Len(received)
          BY <2>2, <3>3, <5>1, Zenon
        <5>2. CASE i = Len(received) + 1
          BY <4>1, <5>2, Zenon
        <5> QED
          BY <3>4, <5>1, <5>2, Zenon
      <4> QED
        BY <2>2, <4>2, Zenon
    <3> QED
      BY <3>2, <3>5 DEF ReceivedIsPrefix
  <2> QED
    BY <1>0, <1>4, <2>2, <2>3, AnsweredFacts DEF ReadSOH, Answers
<1>5. CASE ReadCAN
  BY <1>0, <1>5, AnsweredFacts DEF ReadCAN, ReceivedIsPrefix, Answers
<1>6. CASE ReadEOT /\ (UNCHANGED misread \/ misread' = TRUE)
  <2>1. toSender' \in Seq(Answers)
    BY <1>6, AnsweredFacts DEF ReadEOT, Answers
  <2>2. misread' \in BOOLEAN
    BY <1>0, <1>6, Zenon
  <2> QED
    BY <1>0, <1>6, <2>1, <2>2 DEF ReadEOT, ReceivedIsPrefix
<1>7. CASE ReadERR
  BY <1>0, <1>7, AnsweredFacts, NakFacts DEF ReadERR, ReceivedIsPrefix
<1> QED
  BY <1>2, <1>3, <1>4, <1>5, <1>6, <1>7, ReadCases

\* The same of a timeout.
LEMMA ReceiverTimesOutType ==
  ASSUME TypeOK, Places, ReceivedIsPrefix, ReceiverTimesOut
  PROVE  TypeOK' /\ Places' /\ ReceivedIsPrefix'
<1>1. toReceiver' \in Seq(Messages)
  <2>1. toReceiver \in Seq(Messages)
    BY DEF TypeOK
  <2>2. CASE UNCHANGED toReceiver
    BY <2>1, <2>2
  <2>3. CASE toReceiver # <<>> /\ toReceiver' = Tail(toReceiver)
    BY <2>1, <2>3, TailFacts
  <2>4. CASE /\ toReceiver # <<>>
             /\ \E t \in {"tail", "headless"} : toReceiver' = [toReceiver EXCEPT ![1].type = t]
    <3> PICK t \in {"tail", "headless"} : toReceiver' = [toReceiver EXCEPT ![1].type = t]
      BY <2>4
    <3> QED
      BY <2>1, <2>4, SpoilFacts
  <2> QED
    BY <2>2, <2>3, <2>4 DEF ReceiverTimesOut
<1>2. toSender' \in Seq(Answers)
  BY AnsweredFacts, NakFacts DEF ReceiverTimesOut, ReadERR
<1>3. ReceivedIsPrefix'
  BY DEF ReceiverTimesOut, ReadERR, ReceivedIsPrefix
<1>4. crossed' \in BOOLEAN
  BY Zenon DEF ReceiverTimesOut, TypeOK
<1>5. /\ UNCHANGED <<sVars, setup, uartErrors, received, exp_seq_no, misread>>
      /\ rTimer' = setup.rTimeout /\ err_cnt' = err_cnt + 1
      /\ receiver' = IF err_cnt + 1 < MAX_RX_ERRORS THEN "first" ELSE "failed"
      /\ err_cnt \in 0 .. MAX_RX_ERRORS - 1
  BY DEF ReceiverTimesOut, ReadERR, TypeOK, Places
<1> QED
  BY <1>1, <1>2, <1>3, <1>4, <1>5, SetupFacts DEF TypeOK, Places, Receiving

\* And of an error of the UART.
LEMMA ReceiverErrsType ==
  ASSUME TypeOK, Places, ReceivedIsPrefix, ReceiverErrs
  PROVE  TypeOK' /\ Places' /\ ReceivedIsPrefix'
<1>1. toReceiver' \in Seq(Messages)
  BY AfterErrorFacts DEF ReceiverErrs, TypeOK
<1>2. toSender' \in Seq(Answers)
  BY AnsweredFacts, NakFacts DEF ReceiverErrs, ReadERR
<1>3. ReceivedIsPrefix'
  BY DEF ReceiverErrs, ReadERR, ReceivedIsPrefix
<1>4. crossed' \in BOOLEAN /\ uartErrors' \in 0 .. MaxUartErrors
  <2>1. crossed' \in BOOLEAN
    BY Zenon DEF ReceiverErrs, TypeOK
  <2>2. uartErrors' \in 0 .. MaxUartErrors
    BY DEF ReceiverErrs, TypeOK
  <2> QED
    BY <2>1, <2>2
<1>5. /\ UNCHANGED <<sVars, setup, received, exp_seq_no, misread>>
      /\ rTimer' = setup.rTimeout /\ err_cnt' = err_cnt + 1
      /\ receiver' = IF err_cnt + 1 < MAX_RX_ERRORS THEN "first" ELSE "failed"
      /\ err_cnt \in 0 .. MAX_RX_ERRORS - 1
  BY DEF ReceiverErrs, ReadERR, TypeOK, Places
<1> QED
  BY <1>1, <1>2, <1>3, <1>4, <1>5, SetupFacts DEF TypeOK, Places, Receiving

\* The bookkeeping is inductive, in turn or not.
LEMMA TypeInductive ==
  TypeOK /\ Places /\ ReceivedIsPrefix /\ [Next]_vars =>
    TypeOK' /\ Places' /\ ReceivedIsPrefix'
<1> SUFFICES ASSUME TypeOK, Places, ReceivedIsPrefix, [Next]_vars
             PROVE  TypeOK' /\ Places' /\ ReceivedIsPrefix'
  OBVIOUS
<1>0. /\ toSender \in Seq(Answers) /\ crossed \in BOOLEAN
      /\ uartErrors \in 0 .. MaxUartErrors
  BY DEF TypeOK
<1>1. CASE SenderReads
  <2>1. /\ toSender' \in Seq(Answers) /\ crossed' \in BOOLEAN
        /\ uartErrors' \in 0 .. MaxUartErrors
    BY <1>0, <1>1, TailFacts DEF SenderReads
  <2> QED
    BY <1>1, <2>1, SenderType DEF SenderReads
<1>2. CASE SenderTimesOut
  <2>1. /\ toSender' \in Seq(Answers) /\ crossed' \in BOOLEAN
        /\ uartErrors' \in 0 .. MaxUartErrors
    BY <1>0, <1>2, UnreadFacts DEF SenderTimesOut
  <2> QED
    BY <1>2, <2>1, SenderType DEF SenderTimesOut
<1>7. CASE SenderErrs
  <2>1. toSender' \in Seq(Answers)
    BY <1>0, <1>7, UnreadFacts DEF SenderErrs
  <2>2. crossed' \in BOOLEAN
    BY <1>0, <1>7, Zenon DEF SenderErrs
  <2>3. uartErrors' \in 0 .. MaxUartErrors
    BY <1>0, <1>7 DEF SenderErrs
  <2> QED
    BY <1>7, <2>1, <2>2, <2>3, SenderType DEF SenderErrs
<1>8. CASE ReceiverErrs
  BY <1>8, ReceiverErrsType
<1>3. CASE ReceiverReads
  BY <1>3, ReceiverReadsType
<1>4. CASE ReceiverTimesOut
  BY <1>4, ReceiverTimesOutType
<1>5. CASE Tick
  BY <1>5, SetupFacts DEF Tick, TypeOK, Places, ReceivedIsPrefix, Sending, Receiving
<1>6. CASE UNCHANGED vars
  BY <1>6 DEF vars, TypeOK, Places, ReceivedIsPrefix, Receiving
<1> QED
  BY <1>1, <1>2, <1>3, <1>4, <1>5, <1>6, <1>7, <1>8 DEF Next

-----------------------------------------------------------------------------
Together == OneAtATime /\ Patience /\ Agreement /\ Acknowledged

\* A line with one answer, or none.
LEMMA ShortFacts == /\ Len(<<>>) <= 1
                    /\ \A a : Len(<<a>>) <= 1
OBVIOUS

\* What is no acknowledgement.
LEMMA OtherAnswers == <<>> # <<"ACK">> /\ \A a : a # "ACK" => <<a>> # <<"ACK">>
OBVIOUS

\* The sender reads an acknowledgement.
LEMMA AckFacts ==
  ASSUME toSender \in Seq(Answers), toSender # <<>>, Len(toSender) <= 1, toSender[1] = "ACK"
  PROVE  toSender = <<"ACK">>
<1>1. Len(toSender) \in Nat \ {0}
  BY EmptySeq
<1>2. Len(toSender) = 1
  <2>1. \A n \in Nat \ {0} : n <= 1 => n = 1
    OBVIOUS
  <2> QED
    BY <1>1, <2>1, Zenon
<1>3. <<"ACK">> \in Seq(Answers) /\ Len(<<"ACK">>) = 1 /\ <<"ACK">>[1] = "ACK"
  BY DEF Answers
<1>4. \A i \in 1 .. Len(toSender) : toSender[i] = <<"ACK">>[i]
  BY <1>2, <1>3
<1> QED
  BY <1>2, <1>3, <1>4, SeqEqual

\* The sender reads an answer, or nobody answers and nobody is being asked.
LEMMA SenderTogether ==
  ASSUME TypeOK, Places, Together, NEW rsp, SenderGets(rsp),
         \/ toSender # <<>> /\ rsp = toSender[1] /\ toSender' = <<>>
         \/ /\ rsp = "none" /\ toSender' = <<>>
            /\ sTimer = 0 \/ ~(Receiving /\ SpokenTo(toReceiver))
  PROVE  Together' /\ (sender' = "ok" => receiver = "ok")
<1>0. /\ Sending /\ sTimer' = setup.sTimeout /\ UNCHANGED <<rVars, setup>>
      /\ pkt_no \in 1 .. NumPackets + 1 /\ NumPackets \in Nat /\ toReceiver \in Seq(Messages)
      /\ Len(received) \in Nat /\ retransmit \in 1 .. MAX_RETRANSMIT /\ MAX_RETRANSMIT \in Nat
  BY SenderCases DEF TypeOK
<1>1. Receiving => toReceiver = <<>> \/ (Len(toReceiver) = 1 /\ toReceiver[1].type = "tail")
  <2>1. CASE toSender # <<>>
    BY <1>0, <2>1 DEF Together, OneAtATime
  <2>2. CASE sTimer = 0
    BY <1>0, <2>2, SetupFacts DEF Together, Patience
  <2>3. CASE ~(Receiving /\ SpokenTo(toReceiver))
    <3> SUFFICES ASSUME Receiving, toReceiver # <<>>
                 PROVE  Len(toReceiver) = 1 /\ toReceiver[1].type = "tail"
      OBVIOUS
    <3>1. \A i \in DOMAIN toReceiver : toReceiver[i].type = "tail"
      BY <2>3 DEF SpokenTo
    <3>2. /\ Len(toReceiver) \in Nat \ {0} /\ DOMAIN toReceiver = 1 .. Len(toReceiver)
          /\ Len(toReceiver) <= 2
          /\ Len(toReceiver) = 2 => toReceiver[2].type # "tail"
      BY <1>0, TailFacts DEF Together, OneAtATime
    <3> QED
      BY <3>1, <3>2
  <2> QED
    BY <2>1, <2>2, <2>3
<1>2. Patience' /\ Acknowledged'
  <2>1. <<>> # <<"ACK">>
    OBVIOUS
  <2>2. toSender' = <<>>
    OBVIOUS
  <2>3. Patience'
    BY <1>0, <2>2 DEF Patience
  <2> QED
    BY <2>1, <2>2, <2>3 DEF Acknowledged
<1>3. ASSUME UNCHANGED toReceiver
      PROVE  OneAtATime'
  BY <1>0, <1>3 DEF Together, OneAtATime, Receiving
<1>4. ASSUME NEW n \in {pkt_no, pkt_no + 1}, n \in 1 .. NumPackets + 1,
             NEW tries \in 1 .. MAX_RETRANSMIT, Transmit(n, tries),
             toReceiver = <<>> \/ (n = pkt_no /\ sender # "start"),
             n = pkt_no => sender # "start" \/ (received = <<>> /\ n = 1 /\ receiver # "ok"),
             n = pkt_no + 1 => Len(received) = pkt_no /\ sender = "packet"
      PROVE  OneAtATime' /\ Agreement' /\ sender' # "ok"
  <2>1. /\ sender' = (IF n <= NumPackets THEN "packet" ELSE "eot")
        /\ pkt_no' = n
    BY <1>4, TransmitType
  <2>2. \/ toReceiver' = toReceiver
        \/ \E m \in Messages :
             /\ Receiving
             /\ toReceiver' = Append(toReceiver, m)
             /\ m.type # "tail"
             /\ n <= NumPackets => m.type \notin {"eot", "noise"} /\ m.seq_no = n
             /\ n > NumPackets => m.type \in {"eot", "noise"}
    BY <1>4, TransmitType
  <2>3. OneAtATime'
    <3>1. CASE toReceiver' = toReceiver
      BY <1>3, <3>1
    <3>2. CASE \E m \in Messages :
                 /\ Receiving
                 /\ toReceiver' = Append(toReceiver, m)
                 /\ m.type # "tail"
      <4> PICK m \in Messages : /\ Receiving
                                /\ toReceiver' = Append(toReceiver, m)
                                /\ m.type # "tail"
        BY <3>2
      <4>1. CASE toReceiver = <<>>
        BY <1>0, <4>1, AppendFacts DEF OneAtATime, Receiving
      <4>2. CASE Len(toReceiver) = 1 /\ toReceiver[1].type = "tail"
        <5>1. /\ Len(toReceiver') = 2 /\ toReceiver'[1] = toReceiver[1] /\ toReceiver'[2] = m
              /\ toReceiver' # <<>> /\ toReceiver # <<>>
          <6>1. toReceiver # <<>> /\ DOMAIN toReceiver = 1 .. 1
            BY <1>0, <4>2
          <6>2. /\ Len(Append(toReceiver, m)) = 2 /\ Append(toReceiver, m) \in Seq(Messages)
                /\ Append(toReceiver, m)[1] = toReceiver[1] /\ Append(toReceiver, m)[2] = m
            <7>1. 1 \in 1 .. 1 /\ 1 + 1 = 2
              OBVIOUS
            <7>2. /\ Append(toReceiver, m) \in Seq(Messages)
                  /\ Len(Append(toReceiver, m)) = Len(toReceiver) + 1
                  /\ \A i \in 1 .. Len(toReceiver) : Append(toReceiver, m)[i] = toReceiver[i]
                  /\ Append(toReceiver, m)[Len(toReceiver) + 1] = m
              BY <1>0, AppendFacts
            <7> QED
              BY <4>2, <7>1, <7>2, Zenon
          <6> QED
            BY <6>1, <6>2, EmptySeq
        <5> QED
          BY <1>0, <4>2, <5>1 DEF Together, OneAtATime, Receiving
      <4> QED
        BY <1>1, <4>1, <4>2
    <3> QED
      BY <2>2, <3>1, <3>2
  <2>4. /\ n <= NumPackets => Len(received) \in {n - 1, n} /\ receiver # "ok"
        /\ n > NumPackets => Len(received) = NumPackets
    BY <1>0, <1>4 DEF Together, Agreement, Places, Sending, Acknowledged, OkMeansComplete
  <2>5. \A i \in DOMAIN toReceiver :
          /\ toReceiver[i].type = "eot" => Len(received) = NumPackets
          /\ n <= NumPackets /\ toReceiver[i].type # "tail" =>
               toReceiver[i].type \notin {"eot", "noise"} /\ toReceiver[i].seq_no = n
          /\ n > NumPackets => toReceiver[i].type \in {"eot", "noise", "tail"}
    <3>1. CASE toReceiver = <<>>
      BY <3>1
    <3>2. CASE n = pkt_no /\ sender # "start"
      BY <1>0, <3>2 DEF Together, Agreement, Places, Sending
    <3> QED
      BY <1>4, <3>1, <3>2
  <2>6. Agreement'
    <3>1. CASE toReceiver' = toReceiver
      BY <1>0, <2>1, <2>4, <2>5, <3>1 DEF Agreement
    <3>2. ASSUME NEW m \in Messages,
                 toReceiver' = Append(toReceiver, m),
                 m.type # "tail",
                 n <= NumPackets => m.type \notin {"eot", "noise"} /\ m.seq_no = n,
                 n > NumPackets => m.type \in {"eot", "noise"}
          PROVE  Agreement'
      <4>1. \A i \in DOMAIN toReceiver' :
              toReceiver'[i] = m \/ (i \in DOMAIN toReceiver /\ toReceiver'[i] = toReceiver[i])
        <5>1. DOMAIN toReceiver = 1 .. Len(toReceiver) /\ Len(toReceiver) \in Nat
          BY <1>0
        <5>2. /\ DOMAIN Append(toReceiver, m) = 1 .. Len(toReceiver) + 1
              /\ \A i \in 1 .. Len(toReceiver) : Append(toReceiver, m)[i] = toReceiver[i]
              /\ Append(toReceiver, m)[Len(toReceiver) + 1] = m
          BY <1>0, AppendFacts
        <5> QED
          <6>1. toReceiver' = Append(toReceiver, m)
            BY <3>2
          <6> HIDE DEF Messages
          <6>2. \A i \in 1 .. Len(toReceiver) + 1 :
                  i \in 1 .. Len(toReceiver) \/ i = Len(toReceiver) + 1
            BY <5>1
          <6> QED
            BY <5>1, <5>2, <6>1, <6>2
      <4> QED
        BY <1>0, <2>1, <2>4, <2>5, <3>2, <4>1 DEF Agreement
    <3> QED
      BY <2>2, <3>1, <3>2
  <2> QED
    BY <2>1, <2>3, <2>6
<1>5. CASE sender = "start" /\ rsp = "C" /\ Transmit(1, MAX_RETRANSMIT)
  <2>1. pkt_no = 1 /\ received = <<>> /\ toReceiver = <<>> /\ receiver # "ok"
    BY <1>5 DEF Together, Agreement, Places
  <2>2. OneAtATime' /\ Agreement' /\ sender' # "ok"
    <3>1. /\ 1 \in {pkt_no, pkt_no + 1} /\ 1 \in 1 .. NumPackets + 1
          /\ MAX_RETRANSMIT \in 1 .. MAX_RETRANSMIT
      BY <1>0, <2>1
    <3> QED
      BY <1>4, <1>5, <2>1, <3>1
  <2> QED
    BY <1>2, <2>2 DEF Together
<1>6. CASE sender = "packet" /\ rsp = "ACK" /\ Transmit(pkt_no + 1, MAX_RETRANSMIT)
  <2>1. toSender = <<"ACK">>
    BY <1>0, <1>6, AckFacts DEF Together, OneAtATime, TypeOK
  <2>2. Len(received) = pkt_no /\ toReceiver = <<>> /\ pkt_no + 1 \in 1 .. NumPackets + 1
    BY <1>0, <1>6, <2>1 DEF Together, Acknowledged, Places
  <2>3. /\ pkt_no + 1 \in {pkt_no, pkt_no + 1} /\ pkt_no + 1 # pkt_no
        /\ MAX_RETRANSMIT \in 1 .. MAX_RETRANSMIT
    BY <1>0
  <2>4. OneAtATime' /\ Agreement' /\ sender' # "ok"
    BY <1>4, <1>6, <2>2, <2>3
  <2> QED
    BY <1>2, <2>4 DEF Together
<1>7. ASSUME sender' \in {"ok", "failed"}, UNCHANGED <<pkt_no, retransmit, toReceiver>>
      PROVE  Together'
  BY <1>0, <1>2, <1>3, <1>7 DEF Together, Agreement
<1>10. CASE /\ sender = "eot" /\ rsp = "ACK" /\ sender' = "ok"
            /\ UNCHANGED <<pkt_no, retransmit, toReceiver>>
  <2>1. toSender = <<"ACK">>
    BY <1>0, <1>10, AckFacts DEF Together, OneAtATime, TypeOK
  <2> QED
    BY <1>0, <1>7, <1>10, <2>1 DEF Together, Acknowledged
<1>11. CASE GiveUp
  BY <1>7, <1>11 DEF GiveUp
<1>8. CASE /\ sender = "start" /\ retransmit > 1 /\ retransmit' = retransmit - 1
           /\ UNCHANGED <<sender, pkt_no, toReceiver>>
  BY <1>0, <1>2, <1>3, <1>8 DEF Together, Agreement
<1>9. CASE sender # "start" /\ retransmit > 1 /\ Transmit(pkt_no, retransmit - 1)
  <2>1. retransmit - 1 \in 1 .. MAX_RETRANSMIT
    BY <1>0, <1>9
  <2>2. pkt_no \in {pkt_no, pkt_no + 1} /\ pkt_no # pkt_no + 1
    BY <1>0
  <2>4. OneAtATime' /\ Agreement' /\ sender' # "ok"
    BY <1>0, <1>4, <1>9, <2>1, <2>2
  <2> QED
    BY <1>2, <2>4 DEF Together
<1> QED
  BY <1>5, <1>6, <1>8, <1>9, <1>10, <1>11, SenderCases

\* The receiver answers only when nothing is on its way to the sender.
LEMMA ReceiverReadsTogether ==
  ASSUME TypeOK, Places, ReceivedIsPrefix, ReceivedIsPrefix', TypeOK', Together,
         OkMeansComplete, SentMeansReceived, InTurn, InTurn', ReceiverReads
  PROVE  Together' /\ OkMeansComplete' /\ SentMeansReceived'
<1>0. /\ Receiving /\ toReceiver # <<>> /\ toReceiver \in Seq(Messages)
      /\ rTimer' = setup.rTimeout /\ UNCHANGED <<sVars, setup, uartErrors, crossed>>
      /\ ~misread /\ ~misread'
      /\ Len(toReceiver) \in {1, 2} /\ Len(received) \in Nat /\ Len(received') \in Nat
      /\ NumPackets \in Nat /\ pkt_no \in Nat
  <2>1. toReceiver # <<>> /\ toReceiver \in Seq(Messages)
    BY ReadCases DEF TypeOK
  <2>2. Len(toReceiver) \in {1, 2}
    <3>1. Len(toReceiver) \in Nat \ {0}
      BY <2>1, TailFacts
    <3>2. Len(toReceiver) <= 2
      BY ReadCases DEF Together, OneAtATime
    <3>3. \A n \in Nat \ {0} : n <= 2 => n \in {1, 2}
      OBVIOUS
    <3> QED
      BY <3>1, <3>2, <3>3, Zenon
  <2>3. /\ Receiving /\ rTimer' = setup.rTimeout
        /\ UNCHANGED <<sVars, setup, uartErrors, crossed>>
    BY ReadCases
  <2>4. Len(received) \in Nat /\ Len(received') \in Nat /\ NumPackets \in Nat /\ pkt_no \in Nat
    <3>1. /\ received \in Seq(1 .. NumPackets) /\ received' \in Seq(1 .. NumPackets)
          /\ pkt_no \in 1 .. NumPackets + 1
      BY DEF TypeOK
    <3> QED
      BY <3>1, LenProperties
  <2> QED
    BY <2>1, <2>2, <2>3, <2>4 DEF InTurn
<1>1. /\ Tail(toReceiver) \in Seq(Messages)
      /\ Len(Tail(toReceiver)) = Len(toReceiver) - 1
      /\ Len(toReceiver) = 1 <=> Tail(toReceiver) = <<>>
      /\ DOMAIN Tail(toReceiver) = 1 .. Len(toReceiver) - 1
      /\ DOMAIN toReceiver = 1 .. Len(toReceiver)
      /\ \A i \in 1 .. Len(toReceiver) - 1 : Tail(toReceiver)[i] = toReceiver[i + 1]
  BY <1>0, TailFacts
<1>2. /\ toReceiver[1].type # "tail" => Len(toReceiver) = 1
      /\ Len(toReceiver) = 2 => Tail(toReceiver)[1].type # "tail"
      /\ \A i \in DOMAIN Tail(toReceiver) :
           i + 1 \in DOMAIN toReceiver /\ Tail(toReceiver)[i] = toReceiver[i + 1]
  <2>1. Len(toReceiver) = 2 => toReceiver[1].type = "tail" /\ toReceiver[2].type # "tail"
    BY <1>0 DEF Together, OneAtATime
  <2>2. Len(toReceiver) = 2 => Tail(toReceiver)[1] = toReceiver[2]
    BY <1>1
  <2>3. \A i \in DOMAIN Tail(toReceiver) :
          i + 1 \in DOMAIN toReceiver /\ Tail(toReceiver)[i] = toReceiver[i + 1]
    BY <1>0, <1>1
  <2> QED
    BY <1>0, <2>1, <2>2, <2>3
<1>3. Patience'
  <2>1. Receiving
    BY <1>0
  <2>2. Sending' => Sending
    BY <1>0 DEF Sending
  <2> QED
    BY <1>0, <2>1, <2>2 DEF Together, Patience
<1>4. CASE toReceiver' = Tail(toReceiver) /\ \E where \in {"rest", "drain"} : Await(where)
  <2>1. /\ receiver' \in {"rest", "drain"}
        /\ UNCHANGED <<received, exp_seq_no, err_cnt, misread, toSender>>
    BY <1>4 DEF Await
  <2>2. OneAtATime'
    <3>1. /\ Len(toReceiver') <= 1
          /\ toReceiver' # <<>> => Len(toReceiver) = 2 /\ toReceiver'[1].type # "tail"
      BY <1>0, <1>1, <1>2, <1>4
    <3>2. Sending' => Len(toSender') <= 1 /\ (toSender' # <<>> => toReceiver' = <<>>)
      BY <1>0, <1>1, <1>4, <2>1 DEF Together, OneAtATime, Sending
    <3> QED
      BY <3>1, <3>2 DEF OneAtATime
  <2>3. Agreement'
    BY <1>0, <1>2, <1>4, <2>1 DEF Together, Agreement
  <2>4. Acknowledged'
    BY <1>0, <1>4, <2>1 DEF Together, Acknowledged, Sending, Receiving
  <2>5. OkMeansComplete' /\ SentMeansReceived'
    BY <1>0, <2>1 DEF OkMeansComplete, SentMeansReceived, InTurn, Receiving
  <2> QED
    BY <1>3, <2>2, <2>3, <2>4, <2>5 DEF Together
<1>5. ASSUME toReceiver[1].type # "tail", NEW cmd \in Answers, Answered(cmd)
      PROVE  /\ Sending => toSender = <<>> /\ toSender' \in {<<>>, <<cmd>>, <<"noise">>}
             /\ Sending => Len(toSender') <= 1
             /\ Sending /\ toSender' = <<"ACK">> => cmd = "ACK"
  <2>1. Sending => toSender = <<>>
    BY <1>0, <1>5 DEF Together, OneAtATime
  <2>2. Sending => toSender' \in {<<>>, <<cmd>>, <<"noise">>}
    BY <1>5, <2>1, AnsweredFacts
  <2>3. Sending => Len(toSender') <= 1
    BY <2>2, ShortFacts, Zenon
  <2>4. Sending /\ toSender' = <<"ACK">> => cmd = "ACK"
    BY <2>2
  <2> QED
    BY <2>1, <2>2, <2>3, <2>4, Zenon
\* An answer to a message that is taken off the line.
<1>6. ASSUME toReceiver' = Tail(toReceiver), toReceiver[1].type # "tail",
             NEW cmd \in Answers, Answered(cmd),
             Agreement', OkMeansComplete', cmd = "ACK" => Acknowledged'
      PROVE  Together' /\ OkMeansComplete' /\ SentMeansReceived'
  <2>1. toReceiver' = <<>>
    BY <1>0, <1>1, <1>2, <1>6
  <2>2. OneAtATime'
    <3>1. Len(toReceiver') = 0
      BY <2>1
    <3>2. Sending' => Len(toSender') <= 1
      BY <1>0, <1>5, <1>6 DEF Sending
    <3> QED
      BY <2>1, <3>1, <3>2 DEF OneAtATime
  <2>3. Acknowledged'
    BY <1>0, <1>5, <1>6 DEF Acknowledged, Sending
  <2>4. SentMeansReceived'
    BY <1>0 DEF SentMeansReceived, InTurn, Receiving
  <2> QED
    BY <1>3, <1>6, <2>2, <2>3, <2>4 DEF Together
<1>7. toReceiver[1] \in Messages
  BY <1>0, TailFacts
<1>8. CASE /\ toReceiver' = Tail(toReceiver) /\ toReceiver[1].type = "whole"
           /\ receiver = "first"
           /\ \/ ReadDUP /\ toReceiver[1].seq_no = exp_seq_no - 1
              \/ /\ ReadSOH(toReceiver[1].seq_no) /\ toReceiver[1].seq_no = exp_seq_no
                 /\ Len(received) < setup.capacity
  <2>1. /\ toReceiver' = <<>> /\ 1 \in DOMAIN toReceiver /\ exp_seq_no = Len(received) + 1
        /\ toReceiver[1].seq_no \in 0 .. NumPackets /\ receiver' = "first"
        /\ Len(received') = toReceiver[1].seq_no
        /\ Len(received) <= Len(received') /\ Len(received') \in {Len(received), Len(received) + 1}
    <3>1. exp_seq_no = Len(received) + 1 /\ exp_seq_no' = Len(received') + 1
      BY DEF TypeOK
    <3>2. toReceiver' = <<>> /\ 1 \in DOMAIN toReceiver
      BY <1>0, <1>1, <1>2, <1>8
    <3>3. toReceiver[1].seq_no \in 0 .. NumPackets
      BY <1>7 DEF Messages
    <3>4. CASE ReadDUP /\ toReceiver[1].seq_no = exp_seq_no - 1
      BY <1>0, <3>1, <3>2, <3>3, <3>4 DEF ReadDUP
    <3>5. CASE ReadSOH(toReceiver[1].seq_no) /\ toReceiver[1].seq_no = exp_seq_no
      BY <1>0, <3>1, <3>2, <3>3, <3>5 DEF ReadSOH
    <3> QED
      BY <1>8, <3>4, <3>5
  <2>2. /\ sender = "packet" => toReceiver[1].seq_no = pkt_no
        /\ sender # "start" /\ sender # "eot"
    BY <1>0, <1>8, <2>1 DEF Together, Agreement
  <2>3. Agreement'
    BY <1>0, <2>1, <2>2 DEF Agreement
  <2>4. Acknowledged'
    BY <1>0, <2>1, <2>2 DEF Acknowledged, Sending
  <2>5. OkMeansComplete'
    BY <2>1 DEF OkMeansComplete
  <2>6. Answered("ACK") /\ "ACK" \in Answers
    BY <1>8 DEF ReadDUP, ReadSOH, Answers
  <2> QED
    BY <1>6, <1>8, <2>3, <2>4, <2>5, <2>6
<1>9. CASE toReceiver' = Tail(toReceiver) /\ toReceiver[1].type = "whole" /\ ReadCAN
  <2>1. /\ "CAN" \in Answers /\ "CAN" # "ACK" /\ Answered("CAN") /\ receiver' = "failed"
        /\ UNCHANGED received /\ toReceiver' = <<>>
    BY <1>0, <1>1, <1>2, <1>9 DEF ReadCAN, Answers
  <2>2. Agreement'
    BY <1>0, <2>1 DEF Together, Agreement
  <2>3. OkMeansComplete'
    BY <2>1 DEF OkMeansComplete
  <2> QED
    BY <1>6, <1>9, <2>1, <2>2, <2>3
<1>10. CASE toReceiver' = Tail(toReceiver) /\ toReceiver[1].type = "eot" /\ ReadEOT
  <2>1. /\ "ACK" \in Answers /\ Answered("ACK") /\ receiver' = "ok"
        /\ UNCHANGED received /\ toReceiver' = <<>> /\ 1 \in DOMAIN toReceiver
    BY <1>0, <1>1, <1>2, <1>10 DEF ReadEOT, Answers
  <2>2. Len(received) = NumPackets /\ sender # "packet" /\ sender # "start"
    BY <1>0, <1>10, <2>1 DEF Together, Agreement
  <2>3. Agreement'
    BY <1>0, <2>1, <2>2 DEF Agreement
  <2>4. OkMeansComplete'
    BY <2>1, <2>2 DEF OkMeansComplete
  <2>5. Acknowledged'
    BY <1>0, <2>1, <2>2 DEF Acknowledged, Sending
  <2> QED
    BY <1>6, <1>10, <2>1, <2>3, <2>4, <2>5
<1>11. receiver = "rest" => toReceiver[1].type # "tail"
  BY <1>0 DEF Together, OneAtATime
<1>12. CASE toReceiver' = Tail(toReceiver) /\ toReceiver[1].type # "tail" /\ ReadERR
  <2>1. /\ Answered(Nak) /\ receiver' \in {"first", "failed"}
        /\ UNCHANGED received /\ toReceiver' = <<>>
    BY <1>0, <1>1, <1>2, <1>12 DEF ReadERR
  <2>2. Agreement'
    BY <1>0, <2>1 DEF Together, Agreement
  <2>3. OkMeansComplete'
    BY <2>1 DEF OkMeansComplete
  <2> QED
    BY <1>6, <1>12, <2>1, <2>2, <2>3, NakFacts
<1>13. CASE /\ toReceiver' = [toReceiver EXCEPT ![1].type = "tail"]
            /\ receiver = "rest" /\ ReadERR
  <2>1. /\ Answered(Nak) /\ receiver' \in {"first", "failed"} /\ UNCHANGED received
        /\ receiver' \in {"first", "rest", "drain"} => receiver' = "first"
    BY <1>13 DEF ReadERR
  <2>2. /\ Len(toReceiver') = 1 /\ DOMAIN toReceiver' = {1} /\ toReceiver'[1].type = "tail"
    <3>1. /\ Len(toReceiver) = 1 /\ Len(toReceiver') = Len(toReceiver)
          /\ DOMAIN toReceiver' = DOMAIN toReceiver
          /\ toReceiver'[1] = [toReceiver[1] EXCEPT !.type = "tail"]
      BY <1>0, <1>2, <1>11, <1>13, SpoilFacts
    <3>2. [toReceiver[1] EXCEPT !.type = "tail"].type = "tail"
      BY <1>7 DEF Messages
    <3>3. Len(toReceiver') = 1 /\ DOMAIN toReceiver' = 1 .. 1
      BY <1>1, <3>1
    <3> QED
      BY <3>1, <3>2, <3>3
  <2>3. OneAtATime'
    <3>1. Sending' => Len(toSender') <= 1
      BY <1>0, <1>5, <1>11, <1>13, <2>1, NakFacts DEF Sending
    <3> QED
      BY <2>1, <2>2, <3>1 DEF OneAtATime, Receiving
  <2>4. Agreement'
    <3>1. sender # "start"
      BY <1>0 DEF Together, Agreement
    <3> QED
      BY <1>0, <2>1, <2>2, <3>1 DEF Together, Agreement
  <2>5. Acknowledged'
    BY <1>0, <1>5, <1>11, <1>13, <2>1, NakFacts DEF Acknowledged, Sending
  <2>6. OkMeansComplete' /\ SentMeansReceived'
    BY <1>0, <2>1 DEF OkMeansComplete, SentMeansReceived, InTurn, Receiving
  <2> QED
    BY <1>3, <2>3, <2>4, <2>5, <2>6 DEF Together
<1> QED
  BY <1>0, <1>4, <1>8, <1>9, <1>10, <1>11, <1>12, <1>13, ReadCases

\* The receiver loses patience when nothing is on its way to anybody.
LEMMA ReceiverTimesOutTogether ==
  ASSUME TypeOK, Together, OkMeansComplete, SentMeansReceived, InTurn, InTurn',
         ReceiverTimesOut
  PROVE  Together' /\ OkMeansComplete' /\ SentMeansReceived'
<1>1. /\ Receiving /\ rTimer = 0 /\ Answered(Nak) /\ toReceiver = <<>> /\ toReceiver' = <<>>
      /\ receiver' \in {"first", "failed"}
      /\ UNCHANGED <<sVars, setup, received, misread>>
      /\ rTimer' = setup.rTimeout
  <2>1. crossed' = (crossed \/ toReceiver # <<>>) /\ ~crossed' /\ ~crossed
    BY DEF ReceiverTimesOut, InTurn
  <2>2. toReceiver = <<>>
    BY <2>1
  <2>3. toReceiver' = <<>>
    BY <2>2, Zenon DEF ReceiverTimesOut
  <2>4. /\ Receiving /\ rTimer = 0 /\ Answered(Nak) /\ receiver' \in {"first", "failed"}
        /\ UNCHANGED <<sVars, setup, received, misread>> /\ rTimer' = setup.rTimeout
    BY DEF ReceiverTimesOut, ReadERR
  <2> QED
    BY <2>2, <2>3, <2>4
<1>2. Sending => toSender = <<>>
  BY <1>1, SetupFacts DEF Together, Patience
<1>3. Sending => toSender' \in {<<>>, <<Nak>>, <<"noise">>}
  BY <1>1, <1>2, AnsweredFacts, NakFacts
<1>4. Sending => Len(toSender') <= 1 /\ toSender' # <<"ACK">>
  <2>1. Sending => Len(toSender') <= 1
    BY <1>3, ShortFacts, Zenon
  <2>2. Sending => toSender' # <<"ACK">>
    <3>1. "noise" # "ACK"
      OBVIOUS
    <3> QED
      BY <1>3, <3>1, NakFacts, OtherAnswers, Zenon
  <2> QED
    BY <2>1, <2>2
<1>5. OneAtATime'
  <2>1. Len(toReceiver') = 0
    BY <1>1
  <2> QED
    BY <1>1, <1>4, <2>1 DEF OneAtATime, Sending
<1>6. Patience'
  BY <1>1 DEF Patience
<1>7. Agreement'
  BY <1>1 DEF Together, Agreement
<1>8. Acknowledged'
  BY <1>1, <1>4 DEF Acknowledged, Sending
<1>9. OkMeansComplete' /\ SentMeansReceived'
  BY <1>1 DEF OkMeansComplete, SentMeansReceived, InTurn, Receiving
<1> QED
  BY <1>5, <1>6, <1>7, <1>8, <1>9 DEF Together

\* Its UART reports an error while nothing is on its way to the sender: what is
\* left of the message is no beginning of one.
LEMMA ReceiverErrsTogether ==
  ASSUME TypeOK, Together, OkMeansComplete, SentMeansReceived, InTurn, InTurn',
         ReceiverErrs
  PROVE  Together' /\ OkMeansComplete' /\ SentMeansReceived'
<1>1. /\ Receiving /\ Answered(Nak) /\ toSender = <<>> /\ ~SpokenTo(toReceiver')
      /\ receiver' \in {"first", "failed"}
      /\ UNCHANGED <<sVars, setup, received, misread>>
      /\ rTimer' = setup.rTimeout
  <2>1. toSender = <<>> /\ ~SpokenTo(toReceiver')
    BY DEF ReceiverErrs, InTurn
  <2> QED
    BY <2>1 DEF ReceiverErrs, ReadERR
<1>2. /\ toReceiver \in Seq(Messages) /\ toReceiver' \in Seq(Messages)
      /\ \/ toReceiver' = toReceiver
         \/ toReceiver # <<>> /\ toReceiver' = Tail(toReceiver)
         \/ toReceiver # <<>> /\ toReceiver' = [toReceiver EXCEPT ![1].type = "tail"]
  BY AfterErrorFacts DEF TypeOK, ReceiverErrs
<1>3. \A i \in DOMAIN toReceiver' : toReceiver'[i].type = "tail"
  BY <1>1 DEF SpokenTo
<1>4. toReceiver' # <<>> => toReceiver # <<>> /\ Len(toReceiver') = 1
  <2> SUFFICES ASSUME toReceiver' # <<>>
               PROVE  toReceiver # <<>> /\ Len(toReceiver') = 1
    OBVIOUS
  <2>1. Len(toReceiver') \in Nat \ {0} /\ DOMAIN toReceiver' = 1 .. Len(toReceiver')
    BY <1>2, TailFacts
  <2>2. toReceiver # <<>>
    BY <1>2
  <2>3. /\ Len(toReceiver) \in Nat /\ Len(toReceiver) <= 2
        /\ Len(toReceiver) = 2 => toReceiver[2].type # "tail"
        /\ DOMAIN toReceiver = 1 .. Len(toReceiver)
    BY <1>1, <1>2 DEF Together, OneAtATime
  <2>4. CASE toReceiver' = toReceiver
    BY <1>3, <2>1, <2>3, <2>4
  <2>5. CASE toReceiver' = Tail(toReceiver)
    <3>1. Len(Tail(toReceiver)) = Len(toReceiver) - 1
      BY <1>2, <2>2, TailFacts
    <3> QED
      BY <2>1, <2>3, <2>5, <3>1
  <2>6. CASE toReceiver' = [toReceiver EXCEPT ![1].type = "tail"]
    <3>1. /\ Len(toReceiver') = Len(toReceiver)
          /\ \A i \in DOMAIN toReceiver \ {1} : toReceiver'[i] = toReceiver[i]
      BY <1>2, <2>2, <2>6, SpoilFacts
    <3>2. Len(toReceiver) # 2
      BY <1>3, <2>1, <2>3, <3>1
    <3> QED
      BY <2>1, <2>3, <3>1, <3>2
  <2> QED
    BY <1>2, <2>2, <2>4, <2>5, <2>6
<1>5. Sending => toSender' \in {<<>>, <<Nak>>, <<"noise">>}
  BY <1>1, AnsweredFacts, NakFacts
<1>6. Sending => Len(toSender') <= 1 /\ toSender' # <<"ACK">>
  <2>1. Sending => Len(toSender') <= 1
    BY <1>5, ShortFacts, Zenon
  <2>2. Sending => toSender' # <<"ACK">>
    <3>1. "noise" # "ACK"
      OBVIOUS
    <3> QED
      BY <1>5, <3>1, NakFacts, OtherAnswers, Zenon
  <2> QED
    BY <2>1, <2>2
<1>7. OneAtATime'
  <2>1. toReceiver' # <<>> => toReceiver'[1].type = "tail"
    <3>1. toReceiver' # <<>> => 1 \in DOMAIN toReceiver'
      BY <1>2, TailFacts
    <3> QED
      BY <1>3, <3>1
  <2>2. Len(toReceiver') <= 1
    <3>1. CASE toReceiver' = <<>>
      BY <3>1, ShortFacts, Zenon
    <3>2. CASE Len(toReceiver') = 1
      BY <3>2
    <3> QED
      BY <1>4, <3>1, <3>2
  <2> QED
    BY <1>1, <1>4, <1>6, <2>1, <2>2 DEF OneAtATime, Sending, Receiving
<1>8. Patience'
  BY <1>1, <1>4 DEF Together, Patience, Sending
<1>9. Agreement'
  <2>1. sender = "start" => toReceiver' = <<>>
    BY <1>4 DEF Together, Agreement
  <2> QED
    BY <1>1, <1>3, <2>1 DEF Together, Agreement
<1>10. Acknowledged'
  BY <1>1, <1>6 DEF Acknowledged, Sending
<1>11. OkMeansComplete' /\ SentMeansReceived'
  BY <1>1 DEF OkMeansComplete, SentMeansReceived, InTurn, Receiving
<1> QED
  BY <1>7, <1>8, <1>9, <1>10, <1>11 DEF Together

-----------------------------------------------------------------------------
\* Initially the receiver has spoken, and nobody else.
LEMMA InitIInv == Init => IInv
<1> SUFFICES ASSUME Init PROVE IInv
  OBVIOUS
<1>1. <<>> \in Seq(1 .. NumPackets) /\ <<>> \in Seq(Messages) /\ Len(<<>>) = 0
  BY EmptySeq
<1>2. toSender \in Seq(Answers) /\ toSender # <<"ACK">>
  <2>1. <<>> \in Seq(Answers) /\ <<"C">> \in Seq(Answers) /\ <<"C", "C">> \in Seq(Answers)
    BY DEF Answers
  <2>2. <<>> # <<"ACK">> /\ <<"C">> # <<"ACK">> /\ <<"C", "C">> # <<"ACK">>
    OBVIOUS
  <2> QED
    BY <2>1, <2>2 DEF Init
<1>3. setup.sTimeout \in Nat /\ setup.rTimeout \in Nat /\ setup.capacity \in Nat
  BY DEF Init
<1>4. TypeOK
  <2>1. /\ 1 \in 1 .. NumPackets + 1 /\ MAX_RETRANSMIT \in 1 .. MAX_RETRANSMIT
        /\ 0 \in 0 .. MAX_RX_ERRORS /\ 1 = Len(<<>>) + 1
        /\ setup.sTimeout \in 0 .. setup.sTimeout /\ setup.rTimeout \in 0 .. setup.rTimeout
    BY <1>1, <1>3
  <2>2. crossed \in BOOLEAN /\ misread \in BOOLEAN
    BY Zenon DEF Init
  <2>3. received = <<>> /\ toReceiver = <<>> /\ uartErrors \in 0 .. MaxUartErrors
    BY DEF Init
  <2> QED
    BY <1>1, <1>2, <2>1, <2>2, <2>3, Zenon DEF Init, TypeOK
<1>5. Places /\ ReceivedIsPrefix
  BY <1>1, <1>3 DEF Init, Places, ReceivedIsPrefix
<1>6. ~crossed => toSender \in {<<>>, <<"C">>}
  BY DEF Init
<1>7. OneAtATime \/ crossed
  <2>1. ~crossed => Len(toSender) <= 1
    BY <1>6, ShortFacts, Zenon
  <2> QED
    BY <1>1, <2>1 DEF Init, OneAtATime
<1>8. Patience /\ Agreement /\ Acknowledged
  BY <1>1, <1>2 DEF Init, Patience, Agreement, Acknowledged
<1>9. OkMeansComplete /\ SentMeansReceived
  BY DEF Init, OkMeansComplete, SentMeansReceived
<1> QED
  BY <1>4, <1>5, <1>7, <1>8, <1>9 DEF IInv, InTurn

\* Every step keeps the invariant.
LEMMA NextIInv == IInv /\ [Next]_vars => IInv'
<1> SUFFICES ASSUME IInv, [Next]_vars PROVE IInv'
  OBVIOUS
<1>1. TypeOK /\ Places /\ ReceivedIsPrefix
  BY Zenon DEF IInv
<1>2. TypeOK' /\ Places' /\ ReceivedIsPrefix'
  BY <1>1, TypeInductive
<1>3. InTurn => Together /\ OkMeansComplete /\ SentMeansReceived
  BY Zenon DEF IInv, Together
<1>4. SUFFICES ASSUME InTurn'
               PROVE  Together' /\ OkMeansComplete' /\ SentMeansReceived'
  BY <1>2, Zenon DEF IInv, Together
<1>5. toSender \in Seq(Answers) /\ crossed \in BOOLEAN /\ misread \in BOOLEAN
  BY <1>1 DEF TypeOK
\* What an end says does not change what the other has reported.
<1>6. ASSUME NEW rsp, SenderGets(rsp), InTurn, Together', sender' = "ok" => receiver = "ok"
      PROVE  OkMeansComplete' /\ SentMeansReceived'
  <2>1. UNCHANGED <<rVars, setup>>
    BY <1>1, <1>6, SenderCases
  <2> QED
    BY <1>3, <1>6, <2>1 DEF OkMeansComplete, SentMeansReceived, InTurn
<1>7. CASE SenderReads
  <2>1. InTurn
    <3>1. UNCHANGED rVars
      BY <1>1, <1>7, SenderCases DEF SenderReads
    <3> QED
      BY <1>4, <1>7, <3>1 DEF SenderReads, InTurn
  <2>2. /\ toSender # <<>> /\ Head(toSender) = toSender[1] /\ toSender' = <<>>
        /\ SenderGets(toSender[1])
    <3>1. toSender # <<>> /\ Sending /\ SenderGets(Head(toSender)) /\ toSender' = Tail(toSender)
      BY <1>7 DEF SenderReads, SenderGets
    <3>2. Len(toSender) = 1
      <4>1. Len(toSender) <= 1
        BY <1>3, <2>1, <3>1 DEF Together, OneAtATime
      <4>2. Len(toSender) \in Nat \ {0}
        BY <1>5, <3>1, TailFacts
      <4>3. \A n \in Nat \ {0} : n <= 1 => n = 1
        OBVIOUS
      <4> QED
        BY <4>1, <4>2, <4>3, Zenon
    <3> QED
      BY <1>5, <3>1, <3>2, TailFacts
  <2>3. Together' /\ (sender' = "ok" => receiver = "ok")
    BY <1>1, <1>3, <2>1, <2>2, SenderTogether
  <2> QED
    BY <1>6, <2>1, <2>2, <2>3
<1>8. CASE SenderTimesOut
  <2>1. InTurn /\ toSender = <<>> /\ toSender' = <<>> /\ sTimer = 0 /\ SenderGets("none")
    <3>1. UNCHANGED rVars
      BY <1>1, <1>8, SenderCases DEF SenderTimesOut
    <3> QED
      BY <1>4, <1>5, <1>8, <3>1 DEF SenderTimesOut, Unread, InTurn
  <2>2. Together' /\ (sender' = "ok" => receiver = "ok")
    BY <1>1, <1>3, <2>1, SenderTogether
  <2> QED
    BY <1>6, <2>1, <2>2
<1>9. CASE ReceiverReads
  <2>1. InTurn
    <3>1. UNCHANGED crossed /\ (misread' = misread \/ misread' = TRUE)
      BY <1>1, <1>9, ReadCases DEF Await, ReadDUP, ReadSOH, ReadCAN, ReadERR
    <3> QED
      BY <1>4, <3>1 DEF InTurn
  <2> QED
    BY <1>1, <1>2, <1>3, <1>4, <1>9, <2>1, ReceiverReadsTogether
<1>10. CASE ReceiverTimesOut
  <2>1. InTurn
    BY <1>4, <1>5, <1>10 DEF ReceiverTimesOut, ReadERR, InTurn
  <2> QED
    BY <1>1, <1>3, <1>4, <1>10, <2>1, ReceiverTimesOutTogether
<1>13. CASE SenderErrs
  <2>1. /\ InTurn /\ toSender' = <<>> /\ SenderGets("none")
        /\ ~(Receiving /\ SpokenTo(toReceiver))
    <3>1. UNCHANGED rVars
      BY <1>1, <1>13, SenderCases DEF SenderErrs
    <3>2. crossed' = (crossed \/ toSender' # <<>> \/ (Receiving /\ SpokenTo(toReceiver)))
      BY <1>13 DEF SenderErrs
    <3>3. ~crossed /\ toSender' = <<>> /\ ~(Receiving /\ SpokenTo(toReceiver))
      BY <1>4, <3>2, Zenon DEF InTurn
    <3> QED
      BY <1>4, <1>13, <3>1, <3>3 DEF SenderErrs, InTurn
  <2>2. Together' /\ (sender' = "ok" => receiver = "ok")
    BY <1>1, <1>3, <2>1, SenderTogether
  <2> QED
    BY <1>6, <2>1, <2>2
<1>14. CASE ReceiverErrs
  <2>1. InTurn
    <3>1. crossed' = (crossed \/ toSender # <<>> \/ SpokenTo(toReceiver')) /\ UNCHANGED misread
      BY <1>14 DEF ReceiverErrs, ReadERR
    <3> QED
      BY <1>4, <3>1, Zenon DEF InTurn
  <2> QED
    BY <1>1, <1>3, <1>4, <1>14, <2>1, ReceiverErrsTogether
<1>11. CASE Tick
  <2>1. /\ UNCHANGED <<sender, pkt_no, retransmit, receiver, exp_seq_no, received,
                       err_cnt, toReceiver, toSender, setup, crossed, misread>>
        /\ Sending => toSender = <<>>
        /\ Receiving => toReceiver = <<>>
    BY <1>11 DEF Tick
  <2>2. Together /\ OkMeansComplete /\ SentMeansReceived /\ InTurn
    BY <1>3, <1>4, <2>1 DEF InTurn
  <2>3. OneAtATime' /\ Agreement' /\ Acknowledged'
    BY <2>1, <2>2 DEF Together, OneAtATime, Agreement, Acknowledged, Sending, Receiving
  <2>4. Patience'
    BY <2>1 DEF Patience, Sending, Receiving
  <2>5. OkMeansComplete' /\ SentMeansReceived'
    BY <2>1, <2>2 DEF OkMeansComplete, SentMeansReceived
  <2> QED
    BY <2>3, <2>4, <2>5 DEF Together
<1>12. CASE UNCHANGED vars
  BY <1>3, <1>4, <1>12 DEF vars, InTurn, Together, OneAtATime, Patience, Agreement, Acknowledged,
       OkMeansComplete, SentMeansReceived, Sending, Receiving
<1> QED
  BY <1>7, <1>8, <1>9, <1>10, <1>11, <1>12, <1>13, <1>14 DEF Next

\* In every reachable state the bookkeeping of both ends is right, and as long
\* as they speak in turn at most one answer is on its way, to the packet the
\* sender is waiting for, errors of the UARTs in the middle of packets included.
THEOREM Invariance == Spec => []IInv
<1>1. Init => IInv
  BY InitIInv
<1>2. IInv /\ [Next]_vars => IInv'
  BY NextIInv
<1> QED
  BY <1>1, <1>2, PTL DEF Spec

\* Whatever the line does, the receiver's buffer holds the first packets that
\* were sent, each once and in its place.
THEOREM NothingTwice == Spec => []ReceivedIsPrefix
<1>1. IInv => ReceivedIsPrefix
  BY Zenon DEF IInv
<1> QED
  BY <1>1, Invariance, PTL

\* The receiver reports a package only if all of it has arrived, unless an end
\* has spoken out of turn or a byte of a packet passed for the end.
THEOREM ReportsComplete == Spec => []OkMeansComplete
<1>1. IInv => OkMeansComplete
  BY Zenon DEF IInv, InTurn, OkMeansComplete
<1> QED
  BY <1>1, Invariance, PTL

\* Under the same condition the sender reports success only if the receiver
\* has the package.
THEOREM ReportsReceived == Spec => []SentMeansReceived
<1>1. IInv => SentMeansReceived
  BY Zenon DEF IInv, InTurn, SentMeansReceived
<1> QED
  BY <1>1, Invariance, PTL
=============================================================================
