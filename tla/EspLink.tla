-------------------------------- MODULE EspLink --------------------------------
(***************************************************************************)
(* The upload of ESP.c, from the three static buffers it is put together   *)
(* in to the ESP module at the other end of the UART.  The link is an open *)
(* loop: nothing the module answers is read.                               *)
(*                                                                         *)
(* A text is its length; where two lengths must agree, a text is the       *)
(* lengths that must.                                                      *)
(***************************************************************************)
EXTENDS CArithmetic

CONSTANTS
  AvgTemperatures,  \* averages ESP_prepare_json() may find: BMP280, 1/100 degree
  AvgPressures,     \* ... BMP280, Pa
  AvgOutdoors,      \* ... DS18B20, its sign and integer * 100 + fraction
  AvgHumidities,    \* ... DHT11
  Losses         \* bytes of a request the module may miss

ASSUME EspAssumption ==
  /\ \A t \in AvgTemperatures : t \in Int /\ t < 10000000
  /\ \A p \in AvgPressures : p \in Nat /\ p < 1000000
  /\ \A o \in AvgOutdoors :
       o[1] \in {"POSITIVE", "NEGATIVE"} /\ o[2] \in Nat /\ o[2] < 65536
  /\ \A h \in AvgHumidities : h \in Nat /\ h < 256
  /\ Losses \subseteq Nat

VARIABLES
  next,          \* the call that comes next
  reported,      \* BMP280_meas->temperature of the last report
  temp_buffer,   \* length of the string in it
  post_buffer,   \* the request: its length, that of its payload, and the
                 \* payload length it states
  utoa_buffer,   \* the longest string the last report wrote to it
  mode,          \* the module takes commands or data
  remaining,     \* data it still expects
  connected,     \* it has a connection to the server
  delivered,     \* history: the last request reached the server as it was
  faulty,        \* history: something went wrong during this upload ...
  faultyBefore   \* ... during the one before

buffers == <<temp_buffer, post_buffer, utoa_buffer>>
module == <<mode, remaining, connected>>
vars == <<next, reported, buffers, module, delivered, faulty, faultyBefore>>

-----------------------------------------------------------------------------
ESP_MAX_POST_SIZE == 200
ESP_MAX_TEMP_SIZE == 100
ESP_MAX_UTOA_SIZE == 8

\* strlen() of the strings ESP.c is made of.
device_name == 5    \* Quark
host_address == 18  \* lowd.herokuapp.com
host_port == 2
api_path == 17      \* /api/sensors/full
CIPSTART == 19 + host_address + 2 + host_port + 2

CIPSEND(post) == 11 + Digits[post] + 2

\* Mutant: the pressure is sent in 1/100 Pa.
NumbersScaled(t, p, o, h) ==
  {UnsignedDigits(t), Digits[p * 100], Digits[o[2]], Digits[h]}

\* The lengths of the numbers utoa() writes into utoa_buffer.
Numbers(t, p, o, h) == {UnsignedDigits(t), Digits[p], Digits[o[2]], Digits[h]}

\* Mutant: the device is named by its host and path.
ESP_prepare_jsonHost(t, p, o, h) ==
  9 + host_address + api_path + 8 + UnsignedDigits(t) + 7 + Digits[p]
    + 8 + (IF o[1] = "NEGATIVE" THEN 1 ELSE 0) + Digits[o[2]]
    + 8 + Digits[h] + 2

\* {"name":" ","Ti":" ","P":" ","To":" ","RH":" "}, and the values in between.
ESP_prepare_json(t, p, o, h) ==
  9 + device_name + 8 + UnsignedDigits(t) + 7 + Digits[p]
    + 8 + (IF o[1] = "NEGATIVE" THEN 1 ELSE 0) + Digits[o[2]]
    + 8 + Digits[h] + 2

\* Request line, Host, Content-Length, Content-Type and an empty line, then the
\* payload.
ESP_prepare_post_request(payload) ==
  [length |-> 5 + api_path + 16 + host_address + 17 + Digits[Uint8(payload)]
                + 35 + payload + 2,
   payload |-> payload,
   stated |-> Uint8(payload)]

Longest(S) == CHOOSE n \in S : \A k \in S : k <= n

\* ESP_write_string() hands a uint8_t number of bytes to the UART.
Written(length) == Uint8(length)

-----------------------------------------------------------------------------
\* The ESP module.  Data mode ends with the last byte announced and in no other
\* way; what is left of a line then is not a command.
TakeData(bytes) ==
  /\ mode = "data"
  /\ IF bytes < remaining
       THEN remaining' = remaining - bytes /\ UNCHANGED mode
       ELSE remaining' = 0 /\ mode' = "command"

\* Between two uploads the server closes a connection nothing is sent on.
TakeConnect(bytes, accepted) ==
  \/ TakeData(bytes) /\ connected' = FALSE
  \/ /\ mode = "command"
     /\ connected' = accepted
     /\ UNCHANGED <<mode, remaining>>

TakeSend(bytes, announced, kept) ==
  /\ connected' = (connected /\ kept)
  /\ \/ TakeData(bytes)
     \/ /\ mode = "command" /\ connected'
        /\ mode' = "data" /\ remaining' = announced
     \/ mode = "command" /\ ~connected' /\ UNCHANGED <<mode, remaining>>

\* In command mode a request is no command; in data mode it is sent.
TakeRequest(bytes) ==
  /\ \/ TakeData(bytes)
     \/ mode = "command" /\ UNCHANGED <<mode, remaining>>
  /\ connected' = FALSE

-----------------------------------------------------------------------------
Init ==
  /\ next = "connect"
  /\ reported = 0
  /\ temp_buffer = 0
  /\ post_buffer = [length |-> 0, payload |-> 0, stated |-> 0]
  /\ utoa_buffer = 0
  /\ mode = "command"
  /\ remaining = 0
  /\ connected = FALSE
  /\ delivered = TRUE
  /\ faulty = FALSE
  /\ faultyBefore = FALSE

ESP_connect_to_server ==
  /\ next = "connect" /\ next' = "announce"
  /\ temp_buffer' = CIPSTART
  /\ \E accepted \in BOOLEAN :
       TakeConnect(Written(temp_buffer'), accepted) /\ faulty' = ~accepted
  /\ faultyBefore' = faulty
  /\ UNCHANGED <<reported, post_buffer, utoa_buffer, delivered>>

\* Mutant: the request is announced before it is prepared.
ESP_write_tcp_send_ATEarly ==
  /\ next = "announce" /\ next' = "request"
  /\ \E t \in AvgTemperatures, p \in AvgPressures,
        o \in AvgOutdoors, h \in AvgHumidities :
       /\ reported' = t
       /\ post_buffer' = ESP_prepare_post_request(ESP_prepare_json(t, p, o, h))
  /\ temp_buffer' = CIPSEND(post_buffer.length)
  /\ \E kept \in BOOLEAN :
       /\ TakeSend(Written(temp_buffer'), post_buffer.length, kept)
       /\ faulty' = (faulty \/ ~kept)
  /\ UNCHANGED <<utoa_buffer, delivered, faultyBefore>>

\* ESP_send_measurements() up to the delay: the payload is in temp_buffer until
\* it is part of the request, then AT+CIPSEND takes its place.
ESP_write_tcp_send_AT ==
  /\ next = "announce" /\ next' = "request"
  /\ \E t \in AvgTemperatures, p \in AvgPressures,
        o \in AvgOutdoors, h \in AvgHumidities :
       /\ reported' = t
       /\ post_buffer' = ESP_prepare_post_request(ESP_prepare_json(t, p, o, h))
       /\ temp_buffer' = CIPSEND(post_buffer'.length)
       /\ utoa_buffer' = Longest(Numbers(t, p, o, h)
                                   \cup {Digits[post_buffer'.stated],
                                         Digits[post_buffer'.length]})
  /\ \E kept \in BOOLEAN :
       /\ TakeSend(Written(temp_buffer'), post_buffer'.length, kept)
       /\ faulty' = (faulty \/ ~kept)
  /\ UNCHANGED <<delivered, faultyBefore>>

\* ... and after it.  If the module needs more than the 100 ms the first bytes
\* are lost, and some may be at any time.
ESP_send_measurements ==
  /\ next = "request" /\ next' = "connect"
  /\ \E lost \in Losses :
       LET bytes == Written(post_buffer.length) - lost
       IN /\ bytes >= 0
          /\ TakeRequest(bytes)
          /\ delivered' = (/\ connected /\ mode = "data"
                           /\ lost = 0 /\ remaining = bytes
                           /\ post_buffer.stated = post_buffer.payload)
          /\ faulty' = (faulty \/ lost > 0)
  /\ UNCHANGED <<reported, buffers, faultyBefore>>

Next ==
  ESP_connect_to_server \/ ESP_write_tcp_send_AT \/ ESP_send_measurements

Spec == Init /\ [][Next]_vars

-----------------------------------------------------------------------------
TypeOK ==
  /\ next \in {"connect", "announce", "request"}
  /\ mode \in {"command", "data"}
  /\ mode = "command" <=> remaining = 0
  /\ remaining \in 0 .. ESP_MAX_POST_SIZE
  /\ connected \in BOOLEAN /\ delivered \in BOOLEAN
  /\ faulty \in BOOLEAN /\ faultyBefore \in BOOLEAN

\* Every string fits its buffer with its terminator, the payload while it is
\* in temp_buffer too, and what ESP_write_string() writes is all of it.
BuffersFit ==
  /\ temp_buffer < ESP_MAX_TEMP_SIZE /\ post_buffer.payload < ESP_MAX_TEMP_SIZE
  /\ post_buffer.length < ESP_MAX_POST_SIZE
  /\ Written(post_buffer.length) = post_buffer.length

\* "8 chars will be enough, the longest value is pressure" (ESP.c:45), unless
\* the indoor temperature is below zero: utoa() takes it for unsigned, and its
\* ten digits and terminator run over the end of utoa_buffer.
OverrunOnlyBelowZero == utoa_buffer >= ESP_MAX_UTOA_SIZE => reported < 0

\* "the data just disappear into nothingness" (ESP.c:10): a request that went
\* wrong is lost, and may leave the module waiting for data it takes from the
\* commands of the next upload, but the upload after that one finds it in
\* command mode again.
FaultCostsTwoUploads ==
  next = "connect" /\ ~delivered => faulty \/ faultyBefore
=============================================================================
