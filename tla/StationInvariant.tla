-------------------------- MODULE StationInvariant --------------------------
(***************************************************************************)
(* The inductive invariant of Station.  What it adds to the properties of  *)
(* Station.tla is bookkeeping: which tick a counter or a sum has already   *)
(* accounted for, and which one is still owed, at every step of main().    *)
(***************************************************************************)
EXTENDS Station

One(condition) == IF condition THEN 1 ELSE 0

\* The cycle of the last tick has not got past the given steps yet.
Owed(steps) == update_state = "UPDATE_REQUEST" /\ pc \in steps

OwesDS18B20 == Owed({"load", "test", "ds18b20"})
OwesBMP280 == Owed({"load", "test", "ds18b20", "bmp280"})
OwesConnect == Owed({"load", "test", "ds18b20", "bmp280", "dht11", "esp",
                     "connect", "connected"})
OwesESP == Owed({"load", "test", "ds18b20", "bmp280", "dht11", "esp",
                 "await", "send"})

\* The BMP280 has been read in this cycle, the uplink not yet served.
Sampled == pc \in {"dht11", "esp", "connect", "connected", "await", "send",
                   "sent"}

\* The request stands until the end of the cycle that answers it.
RequestStands ==
  /\ pc \notin {"load", "test"} => update_state = "UPDATE_REQUEST"
  /\ pc = "test" /\ seen = "UPDATE_REQUEST" => update_state = "UPDATE_REQUEST"

\* Each counter counts in one uplink state and is zero in the others.
CountersRest ==
  /\ ESP_state # "IDLE" => server_update_counter = 0
  /\ ESP_state # "AWAIT_FOR_CONNECTION" => counter = 0

\* The ticks since the last upload, and since the last connection request,
\* are at least those the counters have counted ...
LowerBounds ==
  /\ ESP_state = "IDLE" => sinceSend >= server_update_counter
  /\ ESP_state = "CONNECT_TO_SERVER" => sinceSend >= IdleTicks
  /\ LinkUp => sinceSend >= IdleTicks + sinceConnect
  /\ ESP_state = "AWAIT_FOR_CONNECTION" => sinceConnect >= counter + One(OwesESP)
  /\ ESP_state = "SEND_DATA" => sinceConnect >= ConnectionTime - 1 + One(OwesESP)

\* ... and exactly those if no tick is lost.
ExactBounds ==
  punctual =>
    /\ LoopRereads
    /\ ESP_state = "IDLE" => sinceSend = server_update_counter
    /\ ESP_state = "CONNECT_TO_SERVER" => OwesConnect
    /\ ESP_state = "CONNECT_TO_SERVER" => sinceSend = IdleTicks
    /\ LinkUp => sinceSend = IdleTicks + sinceConnect
    /\ ESP_state = "AWAIT_FOR_CONNECTION" => sinceConnect = counter + One(OwesESP)
    /\ ESP_state = "SEND_DATA" /\ pc # "sent" =>
         sinceConnect = ConnectionTime - 1 + One(OwesESP)
    /\ pc = "sent" => sinceSend = 0

\* The pressure readings of the window, against the ticks counted for it.
ReadingsBMP280 ==
  LET n == meas_num["BMP280"] IN
  /\ ESP_state = "IDLE" => n + One(OwesBMP280) <= server_update_counter + 1
  /\ ESP_state = "CONNECT_TO_SERVER" => n <= IdleTicks + One(Sampled)
  /\ ESP_state = "AWAIT_FOR_CONNECTION" => n <= IdleTicks + 1 + counter + One(Sampled)
  /\ ESP_state = "SEND_DATA" => n <= ServerUpdatePeriod + One(Sampled)

\* The other sensors are never read more often than the BMP280.
ReadingsOther ==
  /\ meas_num["DHT11"] + One(pc = "dht11") <= meas_num["BMP280"]
  /\ meas_num["DS18B20"] <= meas_num["BMP280"] + One(pc = "bmp280")

\* No second goes unsampled if no tick is lost.  Two cycles make one readout
\* of the DS18B20.
ReadingsComplete ==
  punctual =>
    /\ meas_num["BMP280"] + One(OwesBMP280) >= sinceSend
    /\ 2 * meas_num["DS18B20"] + One(DS18B20_state = "GET_MEASUREMENT")
         + One(OwesDS18B20) >= sinceSend

\* Once the first cycle of a window has passed the DS18B20, its average is of
\* this window or will be after the next one; the waiting cycles are enough.
AveragesFresh ==
  LET current == meas_avg["DS18B20"] = "current"
      underway == current \/ DS18B20_state = "GET_MEASUREMENT"
  IN
  /\ Sampled => meas_avg["BMP280"] = "current"
  /\ pc \in {"bmp280", "dht11", "esp", "connect", "connected"} => underway
  /\ ESP_state = "AWAIT_FOR_CONNECTION" => underway
  /\ ESP_state = "AWAIT_FOR_CONNECTION"
       /\ pc \in {"bmp280", "dht11", "esp", "await"} => current
  /\ ESP_state = "SEND_DATA" => current

\* The inductive invariant: what the safety properties of Station follow from.
IInv ==
  /\ TypeOK
  /\ CommandMatchesState
  /\ RequestStands
  /\ CountersRest
  /\ LowerBounds
  /\ ExactBounds
  /\ ReadingsBMP280
  /\ ReadingsOther
  /\ ReadingsComplete
  /\ AveragesFresh
=============================================================================
