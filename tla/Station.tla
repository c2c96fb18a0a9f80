------------------------------- MODULE Station -------------------------------
(***************************************************************************)
(* The control of the station: the main loop of main.c, interrupted by the *)
(* timer callback (timer.c, main.c), and what the averages it feeds        *)
(* (average.c) are computed from.                                          *)
(*                                                                         *)
(* The main loop is a sequence of steps named by pc.  Each step holds at   *)
(* most one access to a variable the interrupt shares, so a Tick between   *)
(* two steps is any interleaving the processor can produce; the interrupt  *)
(* itself runs to completion.                                              *)
(***************************************************************************)
EXTENDS Integers

CONSTANTS
  ServerUpdatePeriod, \* SERVER_UPDATE_PERIOD, ticks between two uploads
  ConnectionTime,     \* ESP_CONNECTION_TIME, ticks the server needs to wake up
  DHT11Outcomes,      \* what DHT11_get_measurement() may return
  LoopRereads         \* TRUE: while(1) reads update_state in every iteration

Outcomes == {"valid", "error"}

\* The counters are uint16_t (the ticks) and uint8_t (the seconds of
\* waiting); the second bound keeps both from wrapping.  With a ConnectionTime
\* below 2 the state machine would take longer than ConnectionTime.
ASSUME StationAssumption ==
  /\ ConnectionTime \in Nat /\ 2 <= ConnectionTime /\ ConnectionTime < 256
  /\ ServerUpdatePeriod \in Nat
  /\ ConnectionTime < ServerUpdatePeriod /\ ServerUpdatePeriod < 65535
  /\ DHT11Outcomes # {} /\ DHT11Outcomes \subseteq Outcomes
  /\ LoopRereads \in BOOLEAN

VARIABLES
  pc,                     \* the next step of main()
  seen,                   \* the value of update_state main() tests
  update_state,           \* shared with the interrupt, not volatile
  ESP_state,              \* shared with the interrupt, not volatile
  server_update_counter,  \* static of timer_callback()
  counter,                \* static of the AWAIT_FOR_CONNECTION case
  DS18B20_state,
  DS18B20_meas,           \* "uninitialised" until the first readout
  meas_num,               \* readings summed since average_reset(), per sensor
  meas_avg,               \* where the average of each sensor comes from
  sinceSend,              \* history: ticks since the last upload
  sinceConnect,           \* history: ticks since the last connection request
  punctual                \* history: no tick has come during an update cycle

mainVars == <<pc, seen>>
espVars == <<ESP_state, counter>>
sensorVars == <<DS18B20_state, DS18B20_meas>>
averageVars == <<meas_num, meas_avg>>
history == <<sinceSend, sinceConnect, punctual>>
vars == <<mainVars, update_state, espVars, server_update_counter, sensorVars,
          averageVars, history>>

Sensors == {"BMP280", "DS18B20", "DHT11"}

Steps == {"load", "test", "ds18b20", "bmp280", "dht11", "esp", "connect",
          "connected", "await", "send", "sent", "gui", "finish"}

\* Mutant: no correction for the connection time.
IdleTicksUncorrected == ServerUpdatePeriod

\* Ticks timer_callback() counts before it requests a connection.
IdleTicks == ServerUpdatePeriod - ConnectionTime

\* history only: the ages saturate one past the largest value compared with
Aged(age, bound) == IF age > bound THEN age ELSE age + 1

Goto(from, to) == pc = from /\ pc' = to

-----------------------------------------------------------------------------
\* The state timer_init() leaves behind it, at the head of while(1).
Init ==
  /\ pc = "load"
  /\ seen = "UP_TO_DATE"
  /\ update_state = "UPDATE_REQUEST"
  /\ ESP_state = "IDLE"
  /\ server_update_counter = 0
  /\ counter = 0
  /\ DS18B20_state = "REQUEST_CONVERSION"
  /\ DS18B20_meas = "uninitialised"
  /\ meas_num = [s \in Sensors |-> 0]
  /\ meas_avg = [s \in Sensors |-> "uninitialised"]
  /\ sinceSend = 0
  /\ sinceConnect = 0
  /\ punctual = LoopRereads

\* main() spins, waiting for the next tick.
Waiting ==
  \/ pc = "load" /\ update_state = "UP_TO_DATE"
  \/ /\ pc = "test" /\ seen = "UP_TO_DATE"
     /\ LoopRereads => update_state = "UP_TO_DATE"

\* Mutant: the callback counts in every uplink state.
TickCountsAlways ==
  LET counted == server_update_counter + 1
  IN
  /\ IF Waiting THEN UNCHANGED punctual ELSE punctual' = FALSE
  /\ update_state' = "UPDATE_REQUEST"
  /\ IF counted >= IdleTicks
       THEN server_update_counter' = 0 /\ ESP_state' = "CONNECT_TO_SERVER"
       ELSE server_update_counter' = counted /\ UNCHANGED ESP_state
  /\ sinceSend' = Aged(sinceSend, ServerUpdatePeriod)
  /\ sinceConnect' = Aged(sinceConnect, ConnectionTime)
  /\ UNCHANGED <<mainVars, counter, sensorVars, averageVars>>

\* The timer interrupt: timer_callback(), called by callback_wrapper().
Tick ==
  LET counted == server_update_counter + (IF ESP_state = "IDLE" THEN 1 ELSE 0)
  IN
  /\ IF Waiting THEN UNCHANGED punctual ELSE punctual' = FALSE
  /\ update_state' = "UPDATE_REQUEST"
  /\ IF counted >= IdleTicks
       THEN server_update_counter' = 0 /\ ESP_state' = "CONNECT_TO_SERVER"
       ELSE server_update_counter' = counted /\ UNCHANGED ESP_state
  /\ sinceSend' = Aged(sinceSend, ServerUpdatePeriod)
  /\ sinceConnect' = Aged(sinceConnect, ConnectionTime)
  /\ UNCHANGED <<mainVars, counter, sensorVars, averageVars>>

-----------------------------------------------------------------------------
\* The main loop, in program order.

LoadUpdateState ==
  /\ Goto("load", "test")
  /\ seen' = update_state
  /\ UNCHANGED <<update_state, espVars, server_update_counter, sensorVars,
                 averageVars, history>>

\* Mutant: the loop tests the register it loaded on entry.
TestUpdateStateOnce ==
  /\ seen = "UPDATE_REQUEST" /\ Goto("test", "ds18b20")
  /\ UNCHANGED <<seen, update_state, espVars, server_update_counter,
                 sensorVars, averageVars, history>>

\* A build that has hoisted the load out of the loop (update_state is not
\* volatile and the loop body is empty when no update is requested) tests the
\* same register for ever: it has no step from here.
TestUpdateState ==
  /\ \/ seen = "UPDATE_REQUEST" /\ Goto("test", "ds18b20")
     \/ seen = "UP_TO_DATE" /\ LoopRereads /\ Goto("test", "load")
  /\ UNCHANGED <<seen, update_state, espVars, server_update_counter,
                 sensorVars, averageVars, history>>

\* average_update_<s>(): one more reading in the sum, and a new average.
Averaged(s) ==
  /\ meas_num' = [meas_num EXCEPT ![s] = @ + 1]
  /\ meas_avg' = [meas_avg EXCEPT ![s] = "current"]

\* Mutant: the state never moves on to GET_MEASUREMENT.
RequestConversionOnly ==
  /\ DS18B20_state = "REQUEST_CONVERSION"
  /\ UNCHANGED <<sensorVars, averageVars>>

RequestConversion ==
  /\ DS18B20_state = "REQUEST_CONVERSION"
  /\ DS18B20_state' = "GET_MEASUREMENT"
  /\ UNCHANGED <<DS18B20_meas, averageVars>>

GetMeasurement ==
  /\ DS18B20_state = "GET_MEASUREMENT"
  /\ DS18B20_state' = "REQUEST_CONVERSION"
  /\ DS18B20_meas' = "measured"
  /\ Averaged("DS18B20")

ReadDS18B20 ==
  /\ Goto("ds18b20", "bmp280")
  /\ RequestConversion \/ GetMeasurement
  /\ UNCHANGED <<seen, update_state, espVars, server_update_counter, history>>

ReadBMP280 ==
  /\ Goto("bmp280", "dht11")
  /\ Averaged("BMP280")
  /\ UNCHANGED <<seen, update_state, espVars, server_update_counter,
                 sensorVars, history>>

\* An erroneous reading leaves sum, count and average alone.
ReadDHT11 ==
  /\ Goto("dht11", "esp")
  /\ \E outcome \in DHT11Outcomes :
       \/ outcome = "valid" /\ Averaged("DHT11")
       \/ outcome = "error" /\ UNCHANGED averageVars
  /\ UNCHANGED <<seen, update_state, espVars, server_update_counter,
                 sensorVars, history>>

\* switch(ESP_state): the only read of ESP_state in the main loop.
DispatchESP ==
  /\ \/ ESP_state = "IDLE" /\ Goto("esp", "gui")
     \/ ESP_state = "CONNECT_TO_SERVER" /\ Goto("esp", "connect")
     \/ ESP_state = "AWAIT_FOR_CONNECTION" /\ Goto("esp", "await")
     \/ ESP_state = "SEND_DATA" /\ Goto("esp", "send")
  /\ UNCHANGED <<seen, update_state, espVars, server_update_counter,
                 sensorVars, averageVars, history>>

ConnectToServer ==
  /\ Goto("connect", "connected")
  /\ sinceConnect' = 0
  /\ UNCHANGED <<seen, update_state, espVars, server_update_counter,
                 sensorVars, averageVars, sinceSend, punctual>>

\* Mutant: the averages are reset when the connection is requested.
StartAwaitingResets ==
  /\ Goto("connected", "gui")
  /\ ESP_state' = "AWAIT_FOR_CONNECTION"
  /\ meas_num' = [s \in Sensors |-> 0]
  /\ UNCHANGED <<seen, update_state, counter, server_update_counter,
                 sensorVars, meas_avg, history>>

StartAwaiting ==
  /\ Goto("connected", "gui")
  /\ ESP_state' = "AWAIT_FOR_CONNECTION"
  /\ UNCHANGED <<seen, update_state, counter, server_update_counter,
                 sensorVars, averageVars, history>>

\* Mutant: one second less of waiting.
AwaitConnectionShort ==
  /\ Goto("await", "gui")
  /\ IF counter + 1 >= ConnectionTime - 2
       THEN ESP_state' = "SEND_DATA" /\ counter' = 0
       ELSE counter' = counter + 1 /\ UNCHANGED ESP_state
  /\ UNCHANGED <<seen, update_state, server_update_counter, sensorVars,
                 averageVars, history>>

AwaitConnection ==
  /\ Goto("await", "gui")
  /\ IF counter + 1 >= ConnectionTime - 1
       THEN ESP_state' = "SEND_DATA" /\ counter' = 0
       ELSE counter' = counter + 1 /\ UNCHANGED ESP_state
  /\ UNCHANGED <<seen, update_state, server_update_counter, sensorVars,
                 averageVars, history>>

SendMeasurements ==
  /\ Goto("send", "sent")
  /\ sinceSend' = 0
  /\ UNCHANGED <<seen, update_state, espVars, server_update_counter,
                 sensorVars, averageVars, sinceConnect, punctual>>

\* Mutant: average_reset() is not called.
FinishUploadKeepsSums ==
  /\ Goto("sent", "gui")
  /\ ESP_state' = "IDLE"
  /\ UNCHANGED <<seen, update_state, counter, server_update_counter,
                 sensorVars, averageVars, history>>

\* average_reset() clears the sums and the counts.  The averages themselves
\* stay where they are until a reading of the new window replaces them.
FinishUpload ==
  /\ Goto("sent", "gui")
  /\ meas_num' = [s \in Sensors |-> 0]
  /\ meas_avg' = [s \in Sensors |->
                    IF meas_avg[s] = "uninitialised" THEN "uninitialised"
                                                     ELSE "previous"]
  /\ ESP_state' = "IDLE"
  /\ UNCHANGED <<seen, update_state, counter, server_update_counter,
                 sensorVars, history>>

UpdateGUI ==
  /\ Goto("gui", "finish")
  /\ UNCHANGED <<seen, update_state, espVars, server_update_counter,
                 sensorVars, averageVars, history>>

\* A tick since the load at the head of this cycle is overwritten here.
FinishCycle ==
  /\ Goto("finish", "load")
  /\ update_state' = "UP_TO_DATE"
  /\ UNCHANGED <<seen, espVars, server_update_counter, sensorVars,
                 averageVars, history>>

Main ==
  \/ LoadUpdateState \/ TestUpdateState
  \/ ReadDS18B20 \/ ReadBMP280 \/ ReadDHT11
  \/ DispatchESP
  \/ ConnectToServer \/ StartAwaiting
  \/ AwaitConnection
  \/ SendMeasurements \/ FinishUpload
  \/ UpdateGUI \/ FinishCycle

Next == Tick \/ Main

Spec == Init /\ [][Next]_vars

\* The timer never stops, and the processor always runs main() again after an
\* interrupt.
Fairness == WF_vars(Tick) /\ WF_vars(Main)

FairSpec == Spec /\ Fairness

-----------------------------------------------------------------------------
\* Every variable stays in its range; in particular the uint16_t and uint8_t
\* counters of main.c never wrap.
TypeOK ==
  /\ pc \in Steps
  /\ seen \in {"UP_TO_DATE", "UPDATE_REQUEST"}
  /\ update_state \in {"UP_TO_DATE", "UPDATE_REQUEST"}
  /\ ESP_state \in {"IDLE", "CONNECT_TO_SERVER", "AWAIT_FOR_CONNECTION",
                    "SEND_DATA"}
  /\ server_update_counter \in 0 .. IdleTicks - 1
  /\ counter \in 0 .. ConnectionTime - 2
  /\ DS18B20_state \in {"REQUEST_CONVERSION", "GET_MEASUREMENT"}
  /\ DS18B20_meas \in {"uninitialised", "measured"}
  /\ meas_num \in [Sensors -> Nat]
  /\ meas_avg \in [Sensors -> {"uninitialised", "previous", "current"}]
  /\ sinceSend \in 0 .. ServerUpdatePeriod + 1
  /\ sinceConnect \in 0 .. ConnectionTime + 1
  /\ punctual \in BOOLEAN

\* The command main() carries out is the one the uplink state calls for, and
\* the interrupt, which may strike between the switch and the assignment that
\* ends the case, never changes ESP_state under it (main.c:199-228).
CommandMatchesState ==
  /\ pc \in {"connect", "connected"} => ESP_state = "CONNECT_TO_SERVER"
  /\ pc = "await" => ESP_state = "AWAIT_FOR_CONNECTION"
  /\ pc \in {"send", "sent"} => ESP_state = "SEND_DATA"

\* At most one reading per tick of the window, and one for the tick that was
\* pending at its start: the uint16_t meas_num of average.c cannot wrap to 0,
\* the divisor it is, however long update cycles take.
SampleBound == \A s \in Sensors : meas_num[s] <= ServerUpdatePeriod + 1

\* What is uploaded as outdoor temperature and pressure was measured in the
\* window it is reported for, although the DS18B20 is read in every other
\* cycle only (main.c:180-194, 220-224).
FreshUpload ==
  pc = "send" => meas_avg["BMP280"] = "current" /\ meas_avg["DS18B20"] = "current"

\* "Clear average values from the last SERVER_UPDATE_PERIOD" (main.c:222): no
\* humidity is uploaded twice, as the average of a window it is not from.
FreshHumidity == pc = "send" => meas_avg["DHT11"] # "previous"

\* Uploads are no closer than SERVER_UPDATE_PERIOD, and exactly that far apart
\* when no update cycle outlasts a tick: the correction for the connection
\* time (main.c:106) is right to the second.
UploadSpacing ==
  pc = "send" => /\ sinceSend >= ServerUpdatePeriod
                 /\ punctual => sinceSend = ServerUpdatePeriod

\* The server is given ESP_CONNECTION_TIME seconds to wake up, even if some
\* ticks were lost, and no more when none can be (main.c:203-219).
ConnectionWait ==
  pc = "send" => /\ sinceConnect >= ConnectionTime
                 /\ punctual => sinceConnect = ConnectionTime

\* With punctual cycles no second of the window goes unsampled: a pressure
\* reading for every tick, an outdoor temperature for every second one.
FullWindow ==
  pc = "send" /\ punctual =>
    /\ meas_num["BMP280"] >= ServerUpdatePeriod
    /\ meas_num["DS18B20"] >= ServerUpdatePeriod \div 2

\* The two writers of ESP_state, main() and the interrupt, together move it
\* from one state to the next and never anywhere else.
UplinkSuccessor ==
  [ IDLE |-> "CONNECT_TO_SERVER",
    CONNECT_TO_SERVER |-> "AWAIT_FOR_CONNECTION",
    AWAIT_FOR_CONNECTION |-> "SEND_DATA",
    SEND_DATA |-> "IDLE" ]

UplinkInOrder ==
  [][ESP_state' # ESP_state => ESP_state' = UplinkSuccessor[ESP_state]]_ESP_state

\* The station goes on uploading (ESP.c:16, "The measurement is sent to the
\* server every hour").
UploadsRecur == []<><<SendMeasurements>>_vars

-----------------------------------------------------------------------------
\* The promise to the server: the link is up from the connection request to
\* the upload, whatever ESP_state main() has stored in between.
LinkUp ==
  /\ pc # "sent"
  /\ pc = "connected" \/ ESP_state \in {"AWAIT_FOR_CONNECTION", "SEND_DATA"}

Server == INSTANCE Uplink WITH
  Period <- ServerUpdatePeriod,
  punctual <- punctual,
  sinceUpload <- sinceSend,
  sinceRequest <- sinceConnect,
  link <- IF LinkUp THEN "up" ELSE "down"

ImplementsUplink == Server!Spec
=============================================================================
