---------------------------- MODULE StationProofs ----------------------------
(***************************************************************************)
(* What Station guarantees for every ServerUpdatePeriod, ConnectionTime,   *)
(* DHT11Outcomes, for punctual and for overrunning cycles and for both     *)
(* builds.  IInv is shown to hold initially and to be preserved by every   *)
(* action; the properties follow from it.                                  *)
(***************************************************************************)
EXTENDS StationInvariant, TLAPS

USE DEF vars, mainVars, espVars, sensorVars, averageVars, history

-----------------------------------------------------------------------------
\* IInv holds when main() enters its loop.
LEMMA InitIInv == Init => IInv
  <1> SUFFICES ASSUME Init PROVE IInv
    OBVIOUS
  <1> USE StationAssumption DEF Init, IdleTicks, Sensors, Steps
  <1>1. TypeOK
    BY DEF TypeOK
  <1>2. CommandMatchesState /\ RequestStands /\ CountersRest
    BY DEF CommandMatchesState, RequestStands, CountersRest
  <1>3. LowerBounds /\ ExactBounds
    BY DEF LowerBounds, ExactBounds, LinkUp
  <1>4. ReadingsBMP280 /\ ReadingsOther /\ ReadingsComplete
    BY DEF ReadingsBMP280, ReadingsOther, ReadingsComplete, One, OwesBMP280,
           OwesDS18B20, Owed, Sampled
  <1>5. AveragesFresh
    BY DEF AveragesFresh, Sampled
  <1>6. QED
    BY <1>1, <1>2, <1>3, <1>4, <1>5 DEF IInv

\* The interrupt, between any two steps of main(): a tick is counted on both
\* sides of every bound, or makes an inequality weaker.
LEMMA TickIInv == IInv /\ Tick => IInv'
  <1> SUFFICES ASSUME IInv, Tick PROVE IInv'
    OBVIOUS
  <1>a. punctual' \in BOOLEAN
    BY Zenon DEF IInv, TypeOK, Tick
  <1>b. punctual' => punctual /\ Waiting
    BY Zenon DEF IInv, TypeOK, Tick
  <1> USE StationAssumption DEF IInv, TypeOK, Tick, IdleTicks, Aged
  <1>1. TypeOK'
    BY <1>a DEF Steps, Sensors
  <1>2. CommandMatchesState' /\ RequestStands' /\ CountersRest'
    BY DEF CommandMatchesState, RequestStands, CountersRest
  <1>3. LowerBounds'
    BY DEF LowerBounds, LinkUp, OwesESP, Owed, One, CountersRest,
           CommandMatchesState
  <1>4. ExactBounds'
    <2>1. CASE punctual'
      BY <1>b, <2>1 DEF ExactBounds, LinkUp, OwesESP, OwesConnect, Owed, One,
         CountersRest, CommandMatchesState, Waiting
    <2>2. CASE ~punctual'
      BY <2>2 DEF ExactBounds
    <2>3. QED
      BY <2>1, <2>2
  <1>5. ReadingsBMP280'
    BY DEF ReadingsBMP280, OwesBMP280, Owed, Sampled, One, CountersRest, Sensors
  <1>6. ReadingsOther'
    BY DEF ReadingsOther, One
  <1>7. ReadingsComplete'
    <2>1. CASE punctual'
      BY <1>b, <2>1 DEF ReadingsComplete, ExactBounds, OwesBMP280, OwesDS18B20, Owed, One,
         Sensors, Waiting
    <2>2. CASE ~punctual'
      BY <2>2 DEF ReadingsComplete
    <2>3. QED
      BY <2>1, <2>2
  <1>8. AveragesFresh'
    BY DEF AveragesFresh, Sampled, CountersRest
  <1>9. QED
    BY <1>1, <1>2, <1>3, <1>4, <1>5, <1>6, <1>7, <1>8 DEF IInv

\* The register takes the value the variable has: a request it sees stands.
LEMMA LoadUpdateStateIInv == IInv /\ LoadUpdateState => IInv'
  <1> SUFFICES ASSUME IInv, LoadUpdateState PROVE IInv'
    OBVIOUS
  <1> USE StationAssumption
      DEF IInv, TypeOK, LoadUpdateState, Goto, IdleTicks
  <1>1. TypeOK'
    BY DEF Steps, Sensors
  <1>2. CommandMatchesState' /\ RequestStands' /\ CountersRest'
    BY DEF CommandMatchesState, RequestStands, CountersRest
  <1>3. LowerBounds'
    BY DEF LowerBounds, LinkUp, OwesESP, Owed, One, CountersRest,
           CommandMatchesState, RequestStands
  <1>4. ExactBounds'
    BY DEF ExactBounds, LinkUp, OwesESP, OwesConnect, Owed, One, CountersRest,
           CommandMatchesState, RequestStands
  <1>5. ReadingsBMP280'
    BY DEF ReadingsBMP280, OwesBMP280, Owed, Sampled, One, CountersRest,
           CommandMatchesState, RequestStands, Sensors
  <1>6. ReadingsOther'
    BY DEF ReadingsOther, One, Sensors
  <1>7. ReadingsComplete'
    BY DEF ReadingsComplete, ExactBounds, OwesBMP280, OwesDS18B20, Owed, One,
           Sensors, RequestStands
  <1>8. AveragesFresh'
    BY DEF AveragesFresh, Sampled, CommandMatchesState, Sensors
  <1>9. QED
    BY <1>1, <1>2, <1>3, <1>4, <1>5, <1>6, <1>7, <1>8 DEF IInv

\* A requested cycle begins; every debt of the last tick is still open.
LEMMA TestUpdateStateIInv == IInv /\ TestUpdateState => IInv'
  <1> SUFFICES ASSUME IInv, TestUpdateState PROVE IInv'
    OBVIOUS
  <1> USE StationAssumption
      DEF IInv, TypeOK, TestUpdateState, Goto, IdleTicks
  <1>1. TypeOK'
    BY DEF Steps, Sensors
  <1>2. CommandMatchesState' /\ RequestStands' /\ CountersRest'
    BY DEF CommandMatchesState, RequestStands, CountersRest
  <1>3. LowerBounds'
    BY DEF LowerBounds, LinkUp, OwesESP, Owed, One, CountersRest,
           CommandMatchesState, RequestStands
  <1>4. ExactBounds'
    BY DEF ExactBounds, LinkUp, OwesESP, OwesConnect, Owed, One, CountersRest,
           CommandMatchesState, RequestStands
  <1>5. ReadingsBMP280'
    BY DEF ReadingsBMP280, OwesBMP280, Owed, Sampled, One, CountersRest,
           CommandMatchesState, RequestStands, Sensors
  <1>6. ReadingsOther'
    BY DEF ReadingsOther, One, Sensors
  <1>7. ReadingsComplete'
    BY DEF ReadingsComplete, ExactBounds, OwesBMP280, OwesDS18B20, Owed, One,
           Sensors, RequestStands
  <1>8. AveragesFresh'
    BY DEF AveragesFresh, Sampled, CommandMatchesState, Sensors
  <1>9. QED
    BY <1>1, <1>2, <1>3, <1>4, <1>5, <1>6, <1>7, <1>8 DEF IInv

\* One half of a DS18B20 readout, whichever is due.
LEMMA ReadDS18B20IInv == IInv /\ ReadDS18B20 => IInv'
  <1> SUFFICES ASSUME IInv, ReadDS18B20 PROVE IInv'
    OBVIOUS
  <1> USE StationAssumption
      DEF IInv, TypeOK, ReadDS18B20, Goto, IdleTicks, RequestConversion, GetMeasurement, Averaged
  <1>1. TypeOK'
    BY DEF Steps, Sensors
  <1>2. CommandMatchesState' /\ RequestStands' /\ CountersRest'
    BY DEF CommandMatchesState, RequestStands, CountersRest
  <1>3. LowerBounds'
    BY DEF LowerBounds, LinkUp, OwesESP, Owed, One, CountersRest,
           CommandMatchesState, RequestStands
  <1>4. ExactBounds'
    BY DEF ExactBounds, LinkUp, OwesESP, OwesConnect, Owed, One, CountersRest,
           CommandMatchesState, RequestStands
  <1>5. ReadingsBMP280'
    BY DEF ReadingsBMP280, OwesBMP280, Owed, Sampled, One, CountersRest,
           CommandMatchesState, RequestStands, Sensors
  <1>6. ReadingsOther'
    BY DEF ReadingsOther, One, Sensors
  <1>7. ReadingsComplete'
    BY DEF ReadingsComplete, ExactBounds, OwesBMP280, OwesDS18B20, Owed, One,
           Sensors, RequestStands
  <1>8. AveragesFresh'
    BY DEF AveragesFresh, Sampled, CommandMatchesState, Sensors
  <1>9. QED
    BY <1>1, <1>2, <1>3, <1>4, <1>5, <1>6, <1>7, <1>8 DEF IInv

\* The pressure reading owed to the last tick is taken.
LEMMA ReadBMP280IInv == IInv /\ ReadBMP280 => IInv'
  <1> SUFFICES ASSUME IInv, ReadBMP280 PROVE IInv'
    OBVIOUS
  <1> USE StationAssumption
      DEF IInv, TypeOK, ReadBMP280, Goto, IdleTicks, Averaged
  <1>1. TypeOK'
    BY DEF Steps, Sensors
  <1>2. CommandMatchesState' /\ RequestStands' /\ CountersRest'
    BY DEF CommandMatchesState, RequestStands, CountersRest
  <1>3. LowerBounds'
    BY DEF LowerBounds, LinkUp, OwesESP, Owed, One, CountersRest,
           CommandMatchesState, RequestStands
  <1>4. ExactBounds'
    BY DEF ExactBounds, LinkUp, OwesESP, OwesConnect, Owed, One, CountersRest,
           CommandMatchesState, RequestStands
  <1>5. ReadingsBMP280'
    BY DEF ReadingsBMP280, OwesBMP280, Owed, Sampled, One, CountersRest,
           CommandMatchesState, RequestStands, Sensors
  <1>6. ReadingsOther'
    BY DEF ReadingsOther, One, Sensors
  <1>7. ReadingsComplete'
    BY DEF ReadingsComplete, ExactBounds, OwesBMP280, OwesDS18B20, Owed, One,
           Sensors, RequestStands
  <1>8. AveragesFresh'
    BY DEF AveragesFresh, Sampled, CommandMatchesState, Sensors
  <1>9. QED
    BY <1>1, <1>2, <1>3, <1>4, <1>5, <1>6, <1>7, <1>8 DEF IInv

\* A humidity reading, or none.
LEMMA ReadDHT11IInv == IInv /\ ReadDHT11 => IInv'
  <1> SUFFICES ASSUME IInv, ReadDHT11 PROVE IInv'
    OBVIOUS
  <1> USE StationAssumption
      DEF IInv, TypeOK, ReadDHT11, Goto, IdleTicks, Outcomes, Averaged
  <1>1. TypeOK'
    BY DEF Steps, Sensors
  <1>2. CommandMatchesState' /\ RequestStands' /\ CountersRest'
    BY DEF CommandMatchesState, RequestStands, CountersRest
  <1>3. LowerBounds'
    BY DEF LowerBounds, LinkUp, OwesESP, Owed, One, CountersRest,
           CommandMatchesState, RequestStands
  <1>4. ExactBounds'
    BY DEF ExactBounds, LinkUp, OwesESP, OwesConnect, Owed, One, CountersRest,
           CommandMatchesState, RequestStands
  <1>5. ReadingsBMP280'
    BY DEF ReadingsBMP280, OwesBMP280, Owed, Sampled, One, CountersRest,
           CommandMatchesState, RequestStands, Sensors
  <1>6. ReadingsOther'
    BY DEF ReadingsOther, One, Sensors
  <1>7. ReadingsComplete'
    BY DEF ReadingsComplete, ExactBounds, OwesBMP280, OwesDS18B20, Owed, One,
           Sensors, RequestStands
  <1>8. AveragesFresh'
    BY DEF AveragesFresh, Sampled, CommandMatchesState, Sensors
  <1>9. QED
    BY <1>1, <1>2, <1>3, <1>4, <1>5, <1>6, <1>7, <1>8 DEF IInv

\* The command chosen is the one ESP_state calls for.
LEMMA DispatchESPIInv == IInv /\ DispatchESP => IInv'
  <1> SUFFICES ASSUME IInv, DispatchESP PROVE IInv'
    OBVIOUS
  <1> USE StationAssumption
      DEF IInv, TypeOK, DispatchESP, Goto, IdleTicks
  <1>1. TypeOK'
    BY DEF Steps, Sensors
  <1>2. CommandMatchesState' /\ RequestStands' /\ CountersRest'
    BY DEF CommandMatchesState, RequestStands, CountersRest
  <1>3. LowerBounds'
    BY DEF LowerBounds, LinkUp, OwesESP, Owed, One, CountersRest,
           CommandMatchesState, RequestStands
  <1>4. ExactBounds'
    BY DEF ExactBounds, LinkUp, OwesESP, OwesConnect, Owed, One, CountersRest,
           CommandMatchesState, RequestStands
  <1>5. ReadingsBMP280'
    BY DEF ReadingsBMP280, OwesBMP280, Owed, Sampled, One, CountersRest,
           CommandMatchesState, RequestStands, Sensors
  <1>6. ReadingsOther'
    BY DEF ReadingsOther, One, Sensors
  <1>7. ReadingsComplete'
    BY DEF ReadingsComplete, ExactBounds, OwesBMP280, OwesDS18B20, Owed, One,
           Sensors, RequestStands
  <1>8. AveragesFresh'
    BY DEF AveragesFresh, Sampled, CommandMatchesState, Sensors
  <1>9. QED
    BY <1>1, <1>2, <1>3, <1>4, <1>5, <1>6, <1>7, <1>8 DEF IInv

\* The link comes up, with a sinceConnect of zero.
LEMMA ConnectToServerIInv == IInv /\ ConnectToServer => IInv'
  <1> SUFFICES ASSUME IInv, ConnectToServer PROVE IInv'
    OBVIOUS
  <1> USE StationAssumption
      DEF IInv, TypeOK, ConnectToServer, Goto, IdleTicks
  <1>1. TypeOK'
    BY DEF Steps, Sensors
  <1>2. CommandMatchesState' /\ RequestStands' /\ CountersRest'
    BY DEF CommandMatchesState, RequestStands, CountersRest
  <1>3. LowerBounds'
    BY DEF LowerBounds, LinkUp, OwesESP, Owed, One, CountersRest,
           CommandMatchesState, RequestStands
  <1>4. ExactBounds'
    BY DEF ExactBounds, LinkUp, OwesESP, OwesConnect, Owed, One, CountersRest,
           CommandMatchesState, RequestStands
  <1>5. ReadingsBMP280'
    BY DEF ReadingsBMP280, OwesBMP280, Owed, Sampled, One, CountersRest,
           CommandMatchesState, RequestStands, Sensors
  <1>6. ReadingsOther'
    BY DEF ReadingsOther, One, Sensors
  <1>7. ReadingsComplete'
    BY DEF ReadingsComplete, ExactBounds, OwesBMP280, OwesDS18B20, Owed, One,
           Sensors, RequestStands
  <1>8. AveragesFresh'
    BY DEF AveragesFresh, Sampled, CommandMatchesState, Sensors
  <1>9. QED
    BY <1>1, <1>2, <1>3, <1>4, <1>5, <1>6, <1>7, <1>8 DEF IInv

\* From CONNECT_TO_SERVER on, the waiting cycles are counted.
LEMMA StartAwaitingIInv == IInv /\ StartAwaiting => IInv'
  <1> SUFFICES ASSUME IInv, StartAwaiting PROVE IInv'
    OBVIOUS
  <1> USE StationAssumption
      DEF IInv, TypeOK, StartAwaiting, Goto, IdleTicks
  <1>1. TypeOK'
    BY DEF Steps, Sensors
  <1>2. CommandMatchesState' /\ RequestStands' /\ CountersRest'
    BY DEF CommandMatchesState, RequestStands, CountersRest
  <1>3. LowerBounds'
    BY DEF LowerBounds, LinkUp, OwesESP, Owed, One, CountersRest,
           CommandMatchesState, RequestStands
  <1>4. ExactBounds'
    BY DEF ExactBounds, LinkUp, OwesESP, OwesConnect, Owed, One, CountersRest,
           CommandMatchesState, RequestStands
  <1>5. ReadingsBMP280'
    BY DEF ReadingsBMP280, OwesBMP280, Owed, Sampled, One, CountersRest,
           CommandMatchesState, RequestStands, Sensors
  <1>6. ReadingsOther'
    BY DEF ReadingsOther, One, Sensors
  <1>7. ReadingsComplete'
    BY DEF ReadingsComplete, ExactBounds, OwesBMP280, OwesDS18B20, Owed, One,
           Sensors, RequestStands
  <1>8. AveragesFresh'
    BY DEF AveragesFresh, Sampled, CommandMatchesState, Sensors
  <1>9. QED
    BY <1>1, <1>2, <1>3, <1>4, <1>5, <1>6, <1>7, <1>8 DEF IInv

\* A waiting cycle is counted; the last one hands over to SEND_DATA.
LEMMA AwaitConnectionIInv == IInv /\ AwaitConnection => IInv'
  <1> SUFFICES ASSUME IInv, AwaitConnection PROVE IInv'
    OBVIOUS
  <1> USE StationAssumption
      DEF IInv, TypeOK, AwaitConnection, Goto, IdleTicks
  <1>1. TypeOK'
    BY DEF Steps, Sensors
  <1>2. CommandMatchesState' /\ RequestStands' /\ CountersRest'
    BY DEF CommandMatchesState, RequestStands, CountersRest
  <1>3. LowerBounds'
    BY DEF LowerBounds, LinkUp, OwesESP, Owed, One, CountersRest,
           CommandMatchesState, RequestStands
  <1>4. ExactBounds'
    BY DEF ExactBounds, LinkUp, OwesESP, OwesConnect, Owed, One, CountersRest,
           CommandMatchesState, RequestStands
  <1>5. ReadingsBMP280'
    BY DEF ReadingsBMP280, OwesBMP280, Owed, Sampled, One, CountersRest,
           CommandMatchesState, RequestStands, Sensors
  <1>6. ReadingsOther'
    BY DEF ReadingsOther, One, Sensors
  <1>7. ReadingsComplete'
    BY DEF ReadingsComplete, ExactBounds, OwesBMP280, OwesDS18B20, Owed, One,
           Sensors, RequestStands
  <1>8. AveragesFresh'
    BY DEF AveragesFresh, Sampled, CommandMatchesState, Sensors
  <1>9. QED
    BY <1>1, <1>2, <1>3, <1>4, <1>5, <1>6, <1>7, <1>8 DEF IInv

\* The upload ends the window.
LEMMA SendMeasurementsIInv == IInv /\ SendMeasurements => IInv'
  <1> SUFFICES ASSUME IInv, SendMeasurements PROVE IInv'
    OBVIOUS
  <1> USE StationAssumption
      DEF IInv, TypeOK, SendMeasurements, Goto, IdleTicks
  <1>1. TypeOK'
    BY DEF Steps, Sensors
  <1>2. CommandMatchesState' /\ RequestStands' /\ CountersRest'
    BY DEF CommandMatchesState, RequestStands, CountersRest
  <1>3. LowerBounds'
    BY DEF LowerBounds, LinkUp, OwesESP, Owed, One, CountersRest,
           CommandMatchesState, RequestStands
  <1>4. ExactBounds'
    BY DEF ExactBounds, LinkUp, OwesESP, OwesConnect, Owed, One, CountersRest,
           CommandMatchesState, RequestStands
  <1>5. ReadingsBMP280'
    BY DEF ReadingsBMP280, OwesBMP280, Owed, Sampled, One, CountersRest,
           CommandMatchesState, RequestStands, Sensors
  <1>6. ReadingsOther'
    BY DEF ReadingsOther, One, Sensors
  <1>7. ReadingsComplete'
    BY DEF ReadingsComplete, ExactBounds, OwesBMP280, OwesDS18B20, Owed, One,
           Sensors, RequestStands
  <1>8. AveragesFresh'
    BY DEF AveragesFresh, Sampled, CommandMatchesState, Sensors
  <1>9. QED
    BY <1>1, <1>2, <1>3, <1>4, <1>5, <1>6, <1>7, <1>8 DEF IInv

\* average_reset() and the return to IDLE begin the next window.
LEMMA FinishUploadIInv == IInv /\ FinishUpload => IInv'
  <1> SUFFICES ASSUME IInv, FinishUpload PROVE IInv'
    OBVIOUS
  <1> USE StationAssumption
      DEF IInv, TypeOK, FinishUpload, Goto, IdleTicks
  <1>1. TypeOK'
    BY DEF Steps, Sensors, CommandMatchesState
  <1>2. CommandMatchesState' /\ RequestStands' /\ CountersRest'
    BY DEF CommandMatchesState, RequestStands, CountersRest
  <1>3. LowerBounds'
    BY DEF LowerBounds, LinkUp, OwesESP, Owed, One, CountersRest,
           CommandMatchesState, RequestStands
  <1>4. ExactBounds'
    BY DEF ExactBounds, LinkUp, OwesESP, OwesConnect, Owed, One, CountersRest,
           CommandMatchesState, RequestStands
  <1>5. ReadingsBMP280'
    BY DEF ReadingsBMP280, OwesBMP280, Owed, Sampled, One, CountersRest,
           CommandMatchesState, RequestStands, Sensors
  <1>6. ReadingsOther'
    BY DEF ReadingsOther, One, Sensors
  <1>7. ReadingsComplete'
    BY DEF ReadingsComplete, ExactBounds, OwesBMP280, OwesDS18B20, Owed, One,
           Sensors, RequestStands
  <1>8. AveragesFresh'
    BY DEF AveragesFresh, Sampled, CommandMatchesState, Sensors
  <1>9. QED
    BY <1>1, <1>2, <1>3, <1>4, <1>5, <1>6, <1>7, <1>8 DEF IInv

\* The display is not part of the invariant.
LEMMA UpdateGUIIInv == IInv /\ UpdateGUI => IInv'
  <1> SUFFICES ASSUME IInv, UpdateGUI PROVE IInv'
    OBVIOUS
  <1> USE StationAssumption
      DEF IInv, TypeOK, UpdateGUI, Goto, IdleTicks
  <1>1. TypeOK'
    BY DEF Steps, Sensors
  <1>2. CommandMatchesState' /\ RequestStands' /\ CountersRest'
    BY DEF CommandMatchesState, RequestStands, CountersRest
  <1>3. LowerBounds'
    BY DEF LowerBounds, LinkUp, OwesESP, Owed, One, CountersRest,
           CommandMatchesState, RequestStands
  <1>4. ExactBounds'
    BY DEF ExactBounds, LinkUp, OwesESP, OwesConnect, Owed, One, CountersRest,
           CommandMatchesState, RequestStands
  <1>5. ReadingsBMP280'
    BY DEF ReadingsBMP280, OwesBMP280, Owed, Sampled, One, CountersRest,
           CommandMatchesState, RequestStands, Sensors
  <1>6. ReadingsOther'
    BY DEF ReadingsOther, One, Sensors
  <1>7. ReadingsComplete'
    BY DEF ReadingsComplete, ExactBounds, OwesBMP280, OwesDS18B20, Owed, One,
           Sensors, RequestStands
  <1>8. AveragesFresh'
    BY DEF AveragesFresh, Sampled, CommandMatchesState, Sensors
  <1>9. QED
    BY <1>1, <1>2, <1>3, <1>4, <1>5, <1>6, <1>7, <1>8 DEF IInv

\* The request is withdrawn; nothing is owed any more.
LEMMA FinishCycleIInv == IInv /\ FinishCycle => IInv'
  <1> SUFFICES ASSUME IInv, FinishCycle PROVE IInv'
    OBVIOUS
  <1> USE StationAssumption
      DEF IInv, TypeOK, FinishCycle, Goto, IdleTicks
  <1>1. TypeOK'
    BY DEF Steps, Sensors
  <1>2. CommandMatchesState' /\ RequestStands' /\ CountersRest'
    BY DEF CommandMatchesState, RequestStands, CountersRest
  <1>3. LowerBounds'
    BY DEF LowerBounds, LinkUp, OwesESP, Owed, One, CountersRest,
           CommandMatchesState, RequestStands
  <1>4. ExactBounds'
    BY DEF ExactBounds, LinkUp, OwesESP, OwesConnect, Owed, One, CountersRest,
           CommandMatchesState, RequestStands
  <1>5. ReadingsBMP280'
    BY DEF ReadingsBMP280, OwesBMP280, Owed, Sampled, One, CountersRest,
           CommandMatchesState, RequestStands, Sensors
  <1>6. ReadingsOther'
    BY DEF ReadingsOther, One, Sensors
  <1>7. ReadingsComplete'
    BY DEF ReadingsComplete, ExactBounds, OwesBMP280, OwesDS18B20, Owed, One,
           Sensors, RequestStands
  <1>8. AveragesFresh'
    BY DEF AveragesFresh, Sampled, CommandMatchesState, Sensors
  <1>9. QED
    BY <1>1, <1>2, <1>3, <1>4, <1>5, <1>6, <1>7, <1>8 DEF IInv

-----------------------------------------------------------------------------
\* IInv is preserved by every step, and by none at all.
LEMMA NextIInv == IInv /\ [Next]_vars => IInv'
  <1> SUFFICES ASSUME IInv, [Next]_vars PROVE IInv'
    OBVIOUS
  <1>1. CASE Tick
    BY <1>1, TickIInv
  <1>2. CASE LoadUpdateState
    BY <1>2, LoadUpdateStateIInv
  <1>3. CASE TestUpdateState
    BY <1>3, TestUpdateStateIInv
  <1>4. CASE ReadDS18B20
    BY <1>4, ReadDS18B20IInv
  <1>5. CASE ReadBMP280
    BY <1>5, ReadBMP280IInv
  <1>6. CASE ReadDHT11
    BY <1>6, ReadDHT11IInv
  <1>7. CASE DispatchESP
    BY <1>7, DispatchESPIInv
  <1>8. CASE ConnectToServer
    BY <1>8, ConnectToServerIInv
  <1>9. CASE StartAwaiting
    BY <1>9, StartAwaitingIInv
  <1>10. CASE AwaitConnection
    BY <1>10, AwaitConnectionIInv
  <1>11. CASE SendMeasurements
    BY <1>11, SendMeasurementsIInv
  <1>12. CASE FinishUpload
    BY <1>12, FinishUploadIInv
  <1>13. CASE UpdateGUI
    BY <1>13, UpdateGUIIInv
  <1>14. CASE FinishCycle
    BY <1>14, FinishCycleIInv
  <1>15. CASE UNCHANGED vars
    BY <1>15 DEF IInv, TypeOK, CommandMatchesState, RequestStands, CountersRest,
       LowerBounds, ExactBounds, ReadingsBMP280, ReadingsOther,
       ReadingsComplete, AveragesFresh, LinkUp, OwesESP, OwesConnect,
       OwesBMP280, OwesDS18B20, Owed, Sampled, One
  <1>16. QED
    BY <1>1, <1>2, <1>3, <1>4, <1>5, <1>6, <1>7, <1>8, <1>9, <1>10, <1>11, <1>12, <1>13, <1>14, <1>15 DEF Next, Main

\* IInv is an invariant of the station.
THEOREM Invariance == Spec => []IInv
  BY InitIInv, NextIInv, PTL DEF Spec

\* Every variable stays in its range, so none of the counters wraps.
THEOREM TypeCorrect == Spec => []TypeOK
  <1>1. IInv => TypeOK
    BY DEF IInv
  <1>2. QED
    BY <1>1, Invariance, PTL

\* The interrupt never changes ESP_state under a command main() is carrying out.
THEOREM CommandsMatch == Spec => []CommandMatchesState
  <1>1. IInv => CommandMatchesState
    BY DEF IInv
  <1>2. QED
    BY <1>1, Invariance, PTL

\* Two uploads are at least ServerUpdatePeriod ticks apart whatever the update
\* cycles take, and exactly that far apart if no tick is lost.
THEOREM UploadsSpaced == Spec => []UploadSpacing
  <1>1. IInv => UploadSpacing
    BY StationAssumption
    DEF IInv, TypeOK, UploadSpacing, CommandMatchesState, LowerBounds,
        ExactBounds, RequestStands, LinkUp, OwesESP, Owed, One, IdleTicks
  <1>2. QED
    BY <1>1, Invariance, PTL

\* The server has ConnectionTime ticks to wake up, lost ticks or not.
THEOREM ServerHasTime == Spec => []ConnectionWait
  <1>1. IInv => ConnectionWait
    BY StationAssumption
    DEF IInv, TypeOK, ConnectionWait, CommandMatchesState, LowerBounds,
        ExactBounds, RequestStands, OwesESP, Owed, One
  <1>2. QED
    BY <1>1, Invariance, PTL

\* A window has at most ServerUpdatePeriod + 1 readings of each sensor: the
\* uint16_t divisors of average.c never wrap to zero.
THEOREM SamplesBounded == Spec => []SampleBound
  <1>1. IInv => SampleBound
    BY StationAssumption
    DEF IInv, TypeOK, SampleBound, CommandMatchesState, ReadingsBMP280,
        ReadingsOther, RequestStands, OwesBMP280, Owed, Sampled, One, Sensors,
        IdleTicks
  <1>2. QED
    BY <1>1, Invariance, PTL

\* Pressure and outdoor temperature are uploaded for the window they were
\* measured in.
THEOREM UploadsFresh == Spec => []FreshUpload
  <1>1. IInv => FreshUpload
    BY DEF IInv, FreshUpload, AveragesFresh, CommandMatchesState, Sampled
  <1>2. QED
    BY <1>1, Invariance, PTL

\* If no tick is lost every second of the window is sampled.
THEOREM WindowsFull == Spec => []FullWindow
  <1>1. IInv => FullWindow
    BY StationAssumption
    DEF IInv, TypeOK, FullWindow, CommandMatchesState, ReadingsComplete,
        ExactBounds, LowerBounds, RequestStands, LinkUp, OwesBMP280,
        OwesDS18B20, OwesESP, Owed, One, Sensors, IdleTicks
  <1>2. QED
    BY <1>1, Invariance, PTL

\* Between them, main() and the interrupt take ESP_state once around.
THEOREM UplinkGoesAround == Spec => UplinkInOrder
  <1>1. IInv /\ [Next]_vars =>
          [ESP_state' # ESP_state => ESP_state' = UplinkSuccessor[ESP_state]]_ESP_state
    <2> SUFFICES ASSUME IInv, [Next]_vars, ESP_state' # ESP_state
                 PROVE  ESP_state' = UplinkSuccessor[ESP_state]
      OBVIOUS
    <2> USE StationAssumption DEF IInv, TypeOK, UplinkSuccessor
    <2>1. CASE Tick
      BY <2>1 DEF Tick, CountersRest, IdleTicks
    <2>2. CASE Main
      BY <2>2 DEF Main, CommandMatchesState, Goto, LoadUpdateState, TestUpdateState,
         ReadDS18B20, ReadBMP280, ReadDHT11, DispatchESP, ConnectToServer,
         StartAwaiting, AwaitConnection, SendMeasurements, FinishUpload,
         UpdateGUI, FinishCycle
    <2>3. QED
      BY <2>1, <2>2 DEF Next
  <1>2. QED
    BY <1>1, Invariance, PTL DEF Spec, UplinkInOrder

-----------------------------------------------------------------------------
\* Station implements Uplink.  The three steps that the server can notice map
\* to the three actions of Uplink, all others to stuttering.

LEMMA TickImplements == IInv /\ Tick => Server!Tick
  <1> SUFFICES ASSUME IInv, Tick PROVE Server!Tick
    OBVIOUS
  <1>a. punctual' \in BOOLEAN
    BY Zenon DEF IInv, TypeOK, Tick
  <1>b. punctual' => punctual /\ Waiting
    BY Zenon DEF IInv, TypeOK, Tick
  <1> USE StationAssumption DEF IInv, TypeOK, IdleTicks
  <1>1. LinkUp' = LinkUp
    BY DEF Tick, LinkUp, CommandMatchesState, CountersRest
  <1>2. ASSUME punctual' PROVE punctual /\ ~Server!ConnectDue /\ ~Server!UploadDue
    <2>1. punctual /\ Waiting
      BY <1>b, <1>2
    <2>2. ~Server!ConnectDue
      BY <2>1 DEF Waiting, Server!ConnectDue, Server!Apart, LinkUp, ExactBounds,
         OwesConnect, OwesESP, Owed, One
    <2>3. ~Server!UploadDue
      BY <2>1 DEF Waiting, Server!UploadDue, Server!Apart, LinkUp, ExactBounds,
         OwesConnect, OwesESP, Owed, One
    <2>4. QED
      BY <2>1, <2>2, <2>3
  <1>3. QED
    BY <1>1, <1>a, <1>2 DEF Tick, Server!Tick, Aged, Server!Aged

LEMMA ConnectImplements == IInv /\ ConnectToServer => Server!Connect
  <1> SUFFICES ASSUME IInv, ConnectToServer PROVE Server!Connect
    OBVIOUS
  <1> USE StationAssumption DEF IInv, TypeOK, ConnectToServer, Goto, IdleTicks
  <1>1. ~LinkUp /\ LinkUp'
    BY DEF LinkUp, CommandMatchesState
  <1>2. Server!ConnectDue
    BY <1>1 DEF Server!ConnectDue, Server!Apart, CommandMatchesState,
       LowerBounds, ExactBounds
  <1>3. QED
    BY <1>1, <1>2 DEF Server!Connect

LEMMA UploadImplements == IInv /\ SendMeasurements => Server!Upload
  <1> SUFFICES ASSUME IInv, SendMeasurements PROVE Server!Upload
    OBVIOUS
  <1> USE StationAssumption DEF IInv, TypeOK, SendMeasurements, Goto, IdleTicks
  <1>1. LinkUp /\ ~LinkUp'
    BY DEF LinkUp, CommandMatchesState
  <1>2. Server!UploadDue
    BY <1>1 DEF Server!UploadDue, Server!Apart, CommandMatchesState,
       LowerBounds, ExactBounds, RequestStands, OwesESP, Owed, One
  <1>3. QED
    BY <1>1, <1>2 DEF Server!Upload

\* The steps main() takes between the three are invisible to the server.
LEMMA OthersStutter ==
  ASSUME IInv, Main, ~ConnectToServer, ~SendMeasurements
  PROVE  UNCHANGED Server!vars
  <1> USE DEF IInv, TypeOK, Goto
  <1>1. LinkUp' = LinkUp /\ UNCHANGED history
    BY DEF Main, LinkUp, CommandMatchesState, LoadUpdateState, TestUpdateState,
       ReadDS18B20, ReadBMP280, ReadDHT11, DispatchESP, StartAwaiting,
       AwaitConnection, FinishUpload, UpdateGUI, FinishCycle
  <1>2. QED
    BY <1>1 DEF Server!vars

\* With lost ticks or without, the station keeps its promise to the server.
THEOREM StationImplementsUplink == Spec => ImplementsUplink
  <1>1. Init => Server!Init
    BY StationAssumption DEF Init, Server!Init, LinkUp
  <1>2. IInv /\ [Next]_vars => [Server!Next]_(Server!vars)
    <2> SUFFICES ASSUME IInv, [Next]_vars
                 PROVE  Server!Next \/ UNCHANGED Server!vars
      OBVIOUS
    <2>1. CASE Tick
      BY <2>1, TickImplements DEF Server!Next
    <2>2. CASE ConnectToServer
      BY <2>2, ConnectImplements DEF Server!Next
    <2>3. CASE SendMeasurements
      BY <2>3, UploadImplements DEF Server!Next
    <2>4. CASE Main /\ ~ConnectToServer /\ ~SendMeasurements
      BY <2>4, OthersStutter
    <2>5. CASE UNCHANGED vars
      BY <2>5 DEF Server!vars, LinkUp
    <2>6. QED
      BY <2>1, <2>2, <2>3, <2>4, <2>5 DEF Next
  <1>3. QED
    BY <1>1, <1>2, Invariance, PTL DEF Spec, ImplementsUplink, Server!Spec
==============================================================================
