---------------------- MODULE ManagementProcessor_proofs ----------------------
(***************************************************************************)
(* Safety of the management processor, for any number of sensors, peers,   *)
(* connections, buffers and lines, and any number of failures, crashes and *)
(* restarts.                                                               *)
(*                                                                         *)
(* The core's place tells how far everything else is: which PHYs are up,   *)
(* which sensors have been prepared, and what of the link flag the stack   *)
(* has been told.  CoreInv, SensorInv, NetworkInv and LinkInv say so, each *)
(* inductive given the first.  That the command tables and the switches    *)
(* agree depends on no state and is worked out from the tables alone.      *)
(***************************************************************************)
EXTENDS ManagementProcessor, SequenceTheorems, TLAPS

-----------------------------------------------------------------------------
(* The inductive invariant, in parts.                                      *)

Setup == {"ConfigureSensor", "SelectTemperature", "ReadInitial"}
BeforeSetup == {"bootloader", "BSP_InitUART", "BSP_Init", "App_Init"}

PlaceTypeOK == at \in Places /\ n \in Nat \ {0} /\ back \in {"frame", "up"}
ConsoleTypeOK ==
    irqs \subseteq {"NVIC", "core"} /\ input \in TypedLines \union {NoLine} /\ received \in BOOLEAN
CountTypeOK == tx \in 0 .. TX_FIFO /\ events \in 0 .. MaxEvents /\ tapped \subseteq {1, 2}

\* The sensor being set up exists; the PHYs before the current one are up, and later
\* places have both.
Progress ==
    /\ at \in Setup => n <= Len(TempSensors)
    /\ at = "InitLineCardPHY" => n <= 3 /\ 1 .. n - 1 \subseteq tapped
    /\ at \in Loop \union {"InitInterfaces", "InitFPGAFlash"} => tapped = {1, 2}

CoreInv == PlaceTypeOK /\ ConsoleTypeOK /\ CountTypeOK /\ Progress

\* The sensors prepared are those the set-up has passed, they still point at their
\* temperature, and nothing is shown before the set-up is over: what was shown of a
\* sensor before it was prepared says nothing.
Passed == {TempSensors[i] : i \in 1 .. IF at = "ReadInitial" THEN n ELSE n - 1}
SensorInv ==
    /\ SensorTypeOK
    /\ \A d \in prepared : pointer[d] = 0
    /\ at \in BeforeSetup => prepared = {}
    /\ at \in BeforeSetup \union Setup => shown = NoReading
    /\ at \in Setup => prepared \subseteq Passed
    /\ ReadingsAreTrue

\* The controller holds frames that peers can send; the tables of the stack and of the
\* servers hold what they should of each other.
FramesOK == frames \in Seq(Frame(ShellLines)) /\ Len(frames) <= RX_BUFFERS
FlagsOK == link \in BOOLEAN /\ g_basetLinkUp \in BOOLEAN /\ stackUp \in BOOLEAN /\ flickered \in BOOLEAN
TablesOK ==
    /\ table \in [Peers -> Ports \union {Closed}]
    /\ slots \in [Slots -> Peers \union {NoPeer}]
    /\ ServersKnowTheirSockets
NetworkInv == FramesOK /\ FlagsOK /\ TablesOK

\* What the stack has been told: between the reads, and outside FPGATask.
LinkInv ==
    ~flickered =>
        /\ at \in Boot \union (Loop \ {"down", "save"}) => stackUp = g_basetLinkUp
        /\ at = "down" => stackUp = (link \/ g_basetLinkUp)
        /\ at = "save" => stackUp = link

-----------------------------------------------------------------------------
(* The core.                                                               *)

\* What an exception handler prints is a list of numbers of characters.
LEMMA ReportCounts ==
    ASSUME NEW h
    PROVE  Report(h) \in Seq(Nat)
<1> DEFINE words == [k \in 1 .. 16 |-> 17]
<1>1. <<158, 179>> \in Seq(Nat) /\ words \in Seq(Nat)
  OBVIOUS
<1>2. <<158, 179>> \o words \in Seq(Nat)
  BY <1>1, ConcatProperties
<1>3. HardFaultReport \in Seq(Nat) /\ LoaderHardFaultReport \in Seq(Nat)
  BY <1>2 DEF HardFaultReport, LoaderHardFaultReport
<1>4. <<12>> \in Seq(Nat)
  OBVIOUS
<1> QED
  BY <1>3, <1>4 DEF Report

\* An exception is answered by a handler that reports it.
LEMMA ExceptionReports == Exception => at' \in Reporting
<1> SUFFICES ASSUME Exception PROVE at' \in Reporting
  OBVIOUS
<1>1. PICK v \in Exceptions : at' = (IF at \in Loader THEN LoaderVectorTable(v) ELSE vectorTable(v))
  BY DEF Exception
<1>2. LoaderVectorTable(v) \in Reporting /\ vectorTable(v) \in Reporting
  BY DEF LoaderVectorTable, vectorTable, Exceptions, Reporting
<1> QED
  BY <1>1, <1>2

\* The core starts in the boot loader with nothing set up.
LEMMA CoreInit == Init => CoreInv
<1> SUFFICES ASSUME Init PROVE CoreInv
  OBVIOUS
<1>1. PlaceTypeOK
  BY DEF Init, PlaceTypeOK, Places, Boot
<1>2. ConsoleTypeOK
  BY DEF Init, ConsoleTypeOK
<1>3. CountTypeOK
  BY ProcessorAssumption DEF Init, CountTypeOK, TX_FIFO
<1>4. Progress
  BY DEF Init, Progress, Setup, Loop
<1> QED
  BY <1>1, <1>2, <1>3, <1>4 DEF CoreInv

\* A restart takes the core back to the boot loader, the PHYs down.
LEMMA CoreRestart ==
    ASSUME Restart, events' \in 0 .. MaxEvents
    PROVE  CoreInv'
<1>1. PlaceTypeOK'
  BY DEF Restart, PlaceTypeOK, Places, Boot
<1>2. ConsoleTypeOK'
  BY DEF Restart, ConsoleTypeOK
<1>3. CountTypeOK'
  BY DEF Restart, CountTypeOK, TX_FIFO
<1>4. Progress'
  BY DEF Restart, Progress, Setup, Loop
<1> QED
  BY <1>1, <1>2, <1>3, <1>4 DEF CoreInv

\* No step of the core, of the interrupt or of anybody around them breaks it.
LEMMA CoreStep ==
    ASSUME CoreInv, [Next]_vars
    PROVE  CoreInv'
<1> USE ProcessorAssumption DEF CoreInv, PlaceTypeOK, ConsoleTypeOK, CountTypeOK
<1> USE DEF Places, Boot, Loop, Down, Reporting, Setup, Go, GoNext, consoleVars, coreVars
<1>1. CASE BootApplication
  BY <1>1 DEF BootApplication, Progress
<1>2. CASE BSP_InitUART
  BY <1>2 DEF BSP_InitUART, Progress
<1>3. CASE BSP_Init
  BY <1>3 DEF BSP_Init, Progress
<1>4. CASE App_Init
  BY <1>4, SensorsAssumption DEF App_Init, Progress
<1>5. CASE InitTempSensor
  <2>1. PlaceTypeOK' /\ ConsoleTypeOK' /\ CountTypeOK'
    BY <1>5, SensorsAssumption DEF InitTempSensor, AfterSensor, Try, Spend
  <2>2. Progress'
    BY <1>5, SensorsAssumption DEF InitTempSensor, AfterSensor, Progress
  <2> QED
    BY <2>1, <2>2
<1>6. CASE InitSCCB
  BY <1>6 DEF InitSCCB, Progress
<1>7. CASE InitLineCardPHY
  <2>1. PlaceTypeOK' /\ ConsoleTypeOK'
    BY <1>7 DEF InitLineCardPHY, Lanes
  <2>2. tapped' = tapped \/ (n \in {1, 2} /\ tapped' = tapped \union {n})
    BY <1>7 DEF InitLineCardPHY, Lanes
  <2>3. tapped' \subseteq {1, 2}
    BY <2>2
  <2>4. CountTypeOK'
    BY <1>7, <2>3 DEF InitLineCardPHY, Spend
  <2>5. Progress'
    <3>1. CASE n \in Lanes /\ at' = "InitLineCardPHY" /\ n' = n + 1 /\ tapped' = tapped \union {n}
      <4>1. 1 .. n - 1 \subseteq tapped
        BY <1>7 DEF InitLineCardPHY, Progress
      <4>2. \A k \in 1 .. n : k \in 1 .. n - 1 \/ k = n
        OBVIOUS
      <4>3. 1 .. n' - 1 \subseteq tapped' /\ n' <= 3
        BY <3>1, <4>1, <4>2 DEF Lanes
      <4> QED
        BY <3>1, <4>3 DEF Progress
    <3>2. CASE at' = "stuck"
      BY <3>2 DEF Progress
    <3>3. CASE n \notin Lanes /\ at' = "InitInterfaces" /\ tapped' = tapped
      <4>1. n = 3 /\ 1 .. n - 1 \subseteq tapped
        BY <1>7, <3>3 DEF InitLineCardPHY, Lanes, Progress
      <4>2. 1 \in tapped /\ 2 \in tapped
        BY <4>1
      <4> QED
        BY <3>3, <4>2 DEF Progress
    <3> QED
      BY <1>7, <3>1, <3>2, <3>3 DEF InitLineCardPHY
  <2> QED
    BY <2>1, <2>4, <2>5
<1>8. CASE InitInterfaces
  BY <1>8 DEF InitInterfaces, Progress
<1>9. CASE InitFPGAFlash
  BY <1>9 DEF InitFPGAFlash, Progress
<1>10. CASE ReceiveFrame
  <2>1. events' \in 0 .. MaxEvents
    BY <1>10 DEF ReceiveFrame
  <2>2. CASE Restart
    BY <2>1, <2>2, CoreRestart
  <2>3. CASE /\ at = "frame"
             /\ Go("up") \/ ShowHardware("up")
             /\ UNCHANGED <<consoleVars, tapped, tx>>
    BY <2>1, <2>3 DEF ShowHardware, Progress
  <2> QED
    BY <1>10, <2>2, <2>3 DEF ReceiveFrame, Handled
<1>11. CASE PrintLineCardInfo
  <2>1. PlaceTypeOK' /\ ConsoleTypeOK' /\ CountTypeOK'
    BY <1>11 DEF PrintLineCardInfo, Try, Spend
  <2>2. Progress'
    BY <1>11 DEF PrintLineCardInfo, Progress
  <2> QED
    BY <2>1, <2>2
<1>12. CASE FollowLink
  BY <1>12 DEF FollowLink, Progress
<1>13. CASE Aging
  BY <1>13 DEF Aging, Spend, Progress
<1>14. CASE ConsoleTask
  <2>1. events' \in 0 .. MaxEvents
    BY <1>14 DEF ConsoleTask
  <2>2. CASE Restart
    BY <2>1, <2>2, CoreRestart
  <2>3. CASE /\ at = "console"
             /\ Go("frame") \/ ShowHardware("frame")
             /\ input' \in {input, NoLine} /\ received' \in {received, FALSE}
             /\ UNCHANGED <<irqs, tapped, tx>>
    <3>1. PlaceTypeOK' /\ Progress'
      BY <2>3 DEF ShowHardware, Progress
    <3>2. ConsoleTypeOK' /\ CountTypeOK'
      BY <2>1, <2>3
    <3> QED
      BY <3>1, <3>2
  <2> QED
    BY <1>14, <2>2, <2>3 DEF ConsoleTask, Handled
<1>15. CASE Interrupt
  BY <1>15 DEF Interrupt, UART4_Handler, Progress
<1>16. CASE PrintReport
  <2>1. CASE /\ n <= Len(Report(at)) /\ BlockingFlush + Report(at)[n] <= TX_FIFO
             /\ tx' = BlockingFlush + Report(at)[n] /\ GoNext(at, n + 1)
    <3>1. n \in 1 .. Len(Report(at))
      BY <2>1, ReportCounts
    <3>2. Report(at)[n] \in Nat
      BY <3>1, ReportCounts, ElementOfSeq
    <3>3. BlockingFlush + Report(at)[n] \in 0 .. TX_FIFO
      <4>1. \A r \in Nat : BlockingFlush + r <= TX_FIFO => BlockingFlush + r \in 0 .. TX_FIFO
        BY DEF BlockingFlush, TX_FIFO
      <4> QED
        BY <2>1, <3>2, <4>1
    <3>4. PlaceTypeOK' /\ ConsoleTypeOK' /\ Progress'
      BY <1>16, <2>1 DEF PrintReport, Progress
    <3>5. CountTypeOK'
      BY <1>16, <2>1, <3>3 DEF PrintReport
    <3> QED
      BY <3>4, <3>5
  <2>2. CASE n > Len(Report(at)) /\ tx' = BlockingFlush /\ GoNext("crashed", 1)
    BY <1>16, <2>2 DEF PrintReport, BlockingFlush, TX_FIFO, Progress
  <2> QED
    BY <1>16, <2>1, <2>2 DEF PrintReport
<1>17. CASE Bootloader_FirmwareUpdateFlow
  BY <1>17 DEF Bootloader_FirmwareUpdateFlow, Spend, Progress
<1>18. CASE Exception
  BY <1>18, ExceptionReports DEF Exception, Spend, TX_FIFO, Progress
<1>19. CASE PowerCycled
  BY <1>19, CoreRestart DEF PowerCycled, Spend
<1>20. CASE TypeLine
  BY <1>20 DEF TypeLine, Spend, Progress
<1>21. CASE LinkChanges
  BY <1>21 DEF LinkChanges, Spend, Progress
<1>22. CASE FrameComes
  BY <1>22 DEF FrameComes, Spend, Progress
<1>23. CASE UNCHANGED vars
  BY <1>23 DEF vars, Progress
<1> QED
  BY <1>1, <1>2, <1>3, <1>4, <1>5, <1>6, <1>7, <1>8, <1>9, <1>10, <1>11, <1>12, <1>13, <1>14,
     <1>15, <1>16, <1>17, <1>18, <1>19, <1>20, <1>21, <1>22, <1>23 DEF Next, Core

\* The core's registers keep their types, and the later places are reached only with
\* what they need set up.
LEMMA CoreCorrect == Spec => []CoreInv
BY CoreInit, CoreStep, PTL DEF Spec

-----------------------------------------------------------------------------
(* The sensors.                                                            *)

\* Every sensor named by its place in a list is a sensor, and no temperature sensor
\* is a power monitor.
LEMMA SensorFacts ==
    /\ \A i \in 1 .. Len(TempSensors) : TempSensors[i] \in Members(TempSensors)
    /\ \A i \in 1 .. Len(PowerMonitors) : PowerMonitors[i] \in Members(PowerMonitors)
    /\ Members(TempSensors) \subseteq Sensors /\ Members(PowerMonitors) \subseteq Sensors
    /\ \A d \in Members(PowerMonitors) : d \notin Members(TempSensors)
BY SensorsAssumption DEF Members, Sensors

\* The readings of "show hardware" beyond the temperatures are of power monitors.
LEMMA MonitorExists ==
    ASSUME NEW i \in Nat, i > Len(TempSensors), i <= Readings
    PROVE  ((i - Len(TempSensors) - 1) \div 2) + 1 \in 1 .. Len(PowerMonitors)
<1>1. Len(TempSensors) \in Nat /\ Len(PowerMonitors) \in Nat
  BY SensorsAssumption
<1> QED
  BY <1>1 DEF Readings

\* A power monitor's registers move without touching a temperature sensor's pointer,
\* and what is shown is what was selected.
LEMMA GetKeepsSensors ==
    ASSUME SensorInv, NEW d \in Members(PowerMonitors), NEW selected \in BOOLEAN, NEW read \in BOOLEAN,
           GetVoltage(d, selected, read) \/ GetCurrent(d, selected, read)
    PROVE  /\ SensorTypeOK' /\ ReadingsAreTrue' /\ prepared' = prepared
           /\ \A t \in prepared : pointer'[t] = 0
<1>1. PICK what \in {"voltage", "current"}, reg \in Registers :
        /\ reg = IF what = "voltage" THEN 2 ELSE 1
        /\ Get(d, what, reg, selected, read)
  BY DEF GetVoltage, GetCurrent, Registers
<1>2. d \in Sensors /\ pointer \in [Sensors -> Registers]
  BY SensorFacts DEF SensorInv, SensorTypeOK
<1>3. PICK r \in Registers :
        /\ pointer' = [pointer EXCEPT ![d] = r]
        /\ selected => r = reg
  BY <1>1, <1>2 DEF Get, Write
<1>4. pointer' \in [Sensors -> Registers]
  BY <1>2, <1>3
<1>5. pointer'[d] = r
  BY <1>2, <1>3
<1>6. prepared' = prepared
  BY <1>1 DEF Get
<1>7. \A t \in prepared : pointer'[t] = 0
  <2> SUFFICES ASSUME NEW t \in prepared PROVE pointer'[t] = 0
    OBVIOUS
  <2>1. t \in Sensors /\ t # d /\ pointer[t] = 0
    BY SensorFacts DEF SensorInv, SensorTypeOK
  <2> QED
    BY <1>2, <1>3, <2>1
<1>8. CASE selected /\ read
  <2>1. shown' = [what |-> what, dev |-> d, reg |-> reg]
    BY <1>1, <1>3, <1>5, <1>8 DEF Get
  <2> QED
    BY <1>1, <1>2, <1>4, <1>6, <1>7, <2>1 DEF SensorInv, SensorTypeOK, ReadingsAreTrue, Registers
<1>9. CASE ~(selected /\ read)
  <2>1. shown' = [what |-> "zero", dev |-> d, reg |-> 0]
    BY <1>1, <1>9 DEF Get
  <2> QED
    BY <1>1, <1>2, <1>4, <1>6, <1>7, <2>1 DEF SensorInv, SensorTypeOK, ReadingsAreTrue, Registers
<1> QED
  BY <1>8, <1>9

\* Sensors nobody talks to stay as they are: once the set-up is over or before it began,
\* or as long as the core stays at the same sensor.
LEMMA SensorsLeftAlone ==
    ASSUME SensorInv, UNCHANGED sensorVars,
           \/ at' \notin BeforeSetup \union Setup
           \/ prepared = {} /\ shown = NoReading
           \/ UNCHANGED <<at, n>>
    PROVE  SensorInv'
<1>1. SensorTypeOK' /\ (\A d \in prepared' : pointer'[d] = 0) /\ ReadingsAreTrue'
  BY DEF SensorInv, SensorTypeOK, ReadingsAreTrue, sensorVars
<1>2. /\ at' \in BeforeSetup => prepared' = {}
      /\ at' \in BeforeSetup \union Setup => shown' = NoReading
  BY DEF SensorInv, sensorVars, BeforeSetup, Setup
<1>3. at' \in Setup => prepared' \subseteq Passed'
  BY DEF SensorInv, sensorVars, Passed
<1> QED
  BY <1>1, <1>2, <1>3 DEF SensorInv

\* A restart forgets what was prepared.
LEMMA SensorsRestart == SensorInv /\ Restart => SensorInv'
BY DEF SensorInv, SensorTypeOK, ReadingsAreTrue, Restart, SensorRestart, NoReading, Registers, BeforeSetup, Setup

\* The set-up of a sensor moves its own pointer, which none of those prepared so far is.
LEMMA SetupKeepsSensors ==
    ASSUME CoreInv, SensorInv, InitTempSensor
    PROVE  SensorInv'
<1> DEFINE d == TempSensors[n]
<1>1. at \in Setup /\ n \in 1 .. Len(TempSensors)
  BY DEF CoreInv, PlaceTypeOK, Progress, InitTempSensor, Setup
<1>2. d \in Sensors /\ d \in Members(TempSensors)
  BY <1>1, SensorFacts
<1>3. at # "ReadInitial" => d \notin prepared
  <2> SUFFICES ASSUME at # "ReadInitial", d \in prepared PROVE FALSE
    OBVIOUS
  <2>1. PICK i \in 1 .. n - 1 : d = TempSensors[i]
    BY <1>1 DEF SensorInv, Passed
  <2> QED
    BY <1>1, <2>1, SensorsAssumption
<1>4. PICK ok \in BOOLEAN :
        \/ /\ at = "ConfigureSensor" /\ ConfigureSensor(d, ok)
           /\ IF ok THEN Go("SelectTemperature") ELSE AfterSensor
        \/ /\ at = "SelectTemperature" /\ SelectTemperature(d, ok)
           /\ IF ok THEN Go("ReadInitial") ELSE AfterSensor
        \/ /\ at = "ReadInitial" /\ ReadInitial(d) /\ AfterSensor
  BY DEF InitTempSensor
<1>5. ASSUME at' \in Setup
      PROVE  Passed \subseteq Passed' /\ (at' = "ReadInitial" => d \in Passed')
  <2>1. \/ at' \in {"SelectTemperature", "ReadInitial"} /\ n' = n /\ at # "ReadInitial"
        \/ at' = "ConfigureSensor" /\ n' = n + 1
    BY <1>1, <1>4, <1>5 DEF AfterSensor, Go, GoNext, Setup
  <2> QED
    BY <1>1, <2>1 DEF Passed
<1>6. at' \notin BeforeSetup
  BY <1>4 DEF AfterSensor, Go, GoNext, BeforeSetup
<1>7. CASE at = "ReadInitial"
  <2>1. UNCHANGED sensorVars
    BY <1>4, <1>7 DEF ReadInitial
  <2>2. SensorTypeOK' /\ (\A t \in prepared' : pointer'[t] = 0) /\ ReadingsAreTrue' /\ shown' = NoReading
    BY <1>1, <2>1 DEF SensorInv, SensorTypeOK, ReadingsAreTrue, sensorVars
  <2>3. at' \in Setup => prepared' \subseteq Passed'
    BY <1>1, <1>5, <2>1 DEF SensorInv, sensorVars
  <2> QED
    BY <1>6, <2>2, <2>3 DEF SensorInv
<1>8. CASE at # "ReadInitial"
  <2>1. PICK r \in Registers : pointer' = [pointer EXCEPT ![d] = r] /\ (at = "SelectTemperature" /\ ok => r = 0)
    BY <1>2, <1>4, <1>8 DEF ConfigureSensor, SelectTemperature, PointAtTemperature, Write, Registers,
       SensorInv, SensorTypeOK
  <2>2. \/ prepared' = prepared
        \/ prepared' = prepared \union {d} /\ at = "SelectTemperature" /\ ok /\ at' = "ReadInitial"
    BY <1>4, <1>8 DEF ConfigureSensor, SelectTemperature, Go
  <2>3. shown' = shown
    BY <1>4, <1>8 DEF ConfigureSensor, SelectTemperature
  <2>4. pointer' \in [Sensors -> Registers]
    BY <2>1 DEF SensorInv, SensorTypeOK
  <2>5. \A t \in prepared : t \in Sensors /\ t # d
    BY <1>3, <1>8, SensorFacts DEF SensorInv, SensorTypeOK
  <2>6. \A t \in prepared' : pointer'[t] = 0
    BY <1>2, <2>1, <2>2, <2>5 DEF SensorInv, SensorTypeOK
  <2>7. SensorTypeOK'
    BY <1>2, <2>2, <2>3, <2>4 DEF SensorInv, SensorTypeOK
  <2>8. shown' = NoReading /\ ReadingsAreTrue'
    BY <1>1, <2>3 DEF SensorInv, ReadingsAreTrue, NoReading
  <2>9. at' \in Setup => prepared' \subseteq Passed'
    BY <1>1, <1>5, <2>2 DEF SensorInv
  <2> QED
    BY <1>6, <2>6, <2>7, <2>8, <2>9 DEF SensorInv
<1> QED
  BY <1>7, <1>8

\* "show hardware" reads sensors and selects registers of power monitors.
LEMMA ReadingKeepsSensors ==
    ASSUME CoreInv, SensorInv, PrintLineCardInfo
    PROVE  SensorInv'
<1>1. at' \notin BeforeSetup \union Setup
  BY DEF CoreInv, PlaceTypeOK, PrintLineCardInfo, GoNext, BeforeSetup, Setup
<1>2. n \in Nat \ {0}
  BY DEF CoreInv, PlaceTypeOK
<1> DEFINE monitor == PowerMonitors[((n - Len(TempSensors) - 1) \div 2) + 1]
<1>3. PICK ok \in BOOLEAN, selected \in BOOLEAN, read \in BOOLEAN :
        \/ n <= Len(TempSensors) /\ ReadTemperature(TempSensors[n], ok)
        \/ /\ n > Len(TempSensors) /\ n <= Readings
           /\ GetVoltage(monitor, selected, read) \/ GetCurrent(monitor, selected, read)
        \/ n > Readings /\ shown' = NoReading /\ UNCHANGED <<pointer, prepared>>
  BY DEF PrintLineCardInfo
<1>4. CASE n <= Len(TempSensors) /\ ReadTemperature(TempSensors[n], ok)
  <2>1. TempSensors[n] \in Sensors /\ pointer[TempSensors[n]] \in Registers
    BY <1>2, <1>4, SensorFacts, SensorsAssumption DEF SensorInv, SensorTypeOK
  <2> QED
    BY <1>1, <1>4, <2>1 DEF SensorInv, SensorTypeOK, ReadingsAreTrue, ReadTemperature, NoReading, Registers
<1>5. CASE /\ n > Len(TempSensors) /\ n <= Readings
           /\ GetVoltage(monitor, selected, read) \/ GetCurrent(monitor, selected, read)
  <2>1. monitor \in Members(PowerMonitors)
    BY <1>2, <1>5, MonitorExists, SensorFacts
  <2>2. /\ SensorTypeOK' /\ ReadingsAreTrue' /\ prepared' = prepared
        /\ \A t \in prepared : pointer'[t] = 0
    BY <1>5, <2>1, GetKeepsSensors
  <2> QED
    BY <1>1, <2>2 DEF SensorInv
<1>6. CASE shown' = NoReading /\ UNCHANGED <<pointer, prepared>>
  BY <1>1, <1>6 DEF SensorInv, SensorTypeOK, ReadingsAreTrue, NoReading, Registers
<1> QED
  BY <1>3, <1>4, <1>5, <1>6

\* Every other step leaves the sensors alone.
LEMMA SensorStep ==
    ASSUME CoreInv, SensorInv, [Next]_vars
    PROVE  SensorInv'
<1>1. CASE InitTempSensor
  BY <1>1, SetupKeepsSensors
<1>2. CASE PrintLineCardInfo
  BY <1>2, ReadingKeepsSensors
<1>3. CASE Restart
  BY <1>3, SensorsRestart
<1>4. CASE UNCHANGED sensorVars /\ UNCHANGED <<at, n>>
  BY <1>4, SensorsLeftAlone
<1>5. CASE UNCHANGED sensorVars /\ at \in BeforeSetup
  BY <1>5, SensorsLeftAlone DEF SensorInv
<1>6. CASE UNCHANGED sensorVars /\ at' \notin BeforeSetup \union Setup
  BY <1>6, SensorsLeftAlone
<1> USE DEF coreVars, Go, GoNext
<1>7. CASE BootApplication \/ BSP_InitUART \/ BSP_Init \/ App_Init
  BY <1>5, <1>7 DEF BootApplication, BSP_InitUART, BSP_Init, App_Init, BeforeSetup
<1>8. CASE InitSCCB \/ InitLineCardPHY \/ InitInterfaces \/ InitFPGAFlash
  BY <1>6, <1>8 DEF InitSCCB, InitLineCardPHY, InitInterfaces, InitFPGAFlash, BeforeSetup, Setup
<1>9. CASE ReceiveFrame
  BY <1>3, <1>6, <1>9 DEF ReceiveFrame, Handled, ShowHardware, BeforeSetup, Setup
<1>10. CASE FollowLink \/ Aging
  BY <1>6, <1>10 DEF FollowLink, Aging, BeforeSetup, Setup
<1>11. CASE ConsoleTask
  BY <1>3, <1>6, <1>11 DEF ConsoleTask, Handled, ShowHardware, BeforeSetup, Setup
<1>12. CASE Interrupt
  BY <1>4, <1>6, <1>12 DEF Interrupt, BeforeSetup, Setup
<1>13. CASE PrintReport
  BY <1>6, <1>13 DEF PrintReport, Reporting, BeforeSetup, Setup
<1>14. CASE Bootloader_FirmwareUpdateFlow
  BY <1>6, <1>14 DEF Bootloader_FirmwareUpdateFlow, BeforeSetup, Setup
<1>15. CASE Exception
  <2>1. at' \notin BeforeSetup \union Setup
    BY <1>15, ExceptionReports DEF Reporting, BeforeSetup, Setup
  <2> QED
    BY <1>6, <1>15, <2>1 DEF Exception
<1>16. CASE PowerCycled
  BY <1>3, <1>16 DEF PowerCycled
<1>17. CASE TypeLine \/ LinkChanges \/ FrameComes
  BY <1>4, <1>17 DEF TypeLine, LinkChanges, FrameComes
<1>18. CASE UNCHANGED vars
  BY <1>4, <1>18 DEF vars
<1> QED
  BY <1>1, <1>2, <1>7, <1>8, <1>9, <1>10, <1>11, <1>12, <1>13, <1>14, <1>15, <1>16, <1>17, <1>18
     DEF Next, Core

\* The sensors prepared keep pointing at their temperature.
LEMMA SensorsCorrect == Spec => []SensorInv
<1>1. Init => SensorInv
  BY DEF Init, SensorInit, SensorInv, SensorTypeOK, ReadingsAreTrue, NoReading, Registers, BeforeSetup, Setup
<1> QED
  BY <1>1, CoreCorrect, SensorStep, PTL DEF Spec

\* A temperature shown of a prepared sensor was read from its temperature register, a
\* voltage and a current from theirs (Init.cpp:107-131,
\* LatentRedCLISessionContext.cpp:753-814).
THEOREM ReadingsCorrect == Spec => []ReadingsAreTrue
<1>1. SensorInv => ReadingsAreTrue
  BY DEF SensorInv
<1> QED
  BY <1>1, SensorsCorrect, PTL

-----------------------------------------------------------------------------
(* The network.                                                            *)

\* Empty tables agree.
LEMMA EmptyTables == RegisterProtocolHandlers => TablesOK'
BY NetworkAssumption
   DEF RegisterProtocolHandlers, TablesOK, ServersKnowTheirSockets, Ports, Closed, SSH_PORT, IPERF3_PORT

\* A connection the SSH server accepts takes a free state; one it has no room for leaves
\* no trace; an iperf connection is remembered.
LEMMA AcceptKeepsTables ==
    ASSUME TablesOK, NEW p \in Peers, NEW port \in Ports, table[p] = Closed, OnConnectionAccepted(p, port)
    PROVE  TablesOK'
<1> USE NetworkAssumption DEF TablesOK, ServersKnowTheirSockets, Ports, Closed, SSH_PORT, IPERF3_PORT
<1>1. \A i \in Slots : slots[i] # p
  OBVIOUS
<1>2. CASE /\ port = SSH_PORT /\ UNCHANGED iperf
           /\ \E i \in Slots :
                /\ slots[i] = NoPeer
                /\ slots' = [slots EXCEPT ![i] = p] /\ table' = [table EXCEPT ![p] = SSH_PORT]
  <2>1. PICK i \in Slots :
          /\ slots[i] = NoPeer
          /\ slots' = [slots EXCEPT ![i] = p] /\ table' = [table EXCEPT ![p] = SSH_PORT]
    BY <1>2
  <2>2. slots' \in [Slots -> Peers \union {NoPeer}] /\ table' \in [Peers -> Ports \union {Closed}]
    BY <2>1
  <2>3. slots'[i] = p /\ \A j \in Slots \ {i} : slots'[j] = slots[j] /\ slots[j] # p
    BY <1>1, <2>1
  <2>4. table'[p] = SSH_PORT /\ \A q \in Peers \ {p} : table'[q] = table[q]
    BY <2>1
  <2>5. \A j \in Slots : slots'[j] # NoPeer => table'[slots'[j]] = SSH_PORT
    BY <2>3, <2>4
  <2>6. \A j, k \in Slots : slots'[j] = slots'[k] /\ slots'[j] # NoPeer => j = k
    BY <2>3
  <2>7. iperf' = {q \in Peers : table'[q] = IPERF3_PORT}
    BY <1>2, <2>4
  <2> QED
    BY <2>2, <2>5, <2>6, <2>7
<1>3. CASE UNCHANGED <<slots, table, iperf>>
  BY <1>3
<1>4. CASE /\ port = IPERF3_PORT /\ iperf' = iperf \union {p}
           /\ table' = [table EXCEPT ![p] = IPERF3_PORT] /\ UNCHANGED slots
  <2>1. table' \in [Peers -> Ports \union {Closed}]
    BY <1>4
  <2>2. table'[p] = IPERF3_PORT /\ \A q \in Peers \ {p} : table'[q] = table[q]
    BY <1>4
  <2>3. iperf' = {q \in Peers : table'[q] = IPERF3_PORT}
    BY <1>4, <2>2
  <2>4. \A j \in Slots : slots[j] # NoPeer => table'[slots[j]] = SSH_PORT
    BY <1>1, <2>2
  <2> QED
    BY <1>4, <2>1, <2>3, <2>4
<1> QED
  BY <1>2, <1>3, <1>4 DEF OnConnectionAccepted, SshAccepted

\* A connection that closes is forgotten by the server it belonged to.
LEMMA CloseKeepsTables ==
    ASSUME TablesOK, NEW p \in Peers, OnConnectionClosed(p)
    PROVE  TablesOK'
<1> USE NetworkAssumption DEF TablesOK, ServersKnowTheirSockets, Ports, Closed, SSH_PORT, IPERF3_PORT
<1>1. table' \in [Peers -> Ports \union {Closed}]
  BY DEF OnConnectionClosed
<1>2. table'[p] = Closed /\ \A q \in Peers \ {p} : table'[q] = table[q]
  BY DEF OnConnectionClosed
<1>3. CASE table[p] = SSH_PORT /\ SshForgets(p) /\ UNCHANGED iperf
  <2>1. slots' \in [Slots -> Peers \union {NoPeer}]
    BY <1>3 DEF SshForgets
  <2>2. \A i \in Slots : slots'[i] # NoPeer => slots'[i] = slots[i] /\ slots[i] # p
    BY <1>3 DEF SshForgets
  <2>3. \A i \in Slots : slots'[i] # NoPeer => table'[slots'[i]] = SSH_PORT
    BY <1>2, <2>2
  <2>4. \A i, j \in Slots : slots'[i] = slots'[j] /\ slots'[i] # NoPeer => i = j
    BY <2>2
  <2>5. iperf' = {q \in Peers : table'[q] = IPERF3_PORT}
    BY <1>2, <1>3
  <2> QED
    BY <1>1, <2>1, <2>3, <2>4, <2>5
<1>4. CASE table[p] = IPERF3_PORT /\ iperf' = iperf \ {p} /\ UNCHANGED slots
  <2>1. iperf' = {q \in Peers : table'[q] = IPERF3_PORT}
    BY <1>2, <1>4
  <2>2. \A j \in Slots : slots[j] # NoPeer => table'[slots[j]] = SSH_PORT
    BY <1>2, <1>4
  <2> QED
    BY <1>1, <1>4, <2>1, <2>2
<1> QED
  BY <1>3, <1>4 DEF OnConnectionClosed

\* "exit" frees the SSH server's state and leaves the entry to the stack.
LEMMA ExitKeepsTables ==
    ASSUME TablesOK, NEW p \in Peers, GracefulDisconnect(p)
    PROVE  TablesOK'
<1> USE NetworkAssumption DEF TablesOK, ServersKnowTheirSockets
<1>1. slots' \in [Slots -> Peers \union {NoPeer}]
  BY DEF GracefulDisconnect, SshForgets
<1>2. \A i \in Slots : slots'[i] # NoPeer => slots'[i] = slots[i]
  BY DEF GracefulDisconnect, SshForgets
<1> QED
  BY <1>1, <1>2 DEF GracefulDisconnect

\* A frame that waits in the controller is one a peer can send.
LEMMA HeadFrame ==
    ASSUME frames \in Seq(Frame(ShellLines)), frames # <<>>
    PROVE  /\ Head(frames) \in Frame(ShellLines)
           /\ Tail(frames) \in Seq(Frame(ShellLines)) /\ Len(Tail(frames)) = Len(frames) - 1
BY HeadTailProperties

\* What the stack does with a frame keeps the tables in agreement.
LEMMA FrameKeepsTables ==
    ASSUME TablesOK, NEW f \in Frame(ShellLines), OnRxFrame(f)
    PROVE  TablesOK'
<1>1. CASE f.type = "syn" /\ table[f.peer] = Closed /\ OnConnectionAccepted(f.peer, f.port)
  <2>1. f.peer \in Peers /\ f.port \in Ports
    BY <1>1 DEF Frame
  <2> QED
    BY <1>1, <2>1, AcceptKeepsTables
<1>2. CASE f.type = "fin" /\ OnConnectionClosed(f.peer)
  <2>1. f.peer \in Peers
    BY <1>2 DEF Frame
  <2> QED
    BY <1>2, <2>1, CloseKeepsTables
<1>3. CASE UNCHANGED tcpVars
  BY <1>3 DEF tcpVars, TablesOK, ServersKnowTheirSockets
<1> QED
  BY <1>1, <1>2, <1>3 DEF OnRxFrame

\* A frame is taken from the controller's queue, or the processor restarts over it.
LEMMA ReceiveKeepsNetwork ==
    ASSUME NetworkInv, ReceiveFrame
    PROVE  NetworkInv'
<1> DEFINE f == Head(frames)
<1>1. CASE UNCHANGED networkVars
  BY <1>1 DEF NetworkInv, FramesOK, FlagsOK, TablesOK, ServersKnowTheirSockets, networkVars
<1>2. CASE Restart
  <2>1. TablesOK'
    BY <1>2, EmptyTables DEF Restart, NetworkRestart
  <2>2. FramesOK' /\ FlagsOK'
    BY <1>2 DEF NetworkInv, FramesOK, FlagsOK, Restart, NetworkRestart
  <2> QED
    BY <2>1, <2>2 DEF NetworkInv
<1>3. ASSUME frames # <<>>, frames' = Tail(frames), UNCHANGED linkVars
      PROVE  FramesOK' /\ FlagsOK'
  BY <1>3, HeadFrame, NetworkAssumption DEF NetworkInv, FramesOK, FlagsOK, linkVars
<1>4. CASE frames # <<>> /\ OnRxFrame(f) /\ frames' = Tail(frames) /\ UNCHANGED linkVars
  BY <1>3, <1>4, HeadFrame, FrameKeepsTables DEF NetworkInv, FramesOK
<1>5. CASE /\ frames # <<>> /\ IsShellData(f)
           /\ GracefulDisconnect(f.peer) \/ UNCHANGED tcpVars
           /\ frames' = Tail(frames) /\ UNCHANGED linkVars
  <2>1. f.peer \in Peers
    BY <1>5, HeadFrame DEF NetworkInv, FramesOK, Frame, IsShellData
  <2>2. TablesOK'
    BY <1>5, <2>1, ExitKeepsTables DEF NetworkInv, TablesOK, ServersKnowTheirSockets, tcpVars
  <2> QED
    BY <1>3, <1>5, <2>2 DEF NetworkInv
<1> QED
  BY <1>1, <1>2, <1>4, <1>5 DEF ReceiveFrame, FrameWaiting

\* Every step keeps the frames, the link flags and the tables in order.
LEMMA NetworkStep ==
    ASSUME NetworkInv, [Next]_vars
    PROVE  NetworkInv'
<1> USE DEF NetworkInv
<1>1. CASE UNCHANGED networkVars
  BY <1>1 DEF FramesOK, FlagsOK, TablesOK, ServersKnowTheirSockets, networkVars
<1>2. ASSUME UNCHANGED tcpVars
      PROVE  TablesOK'
  BY <1>2 DEF TablesOK, ServersKnowTheirSockets, tcpVars
<1>3. ASSUME UNCHANGED frames PROVE FramesOK'
  BY <1>3 DEF FramesOK
<1>4. ASSUME UNCHANGED linkVars PROVE FlagsOK'
  BY <1>4 DEF FlagsOK, linkVars
<1>5. CASE BootApplication \/ BSP_InitUART \/ App_Init \/ InitTempSensor \/ InitSCCB \/ InitLineCardPHY
           \/ InitInterfaces \/ InitFPGAFlash \/ PrintLineCardInfo \/ Interrupt \/ PrintReport
           \/ Bootloader_FirmwareUpdateFlow \/ Exception \/ TypeLine
  BY <1>1, <1>5 DEF BootApplication, BSP_InitUART, App_Init, InitTempSensor, InitSCCB, InitLineCardPHY,
     InitInterfaces, InitFPGAFlash, PrintLineCardInfo, Interrupt, PrintReport,
     Bootloader_FirmwareUpdateFlow, Exception, TypeLine
<1>6. CASE BSP_Init
  BY <1>3, <1>4, <1>6, EmptyTables DEF BSP_Init
<1>7. CASE ReceiveFrame
  BY <1>7, ReceiveKeepsNetwork
<1>8. CASE FollowLink
  <2>1. UNCHANGED <<frames, tcpVars>>
    BY <1>8 DEF FollowLink, NoticeUp, NoticeDown, SaveLink
  <2>2. FlagsOK'
    BY <1>8 DEF FollowLink, NoticeUp, NoticeDown, SaveLink, FlagsOK
  <2> QED
    BY <1>2, <1>3, <2>1, <2>2
<1>9. CASE Aging
  <2>1. CASE \E p \in Peers : AgingCloses(p)
    BY <1>3, <1>4, <2>1, CloseKeepsTables DEF AgingCloses
  <2> QED
    BY <1>1, <1>9, <2>1 DEF Aging
<1>10. CASE Restart
  <2>1. UNCHANGED frames /\ FlagsOK'
    BY <1>10 DEF Restart, NetworkRestart, FlagsOK
  <2>2. TablesOK'
    BY <1>10, EmptyTables DEF Restart, NetworkRestart
  <2> QED
    BY <1>3, <2>1, <2>2
<1>11. CASE ConsoleTask
  BY <1>1, <1>10, <1>11 DEF ConsoleTask
<1>12. CASE PowerCycled
  BY <1>10, <1>12 DEF PowerCycled
<1>13. CASE LinkChanges
  <2>1. UNCHANGED <<frames, tcpVars>> /\ FlagsOK'
    BY <1>13 DEF LinkChanges, LinkFlips, FlagsOK
  <2> QED
    BY <1>2, <1>3, <2>1
<1>14. CASE FrameComes
  <2>1. PICK f \in Frame(ShellLines) : FrameArrives(f)
    BY <1>14 DEF FrameComes
  <2>2. FramesOK'
    BY <2>1, AppendProperties, NetworkAssumption DEF FrameArrives, FramesOK
  <2> QED
    BY <1>2, <1>4, <2>1, <2>2 DEF FrameArrives
<1>15. CASE UNCHANGED vars
  BY <1>1, <1>15 DEF vars
<1> QED
  BY <1>5, <1>6, <1>7, <1>8, <1>9, <1>11, <1>12, <1>13, <1>14, <1>15 DEF Next, Core

\* The initial network satisfies the invariant.
LEMMA NetworkStart == Init => NetworkInv
<1> SUFFICES ASSUME Init PROVE NetworkInv
  OBVIOUS
<1>1. FramesOK
  BY NetworkAssumption DEF Init, NetworkInit, FramesOK
<1>2. FlagsOK
  BY DEF Init, NetworkInit, FlagsOK
<1>3. TablesOK
  BY NetworkAssumption DEF Init, NetworkInit, TcpInit, TablesOK, ServersKnowTheirSockets, Ports, Closed,
     SSH_PORT, IPERF3_PORT
<1> QED
  BY <1>1, <1>2, <1>3 DEF NetworkInv

\* The network's variables keep their types.
LEMMA NetworkCorrect == Spec => []NetworkInv
BY NetworkStart, NetworkStep, PTL DEF Spec

\* Whatever opens, closes, times out, is refused or is cut off by a restart, a server
\* holds only entries that are open on its own port, and no two connection states the
\* same one (LatentRedTCPProtocol.cpp:66-103).
THEOREM SocketsCorrect == Spec => []ServersKnowTheirSockets
<1>1. NetworkInv => ServersKnowTheirSockets
  BY DEF NetworkInv, TablesOK
<1> QED
  BY <1>1, NetworkCorrect, PTL

-----------------------------------------------------------------------------
(* What the stack has been told of the link.                               *)

\* The three reads of the flag follow it; a flag that changes between them is counted.
LEMMA LinkStep ==
    ASSUME CoreInv, NetworkInv, LinkInv, [Next]_vars
    PROVE  LinkInv'
<1> USE DEF LinkInv, linkVars, networkVars, coreVars, Go, GoNext
<1>1. CASE UNCHANGED <<at, linkVars>>
  BY <1>1
<1>2. CASE /\ UNCHANGED linkVars /\ at \in Boot \union (Loop \ {"down", "save"})
           /\ at' \notin {"down", "save"}
  BY <1>2
<1>3. CASE Restart
  BY <1>3 DEF Restart, NetworkRestart
<1>4. CASE UNCHANGED linkVars /\ at' \notin Boot \union Loop
  BY <1>4 DEF Loop
<1>5. CASE BootApplication \/ BSP_InitUART \/ BSP_Init \/ App_Init
  BY <1>2, <1>5 DEF BootApplication, BSP_InitUART, BSP_Init, App_Init, Boot
<1>6. CASE InitTempSensor
  BY <1>2, <1>6 DEF InitTempSensor, AfterSensor, Boot
<1>7. CASE InitSCCB \/ InitLineCardPHY \/ InitInterfaces \/ InitFPGAFlash
  BY <1>2, <1>7 DEF InitSCCB, InitLineCardPHY, InitInterfaces, InitFPGAFlash, Boot
<1>8. CASE ReceiveFrame
  BY <1>2, <1>3, <1>8 DEF ReceiveFrame, Handled, ShowHardware, Loop
<1>9. CASE PrintLineCardInfo
  BY <1>2, <1>9 DEF PrintLineCardInfo, Loop, CoreInv, PlaceTypeOK
<1>10. CASE FollowLink
  <2>1. link \in BOOLEAN /\ g_basetLinkUp \in BOOLEAN /\ stackUp \in BOOLEAN
    BY DEF NetworkInv, FlagsOK
  <2>2. CASE at = "up" /\ NoticeUp /\ Go("down")
    BY <2>1, <2>2 DEF NoticeUp, Loop, Boot
  <2>3. CASE at = "down" /\ NoticeDown /\ Go("save")
    BY <2>1, <2>3 DEF NoticeDown, Loop, Boot
  <2>4. CASE at = "save" /\ SaveLink /\ Go("aging")
    BY <2>1, <2>4 DEF SaveLink, Loop, Boot
  <2> QED
    BY <1>10, <2>2, <2>3, <2>4 DEF FollowLink
<1>11. CASE Aging
  <2>1. UNCHANGED linkVars
    BY <1>11 DEF Aging, AgingCloses
  <2> QED
    BY <1>2, <1>11, <2>1 DEF Aging, Loop
<1>12. CASE ConsoleTask
  BY <1>2, <1>3, <1>12 DEF ConsoleTask, Handled, ShowHardware, Loop
<1>13. CASE Interrupt
  BY <1>1, <1>4, <1>13 DEF Interrupt, Loop, Boot
<1>14. CASE PrintReport
  BY <1>4, <1>14 DEF PrintReport, Reporting, Loop, Boot
<1>15. CASE Bootloader_FirmwareUpdateFlow
  BY <1>4, <1>15 DEF Bootloader_FirmwareUpdateFlow, Loop, Boot
<1>16. CASE Exception
  <2>1. at' \notin Boot \union Loop
    BY <1>16, ExceptionReports DEF Reporting, Boot, Loop
  <2> QED
    BY <1>4, <1>16, <2>1 DEF Exception
<1>17. CASE PowerCycled
  BY <1>3, <1>17 DEF PowerCycled
<1>18. CASE TypeLine
  BY <1>1, <1>18 DEF TypeLine
<1>19. CASE LinkChanges
  BY <1>19 DEF LinkChanges, LinkFlips
<1>20. CASE FrameComes
  <2>1. UNCHANGED linkVars
    BY <1>20 DEF FrameComes, FrameArrives
  <2> QED
    BY <1>1, <1>20, <2>1 DEF FrameComes
<1>21. CASE UNCHANGED vars
  BY <1>1, <1>21 DEF vars
<1> QED
  BY <1>5, <1>6, <1>7, <1>8, <1>9, <1>10, <1>11, <1>12, <1>13, <1>14, <1>15, <1>16, <1>17, <1>18,
     <1>19, <1>20, <1>21 DEF Next, Core

\* At the end of a pass the stack has been told of the link state FPGATask remembers,
\* unless the flag changed between the reads of one pass (FPGATask.cpp:44-57).
THEOREM LinkCorrect == Spec => []StackKnowsLink
<1>1. Init => LinkInv
  BY DEF Init, NetworkInit, LinkInv, Boot
<1>2. LinkInv => StackKnowsLink
  BY DEF LinkInv, StackKnowsLink, Loop
<1> QED
  BY <1>1, <1>2, CoreCorrect, NetworkCorrect, LinkStep, PTL DEF Spec

-----------------------------------------------------------------------------
(* Type correctness.                                                       *)

\* Every variable of the processor, its sensors and its network holds a value of its
\* type, and the main loop is reached only with both PHYs up (Init.cpp:147-207).
THEOREM TypeCorrect == Spec => []TypeOK
<1>1. ASSUME CoreInv, SensorInv, NetworkInv PROVE TypeOK
  <2>1. SensorTypeOK /\ NetworkTypeOK
    BY <1>1 DEF SensorInv, NetworkInv, FramesOK, FlagsOK, TablesOK, NetworkTypeOK, ServersKnowTheirSockets
  <2> QED
    BY <1>1, <2>1 DEF TypeOK, CoreInv, PlaceTypeOK, ConsoleTypeOK, CountTypeOK, Progress
<1> QED
  BY <1>1, CoreCorrect, SensorsCorrect, NetworkCorrect, PTL

-----------------------------------------------------------------------------
(* The command language: the lines the tables accept, worked out table by  *)
(* table, and what the switches make of each of them.                      *)

\* The line that each handler answers.
LineOf(handler) ==
    CASE handler = "OnCommit" -> <<"CMD_COMMIT">>
      [] handler = "Exit" -> <<"CMD_EXIT">>
      [] handler = "Compact" -> <<"CMD_FLASH", "CMD_COMPACT">>
      [] handler = "SetHostname" -> <<"CMD_HOSTNAME", "FREEFORM_TOKEN">>
      [] handler = "OnIPAddress" -> <<"CMD_IP", "CMD_ADDRESS", "FREEFORM_TOKEN">>
      [] handler = "OnIPGateway" -> <<"CMD_IP", "CMD_GATEWAY", "FREEFORM_TOKEN">>
      [] handler = "RemoveFlashKey" -> <<"CMD_NO", "CMD_FLASH", "FREEFORM_TOKEN">>
      [] handler = "NTP.Disable" -> <<"CMD_NO", "CMD_NTP">>
      [] handler = "RemovePublicKey" -> <<"CMD_NO", "CMD_SSH", "CMD_KEY", "FREEFORM_TOKEN">>
      [] handler = "OnNtpServer" -> <<"CMD_NTP", "CMD_SERVER", "FREEFORM_TOKEN">>
      [] handler = "OnReload" -> <<"CMD_RELOAD">>
      [] handler = "OnRollback" -> <<"CMD_ROLLBACK">>
      [] handler = "PrintFlashSummary" -> <<"CMD_SHOW", "CMD_FLASH", "OPTIONAL_TOKEN">>
      [] handler = "PrintFlashDetails" -> <<"CMD_SHOW", "CMD_FLASH", "CMD_DETAIL", "FREEFORM_TOKEN">>
      [] handler = "OnShowHardware" -> <<"CMD_SHOW", "CMD_HARDWARE">>
      [] handler = "OnShowInterfaceStatus" -> <<"CMD_SHOW", "CMD_INTERFACE", "CMD_STATUS">>
      [] handler = "PrintIPAddress" -> <<"CMD_SHOW", "CMD_IP", "CMD_ADDRESS">>
      [] handler = "PrintDefaultRoute" -> <<"CMD_SHOW", "CMD_IP", "CMD_ROUTE">>
      [] handler = "PrintNTP" -> <<"CMD_SHOW", "CMD_NTP">>
      [] handler = "PrintSSHKeys" -> <<"CMD_SHOW", "CMD_SSH", "CMD_AUTHORIZED", "CMD_KEYS">>
      [] handler = "PrintSSHHostKey" -> <<"CMD_SHOW", "CMD_SSH", "CMD_FINGERPRINT">>
      [] handler = "OnShowVersion" -> <<"CMD_SHOW", "CMD_VERSION">>
      [] handler = "AddPublicKey" -> <<"CMD_SSH", "CMD_KEY", "CMD_SSH_ED25519", "FREEFORM_TOKEN", "FREEFORM_TOKEN">>
      [] handler = "SetUsername" -> <<"CMD_SSH", "CMD_USERNAME", "FREEFORM_TOKEN">>
      [] handler = "Zeroize" -> <<"CMD_ZEROIZE", "FREEFORM_TOKEN">>
Handlers ==
    {"OnCommit", "Exit", "Compact", "SetHostname", "OnIPAddress",
     "OnIPGateway", "RemoveFlashKey", "NTP.Disable", "RemovePublicKey", "OnNtpServer",
     "OnReload", "OnRollback", "PrintFlashSummary", "PrintFlashDetails", "OnShowHardware",
     "OnShowInterfaceStatus", "PrintIPAddress", "PrintDefaultRoute", "PrintNTP", "PrintSSHKeys",
     "PrintSSHHostKey", "OnShowVersion", "AddPublicKey", "SetUsername", "Zeroize"}

Part(ids, nexts) == [ids |-> ids, next |-> nexts]
Complete == {Part(LineOf(handler), End) : handler \in Handlers}

\* The lines that are not complete after one, two, three and four tokens.
Open1 ==
    {Part(<<"CMD_FLASH">>, g_flashCommands),
     Part(<<"CMD_HOSTNAME">>, g_hostnameCommands),
     Part(<<"CMD_IP">>, g_ipCommands),
     Part(<<"CMD_NO">>, g_noCommands),
     Part(<<"CMD_NTP">>, g_ntpCommands),
     Part(<<"CMD_SHOW">>, g_showCommands),
     Part(<<"CMD_SSH">>, g_sshCommands),
     Part(<<"CMD_ZEROIZE">>, g_zeroizeCommands)}
Open2 ==
    {Part(<<"CMD_IP", "CMD_ADDRESS">>, g_ipAddressCommands),
     Part(<<"CMD_IP", "CMD_GATEWAY">>, g_ipGatewayCommands),
     Part(<<"CMD_NO", "CMD_FLASH">>, g_noFlashCommands),
     Part(<<"CMD_NO", "CMD_SSH">>, g_noSshCommands),
     Part(<<"CMD_NTP", "CMD_SERVER">>, g_ntpServerCommands),
     Part(<<"CMD_SHOW", "CMD_FLASH">>, g_showFlashCommands),
     Part(<<"CMD_SHOW", "CMD_INTERFACE">>, g_showInterfaceCommands),
     Part(<<"CMD_SHOW", "CMD_IP">>, g_showIpCommands),
     Part(<<"CMD_SHOW", "CMD_SSH">>, g_showSshCommands),
     Part(<<"CMD_SSH", "CMD_KEY">>, g_sshCommandsType),
     Part(<<"CMD_SSH", "CMD_USERNAME">>, g_sshCommandsUsername)}
Open3 ==
    {Part(<<"CMD_NO", "CMD_SSH", "CMD_KEY">>, g_noSshKeyCommands),
     Part(<<"CMD_SHOW", "CMD_FLASH", "CMD_DETAIL">>, g_showFlashDetailCommands),
     Part(<<"CMD_SHOW", "CMD_SSH", "CMD_AUTHORIZED">>, g_showSshAuthorized),
     Part(<<"CMD_SSH", "CMD_KEY", "CMD_SSH_ED25519">>, g_sshCommandsBlob)}
Open4 ==
    {Part(<<"CMD_SSH", "CMD_KEY", "CMD_SSH_ED25519", "FREEFORM_TOKEN">>, g_sshCommandsDescription)}

\* Whatever may follow a line that is not complete makes it one of a set of lines.
Leads(p, parts) ==
    /\ p.next # End
    /\ \A entry \in p.next : Part(Append(p.ids, entry[1]), entry[2]) \in parts

\* One token more takes lines that are complete, or lead somewhere, there.
LEMMA NextToken ==
    ASSUME NEW S, NEW T, NEW lines, lines \subseteq Complete \union S,
           \A p \in S : Leads(p, Complete \union T)
    PROVE  Longer(lines) \subseteq Complete \union T
<1> SUFFICES ASSUME NEW e \in Longer(lines) PROVE e \in Complete \union T
  OBVIOUS
<1>1. PICK p \in lines :
         e \in IF p.next = End THEN {p} ELSE {[ids |-> Append(p.ids, entry[1]), next |-> entry[2]] : entry \in p.next}
  BY DEF Longer
<1>2. CASE p \in Complete
  <2>1. p.next = End
    <3>1. PICK handler \in Handlers : p = Part(LineOf(handler), End)
      BY <1>2 DEF Complete
    <3> QED BY <3>1 DEF Part
  <2>2. e = p
    BY <1>1, <2>1
  <2> QED BY <1>2, <2>2
<1>3. CASE p \in S
  BY <1>1, <1>3 DEF Leads, Part
<1> QED BY <1>2, <1>3

\* A line that is not complete leads where each entry of its table does.
LEMMA LeadsBy ==
    ASSUME NEW ids, NEW nexts, nexts # End, NEW parts,
           \A entry \in nexts : Part(Append(ids, entry[1]), entry[2]) \in parts
    PROVE  Leads(Part(ids, nexts), parts)
BY DEF Leads, Part

\* A token behind a line of none to four.
LEMMA Appended ==
    /\ \A a : Append(<<>>, a) = <<a>>
    /\ \A a, b : Append(<<a>>, b) = <<a, b>>
    /\ \A a, b, c : Append(<<a, b>>, c) = <<a, b, c>>
    /\ \A a, b, c, d : Append(<<a, b, c>>, d) = <<a, b, c, d>>
    /\ \A a, b, c, d, e : Append(<<a, b, c, d>>, e) = <<a, b, c, d, e>>
<1>1. \A a : Append(<<>>, a) = <<a>>
  OBVIOUS
<1>2. ASSUME NEW a, NEW b PROVE Append(<<a>>, b) = <<a, b>>
  <2>1. PICK S : a \in S /\ b \in S
    <3>1. a \in {a, b} /\ b \in {a, b}
      OBVIOUS
    <3> QED BY <3>1
  <2>2. <<a>> \in Seq(S) /\ Len(<<a>>) = 1 /\ <<a>>[1] = a
    BY <2>1
  <2>3. <<a, b>> \in Seq(S) /\ Len(<<a, b>>) = 2 /\ <<a, b>>[1] = a /\ <<a, b>>[2] = b
    BY <2>1
  <2>4. Append(<<a>>, b) \in Seq(S)
    BY <2>1, <2>2
  <2>5. PICK t \in Seq(S) : t = Append(<<a>>, b)
    BY <2>4
  <2>6. Len(t) = 2 /\ t[1] = a /\ t[2] = b
    BY <2>1, <2>2, <2>5
  <2>7. \A s, u \in Seq(S) : Len(s) = 2 /\ Len(u) = 2 /\ s[1] = u[1] /\ s[2] = u[2] => s = u
    OBVIOUS
  <2> QED BY <2>3, <2>5, <2>6, <2>7
<1>3. ASSUME NEW a, NEW b, NEW c PROVE Append(<<a, b>>, c) = <<a, b, c>>
  <2>1. PICK S : a \in S /\ b \in S /\ c \in S
    <3>1. a \in {a, b, c} /\ b \in {a, b, c} /\ c \in {a, b, c}
      OBVIOUS
    <3> QED BY <3>1
  <2>2. <<a, b>> \in Seq(S) /\ Len(<<a, b>>) = 2 /\ <<a, b>>[1] = a /\ <<a, b>>[2] = b
    BY <2>1
  <2>3. <<a, b, c>> \in Seq(S) /\ Len(<<a, b, c>>) = 3 /\ <<a, b, c>>[1] = a
          /\ <<a, b, c>>[2] = b /\ <<a, b, c>>[3] = c
    BY <2>1
  <2>4. Append(<<a, b>>, c) \in Seq(S)
    BY <2>1, <2>2
  <2>5. PICK t \in Seq(S) : t = Append(<<a, b>>, c)
    BY <2>4
  <2>6. Len(t) = 3 /\ t[1] = a /\ t[2] = b /\ t[3] = c
    BY <2>1, <2>2, <2>5
  <2>7. \A s, u \in Seq(S) : Len(s) = 3 /\ Len(u) = 3 /\ s[1] = u[1] /\ s[2] = u[2]
          /\ s[3] = u[3] => s = u
    OBVIOUS
  <2> QED BY <2>3, <2>5, <2>6, <2>7
<1>4. ASSUME NEW a, NEW b, NEW c, NEW d PROVE Append(<<a, b, c>>, d) = <<a, b, c, d>>
  <2>1. PICK S : a \in S /\ b \in S /\ c \in S /\ d \in S
    <3>1. a \in {a, b, c, d} /\ b \in {a, b, c, d} /\ c \in {a, b, c, d} /\ d \in {a, b, c, d}
      OBVIOUS
    <3> QED BY <3>1
  <2>2. <<a, b, c>> \in Seq(S) /\ Len(<<a, b, c>>) = 3 /\ <<a, b, c>>[1] = a
          /\ <<a, b, c>>[2] = b /\ <<a, b, c>>[3] = c
    BY <2>1
  <2>3. <<a, b, c, d>> \in Seq(S) /\ Len(<<a, b, c, d>>) = 4 /\ <<a, b, c, d>>[1] = a
          /\ <<a, b, c, d>>[2] = b /\ <<a, b, c, d>>[3] = c /\ <<a, b, c, d>>[4] = d
    BY <2>1
  <2>4. Append(<<a, b, c>>, d) \in Seq(S)
    BY <2>1, <2>2
  <2>5. PICK t \in Seq(S) : t = Append(<<a, b, c>>, d)
    BY <2>4
  <2>6. Len(t) = 4 /\ t[1] = a /\ t[2] = b /\ t[3] = c /\ t[4] = d
    BY <2>1, <2>2, <2>5
  <2>7. \A s, u \in Seq(S) : Len(s) = 4 /\ Len(u) = 4 /\ s[1] = u[1] /\ s[2] = u[2]
          /\ s[3] = u[3] /\ s[4] = u[4] => s = u
    OBVIOUS
  <2> QED BY <2>3, <2>5, <2>6, <2>7
<1>5. ASSUME NEW a, NEW b, NEW c, NEW d, NEW e PROVE Append(<<a, b, c, d>>, e) = <<a, b, c, d, e>>
  <2>1. PICK S : a \in S /\ b \in S /\ c \in S /\ d \in S /\ e \in S
    <3>1. a \in {a, b, c, d, e} /\ b \in {a, b, c, d, e} /\ c \in {a, b, c, d, e}
            /\ d \in {a, b, c, d, e} /\ e \in {a, b, c, d, e}
      OBVIOUS
    <3> QED BY <3>1
  <2>2. <<a, b, c, d>> \in Seq(S) /\ Len(<<a, b, c, d>>) = 4 /\ <<a, b, c, d>>[1] = a
          /\ <<a, b, c, d>>[2] = b /\ <<a, b, c, d>>[3] = c /\ <<a, b, c, d>>[4] = d
    BY <2>1
  <2>3. <<a, b, c, d, e>> \in Seq(S) /\ Len(<<a, b, c, d, e>>) = 5 /\ <<a, b, c, d, e>>[1] = a
          /\ <<a, b, c, d, e>>[2] = b /\ <<a, b, c, d, e>>[3] = c /\ <<a, b, c, d, e>>[4] = d
          /\ <<a, b, c, d, e>>[5] = e
    BY <2>1
  <2>4. Append(<<a, b, c, d>>, e) \in Seq(S)
    BY <2>1, <2>2
  <2>5. PICK t \in Seq(S) : t = Append(<<a, b, c, d>>, e)
    BY <2>4
  <2>6. Len(t) = 5 /\ t[1] = a /\ t[2] = b /\ t[3] = c /\ t[4] = d /\ t[5] = e
    BY <2>1, <2>2, <2>5
  <2>7. \A s, u \in Seq(S) : Len(s) = 5 /\ Len(u) = 5 /\ s[1] = u[1] /\ s[2] = u[2]
          /\ s[3] = u[3] /\ s[4] = u[4] /\ s[5] = u[5] => s = u
    OBVIOUS
  <2> QED BY <2>3, <2>5, <2>6, <2>7
<1> QED BY <1>1, <1>2, <1>3, <1>4, <1>5

\* A line of the list is complete.
LEMMA LineComplete ==
    ASSUME NEW handler \in Handlers
    PROVE  Part(LineOf(handler), End) \in Complete
BY DEF Complete

\* The first token.
LEMMA Token1 == \A p \in {Part(<<>>, g_rootCommands)} : Leads(p, Complete \union Open1)
<1>1. Leads(Part(<<>>, g_rootCommands), Complete \union Open1)
  <2>1. /\ "OnCommit" \in Handlers /\ LineOf("OnCommit") = <<"CMD_COMMIT">>
        /\ "Exit" \in Handlers /\ LineOf("Exit") = <<"CMD_EXIT">>
        /\ "OnReload" \in Handlers /\ LineOf("OnReload") = <<"CMD_RELOAD">>
        /\ "OnRollback" \in Handlers /\ LineOf("OnRollback") = <<"CMD_ROLLBACK">>
    BY DEF Handlers, LineOf
  <2>2. /\ Part(<<"CMD_COMMIT">>, End) \in Complete
        /\ Part(<<"CMD_EXIT">>, End) \in Complete
        /\ Part(<<"CMD_RELOAD">>, End) \in Complete
        /\ Part(<<"CMD_ROLLBACK">>, End) \in Complete
    BY <2>1, LineComplete
  <2>3. /\ Append(<<>>, "CMD_COMMIT") = <<"CMD_COMMIT">>
        /\ Append(<<>>, "CMD_EXIT") = <<"CMD_EXIT">>
        /\ Append(<<>>, "CMD_FLASH") = <<"CMD_FLASH">>
        /\ Append(<<>>, "CMD_HOSTNAME") = <<"CMD_HOSTNAME">>
        /\ Append(<<>>, "CMD_IP") = <<"CMD_IP">>
        /\ Append(<<>>, "CMD_NO") = <<"CMD_NO">>
        /\ Append(<<>>, "CMD_NTP") = <<"CMD_NTP">>
        /\ Append(<<>>, "CMD_RELOAD") = <<"CMD_RELOAD">>
        /\ Append(<<>>, "CMD_ROLLBACK") = <<"CMD_ROLLBACK">>
        /\ Append(<<>>, "CMD_SHOW") = <<"CMD_SHOW">>
        /\ Append(<<>>, "CMD_SSH") = <<"CMD_SSH">>
        /\ Append(<<>>, "CMD_ZEROIZE") = <<"CMD_ZEROIZE">>
    BY Appended
  <2>4. g_rootCommands # End /\ \A entry \in g_rootCommands :
           \/ entry[1] = "CMD_COMMIT" /\ entry[2] = End
           \/ entry[1] = "CMD_EXIT" /\ entry[2] = End
           \/ entry[1] = "CMD_FLASH" /\ entry[2] = g_flashCommands
           \/ entry[1] = "CMD_HOSTNAME" /\ entry[2] = g_hostnameCommands
           \/ entry[1] = "CMD_IP" /\ entry[2] = g_ipCommands
           \/ entry[1] = "CMD_NO" /\ entry[2] = g_noCommands
           \/ entry[1] = "CMD_NTP" /\ entry[2] = g_ntpCommands
           \/ entry[1] = "CMD_RELOAD" /\ entry[2] = End
           \/ entry[1] = "CMD_ROLLBACK" /\ entry[2] = End
           \/ entry[1] = "CMD_SHOW" /\ entry[2] = g_showCommands
           \/ entry[1] = "CMD_SSH" /\ entry[2] = g_sshCommands
           \/ entry[1] = "CMD_ZEROIZE" /\ entry[2] = g_zeroizeCommands
    BY DEF End, g_rootCommands
  <2>5. \A entry \in g_rootCommands :
          Part(Append(<<>>, entry[1]), entry[2]) \in Complete \union Open1
    BY <2>2, <2>3, <2>4 DEF Open1
  <2> QED BY <2>4, <2>5, LeadsBy
<1> QED BY <1>1

\* The second token.
LEMMA Token2 == \A p \in Open1 : Leads(p, Complete \union Open2)
<1>1. Leads(Part(<<"CMD_FLASH">>, g_flashCommands), Complete \union Open2)
  <2>1. /\ "Compact" \in Handlers /\ LineOf("Compact") = <<"CMD_FLASH", "CMD_COMPACT">>
    BY DEF Handlers, LineOf
  <2>2. /\ Part(<<"CMD_FLASH", "CMD_COMPACT">>, End) \in Complete
    BY <2>1, LineComplete
  <2>3. /\ Append(<<"CMD_FLASH">>, "CMD_COMPACT") = <<"CMD_FLASH", "CMD_COMPACT">>
    BY Appended
  <2>4. g_flashCommands # End /\ \A entry \in g_flashCommands :
           \/ entry[1] = "CMD_COMPACT" /\ entry[2] = End
    BY DEF End, g_flashCommands
  <2>5. \A entry \in g_flashCommands :
          Part(Append(<<"CMD_FLASH">>, entry[1]), entry[2]) \in Complete \union Open2
    BY <2>2, <2>3, <2>4
  <2> QED BY <2>4, <2>5, LeadsBy
<1>2. Leads(Part(<<"CMD_HOSTNAME">>, g_hostnameCommands), Complete \union Open2)
  <2>1. /\ "SetHostname" \in Handlers
      /\ LineOf("SetHostname") = <<"CMD_HOSTNAME", "FREEFORM_TOKEN">>
    BY DEF Handlers, LineOf
  <2>2. /\ Part(<<"CMD_HOSTNAME", "FREEFORM_TOKEN">>, End) \in Complete
    BY <2>1, LineComplete
  <2>3. /\ Append(<<"CMD_HOSTNAME">>, "FREEFORM_TOKEN") = <<"CMD_HOSTNAME", "FREEFORM_TOKEN">>
    BY Appended
  <2>4. g_hostnameCommands # End /\ \A entry \in g_hostnameCommands :
           \/ entry[1] = "FREEFORM_TOKEN" /\ entry[2] = End
    BY DEF End, g_hostnameCommands
  <2>5. \A entry \in g_hostnameCommands :
          Part(Append(<<"CMD_HOSTNAME">>, entry[1]), entry[2]) \in Complete \union Open2
    BY <2>2, <2>3, <2>4
  <2> QED BY <2>4, <2>5, LeadsBy
<1>3. Leads(Part(<<"CMD_IP">>, g_ipCommands), Complete \union Open2)
  <2>3. /\ Append(<<"CMD_IP">>, "CMD_ADDRESS") = <<"CMD_IP", "CMD_ADDRESS">>
        /\ Append(<<"CMD_IP">>, "CMD_GATEWAY") = <<"CMD_IP", "CMD_GATEWAY">>
    BY Appended
  <2>4. g_ipCommands # End /\ \A entry \in g_ipCommands :
           \/ entry[1] = "CMD_ADDRESS" /\ entry[2] = g_ipAddressCommands
           \/ entry[1] = "CMD_GATEWAY" /\ entry[2] = g_ipGatewayCommands
    BY DEF End, g_ipCommands
  <2>5. \A entry \in g_ipCommands :
          Part(Append(<<"CMD_IP">>, entry[1]), entry[2]) \in Complete \union Open2
    BY <2>3, <2>4 DEF Open2
  <2> QED BY <2>4, <2>5, LeadsBy
<1>4. Leads(Part(<<"CMD_NO">>, g_noCommands), Complete \union Open2)
  <2>1. /\ "NTP.Disable" \in Handlers /\ LineOf("NTP.Disable") = <<"CMD_NO", "CMD_NTP">>
    BY DEF Handlers, LineOf
  <2>2. /\ Part(<<"CMD_NO", "CMD_NTP">>, End) \in Complete
    BY <2>1, LineComplete
  <2>3. /\ Append(<<"CMD_NO">>, "CMD_FLASH") = <<"CMD_NO", "CMD_FLASH">>
        /\ Append(<<"CMD_NO">>, "CMD_NTP") = <<"CMD_NO", "CMD_NTP">>
        /\ Append(<<"CMD_NO">>, "CMD_SSH") = <<"CMD_NO", "CMD_SSH">>
    BY Appended
  <2>4. g_noCommands # End /\ \A entry \in g_noCommands :
           \/ entry[1] = "CMD_FLASH" /\ entry[2] = g_noFlashCommands
           \/ entry[1] = "CMD_NTP" /\ entry[2] = End
           \/ entry[1] = "CMD_SSH" /\ entry[2] = g_noSshCommands
    BY DEF End, g_noCommands
  <2>5. \A entry \in g_noCommands :
          Part(Append(<<"CMD_NO">>, entry[1]), entry[2]) \in Complete \union Open2
    BY <2>2, <2>3, <2>4 DEF Open2
  <2> QED BY <2>4, <2>5, LeadsBy
<1>5. Leads(Part(<<"CMD_NTP">>, g_ntpCommands), Complete \union Open2)
  <2>3. /\ Append(<<"CMD_NTP">>, "CMD_SERVER") = <<"CMD_NTP", "CMD_SERVER">>
    BY Appended
  <2>4. g_ntpCommands # End /\ \A entry \in g_ntpCommands :
           \/ entry[1] = "CMD_SERVER" /\ entry[2] = g_ntpServerCommands
    BY DEF End, g_ntpCommands
  <2>5. \A entry \in g_ntpCommands :
          Part(Append(<<"CMD_NTP">>, entry[1]), entry[2]) \in Complete \union Open2
    BY <2>3, <2>4 DEF Open2
  <2> QED BY <2>4, <2>5, LeadsBy
<1>6. Leads(Part(<<"CMD_SHOW">>, g_showCommands), Complete \union Open2)
  <2>1. /\ "OnShowHardware" \in Handlers
      /\ LineOf("OnShowHardware") = <<"CMD_SHOW", "CMD_HARDWARE">>
        /\ "PrintNTP" \in Handlers /\ LineOf("PrintNTP") = <<"CMD_SHOW", "CMD_NTP">>
        /\ "OnShowVersion" \in Handlers /\ LineOf("OnShowVersion") = <<"CMD_SHOW", "CMD_VERSION">>
    BY DEF Handlers, LineOf
  <2>2. /\ Part(<<"CMD_SHOW", "CMD_HARDWARE">>, End) \in Complete
        /\ Part(<<"CMD_SHOW", "CMD_NTP">>, End) \in Complete
        /\ Part(<<"CMD_SHOW", "CMD_VERSION">>, End) \in Complete
    BY <2>1, LineComplete
  <2>3. /\ Append(<<"CMD_SHOW">>, "CMD_FLASH") = <<"CMD_SHOW", "CMD_FLASH">>
        /\ Append(<<"CMD_SHOW">>, "CMD_HARDWARE") = <<"CMD_SHOW", "CMD_HARDWARE">>
        /\ Append(<<"CMD_SHOW">>, "CMD_INTERFACE") = <<"CMD_SHOW", "CMD_INTERFACE">>
        /\ Append(<<"CMD_SHOW">>, "CMD_IP") = <<"CMD_SHOW", "CMD_IP">>
        /\ Append(<<"CMD_SHOW">>, "CMD_NTP") = <<"CMD_SHOW", "CMD_NTP">>
        /\ Append(<<"CMD_SHOW">>, "CMD_SSH") = <<"CMD_SHOW", "CMD_SSH">>
        /\ Append(<<"CMD_SHOW">>, "CMD_VERSION") = <<"CMD_SHOW", "CMD_VERSION">>
    BY Appended
  <2>4. g_showCommands # End /\ \A entry \in g_showCommands :
           \/ entry[1] = "CMD_FLASH" /\ entry[2] = g_showFlashCommands
           \/ entry[1] = "CMD_HARDWARE" /\ entry[2] = End
           \/ entry[1] = "CMD_INTERFACE" /\ entry[2] = g_showInterfaceCommands
           \/ entry[1] = "CMD_IP" /\ entry[2] = g_showIpCommands
           \/ entry[1] = "CMD_NTP" /\ entry[2] = End
           \/ entry[1] = "CMD_SSH" /\ entry[2] = g_showSshCommands
           \/ entry[1] = "CMD_VERSION" /\ entry[2] = End
    BY DEF End, g_showCommands
  <2>5. \A entry \in g_showCommands :
          Part(Append(<<"CMD_SHOW">>, entry[1]), entry[2]) \in Complete \union Open2
    BY <2>2, <2>3, <2>4 DEF Open2
  <2> QED BY <2>4, <2>5, LeadsBy
<1>7. Leads(Part(<<"CMD_SSH">>, g_sshCommands), Complete \union Open2)
  <2>3. /\ Append(<<"CMD_SSH">>, "CMD_KEY") = <<"CMD_SSH", "CMD_KEY">>
        /\ Append(<<"CMD_SSH">>, "CMD_USERNAME") = <<"CMD_SSH", "CMD_USERNAME">>
    BY Appended
  <2>4. g_sshCommands # End /\ \A entry \in g_sshCommands :
           \/ entry[1] = "CMD_KEY" /\ entry[2] = g_sshCommandsType
           \/ entry[1] = "CMD_USERNAME" /\ entry[2] = g_sshCommandsUsername
    BY DEF End, g_sshCommands
  <2>5. \A entry \in g_sshCommands :
          Part(Append(<<"CMD_SSH">>, entry[1]), entry[2]) \in Complete \union Open2
    BY <2>3, <2>4 DEF Open2
  <2> QED BY <2>4, <2>5, LeadsBy
<1>8. Leads(Part(<<"CMD_ZEROIZE">>, g_zeroizeCommands), Complete \union Open2)
  <2>1. /\ "Zeroize" \in Handlers /\ LineOf("Zeroize") = <<"CMD_ZEROIZE", "FREEFORM_TOKEN">>
    BY DEF Handlers, LineOf
  <2>2. /\ Part(<<"CMD_ZEROIZE", "FREEFORM_TOKEN">>, End) \in Complete
    BY <2>1, LineComplete
  <2>3. /\ Append(<<"CMD_ZEROIZE">>, "FREEFORM_TOKEN") = <<"CMD_ZEROIZE", "FREEFORM_TOKEN">>
    BY Appended
  <2>4. g_zeroizeCommands # End /\ \A entry \in g_zeroizeCommands :
           \/ entry[1] = "FREEFORM_TOKEN" /\ entry[2] = End
    BY DEF End, g_zeroizeCommands
  <2>5. \A entry \in g_zeroizeCommands :
          Part(Append(<<"CMD_ZEROIZE">>, entry[1]), entry[2]) \in Complete \union Open2
    BY <2>2, <2>3, <2>4
  <2> QED BY <2>4, <2>5, LeadsBy
<1> QED BY <1>1, <1>2, <1>3, <1>4, <1>5, <1>6, <1>7, <1>8 DEF Open1

\* The third token.
LEMMA Token3 == \A p \in Open2 : Leads(p, Complete \union Open3)
<1>1. Leads(Part(<<"CMD_IP", "CMD_ADDRESS">>, g_ipAddressCommands), Complete \union Open3)
  <2>1. /\ "OnIPAddress" \in Handlers
      /\ LineOf("OnIPAddress") = <<"CMD_IP", "CMD_ADDRESS", "FREEFORM_TOKEN">>
    BY DEF Handlers, LineOf
  <2>2. /\ Part(<<"CMD_IP", "CMD_ADDRESS", "FREEFORM_TOKEN">>, End) \in Complete
    BY <2>1, LineComplete
  <2>3. /\ Append(<<"CMD_IP", "CMD_ADDRESS">>, "FREEFORM_TOKEN") = <<"CMD_IP", "CMD_ADDRESS", "FREEFORM_TOKEN">>
    BY Appended
  <2>4. g_ipAddressCommands # End /\ \A entry \in g_ipAddressCommands :
           \/ entry[1] = "FREEFORM_TOKEN" /\ entry[2] = End
    BY DEF End, g_ipAddressCommands
  <2>5. \A entry \in g_ipAddressCommands :
          Part(Append(<<"CMD_IP", "CMD_ADDRESS">>, entry[1]), entry[2]) \in Complete \union Open3
    BY <2>2, <2>3, <2>4
  <2> QED BY <2>4, <2>5, LeadsBy
<1>2. Leads(Part(<<"CMD_IP", "CMD_GATEWAY">>, g_ipGatewayCommands), Complete \union Open3)
  <2>1. /\ "OnIPGateway" \in Handlers
      /\ LineOf("OnIPGateway") = <<"CMD_IP", "CMD_GATEWAY", "FREEFORM_TOKEN">>
    BY DEF Handlers, LineOf
  <2>2. /\ Part(<<"CMD_IP", "CMD_GATEWAY", "FREEFORM_TOKEN">>, End) \in Complete
    BY <2>1, LineComplete
  <2>3. /\ Append(<<"CMD_IP", "CMD_GATEWAY">>, "FREEFORM_TOKEN") = <<"CMD_IP", "CMD_GATEWAY", "FREEFORM_TOKEN">>
    BY Appended
  <2>4. g_ipGatewayCommands # End /\ \A entry \in g_ipGatewayCommands :
           \/ entry[1] = "FREEFORM_TOKEN" /\ entry[2] = End
    BY DEF End, g_ipGatewayCommands
  <2>5. \A entry \in g_ipGatewayCommands :
          Part(Append(<<"CMD_IP", "CMD_GATEWAY">>, entry[1]), entry[2]) \in Complete \union Open3
    BY <2>2, <2>3, <2>4
  <2> QED BY <2>4, <2>5, LeadsBy
<1>3. Leads(Part(<<"CMD_NO", "CMD_FLASH">>, g_noFlashCommands), Complete \union Open3)
  <2>1. /\ "RemoveFlashKey" \in Handlers
      /\ LineOf("RemoveFlashKey") = <<"CMD_NO", "CMD_FLASH", "FREEFORM_TOKEN">>
    BY DEF Handlers, LineOf
  <2>2. /\ Part(<<"CMD_NO", "CMD_FLASH", "FREEFORM_TOKEN">>, End) \in Complete
    BY <2>1, LineComplete
  <2>3. /\ Append(<<"CMD_NO", "CMD_FLASH">>, "FREEFORM_TOKEN") = <<"CMD_NO", "CMD_FLASH", "FREEFORM_TOKEN">>
    BY Appended
  <2>4. g_noFlashCommands # End /\ \A entry \in g_noFlashCommands :
           \/ entry[1] = "FREEFORM_TOKEN" /\ entry[2] = End
    BY DEF End, g_noFlashCommands
  <2>5. \A entry \in g_noFlashCommands :
          Part(Append(<<"CMD_NO", "CMD_FLASH">>, entry[1]), entry[2]) \in Complete \union Open3
    BY <2>2, <2>3, <2>4
  <2> QED BY <2>4, <2>5, LeadsBy
<1>4. Leads(Part(<<"CMD_NO", "CMD_SSH">>, g_noSshCommands), Complete \union Open3)
  <2>3. /\ Append(<<"CMD_NO", "CMD_SSH">>, "CMD_KEY") = <<"CMD_NO", "CMD_SSH", "CMD_KEY">>
    BY Appended
  <2>4. g_noSshCommands # End /\ \A entry \in g_noSshCommands :
           \/ entry[1] = "CMD_KEY" /\ entry[2] = g_noSshKeyCommands
    BY DEF End, g_noSshCommands
  <2>5. \A entry \in g_noSshCommands :
          Part(Append(<<"CMD_NO", "CMD_SSH">>, entry[1]), entry[2]) \in Complete \union Open3
    BY <2>3, <2>4 DEF Open3
  <2> QED BY <2>4, <2>5, LeadsBy
<1>5. Leads(Part(<<"CMD_NTP", "CMD_SERVER">>, g_ntpServerCommands), Complete \union Open3)
  <2>1. /\ "OnNtpServer" \in Handlers
      /\ LineOf("OnNtpServer") = <<"CMD_NTP", "CMD_SERVER", "FREEFORM_TOKEN">>
    BY DEF Handlers, LineOf
  <2>2. /\ Part(<<"CMD_NTP", "CMD_SERVER", "FREEFORM_TOKEN">>, End) \in Complete
    BY <2>1, LineComplete
  <2>3. /\ Append(<<"CMD_NTP", "CMD_SERVER">>, "FREEFORM_TOKEN") = <<"CMD_NTP", "CMD_SERVER", "FREEFORM_TOKEN">>
    BY Appended
  <2>4. g_ntpServerCommands # End /\ \A entry \in g_ntpServerCommands :
           \/ entry[1] = "FREEFORM_TOKEN" /\ entry[2] = End
    BY DEF End, g_ntpServerCommands
  <2>5. \A entry \in g_ntpServerCommands :
          Part(Append(<<"CMD_NTP", "CMD_SERVER">>, entry[1]), entry[2]) \in Complete \union Open3
    BY <2>2, <2>3, <2>4
  <2> QED BY <2>4, <2>5, LeadsBy
<1>6. Leads(Part(<<"CMD_SHOW", "CMD_FLASH">>, g_showFlashCommands), Complete \union Open3)
  <2>1. /\ "PrintFlashSummary" \in Handlers
      /\ LineOf("PrintFlashSummary") = <<"CMD_SHOW", "CMD_FLASH", "OPTIONAL_TOKEN">>
    BY DEF Handlers, LineOf
  <2>2. /\ Part(<<"CMD_SHOW", "CMD_FLASH", "OPTIONAL_TOKEN">>, End) \in Complete
    BY <2>1, LineComplete
  <2>3. /\ Append(<<"CMD_SHOW", "CMD_FLASH">>, "OPTIONAL_TOKEN") = <<"CMD_SHOW", "CMD_FLASH", "OPTIONAL_TOKEN">>
        /\ Append(<<"CMD_SHOW", "CMD_FLASH">>, "CMD_DETAIL") = <<"CMD_SHOW", "CMD_FLASH", "CMD_DETAIL">>
    BY Appended
  <2>4. g_showFlashCommands # End /\ \A entry \in g_showFlashCommands :
           \/ entry[1] = "OPTIONAL_TOKEN" /\ entry[2] = End
           \/ entry[1] = "CMD_DETAIL" /\ entry[2] = g_showFlashDetailCommands
    BY DEF End, g_showFlashCommands
  <2>5. \A entry \in g_showFlashCommands :
          Part(Append(<<"CMD_SHOW", "CMD_FLASH">>, entry[1]), entry[2]) \in Complete \union Open3
    BY <2>2, <2>3, <2>4 DEF Open3
  <2> QED BY <2>4, <2>5, LeadsBy
<1>7. Leads(Part(<<"CMD_SHOW", "CMD_INTERFACE">>, g_showInterfaceCommands), Complete \union Open3)
  <2>1. /\ "OnShowInterfaceStatus" \in Handlers
      /\ LineOf("OnShowInterfaceStatus") = <<"CMD_SHOW", "CMD_INTERFACE", "CMD_STATUS">>
    BY DEF Handlers, LineOf
  <2>2. /\ Part(<<"CMD_SHOW", "CMD_INTERFACE", "CMD_STATUS">>, End) \in Complete
    BY <2>1, LineComplete
  <2>3. /\ Append(<<"CMD_SHOW", "CMD_INTERFACE">>, "CMD_STATUS") = <<"CMD_SHOW", "CMD_INTERFACE", "CMD_STATUS">>
    BY Appended
  <2>4. g_showInterfaceCommands # End /\ \A entry \in g_showInterfaceCommands :
           \/ entry[1] = "CMD_STATUS" /\ entry[2] = End
    BY DEF End, g_showInterfaceCommands
  <2>5. \A entry \in g_showInterfaceCommands :
          Part(Append(<<"CMD_SHOW", "CMD_INTERFACE">>, entry[1]), entry[2]) \in Complete \union Open3
    BY <2>2, <2>3, <2>4
  <2> QED BY <2>4, <2>5, LeadsBy
<1>8. Leads(Part(<<"CMD_SHOW", "CMD_IP">>, g_showIpCommands), Complete \union Open3)
  <2>1. /\ "PrintIPAddress" \in Handlers
      /\ LineOf("PrintIPAddress") = <<"CMD_SHOW", "CMD_IP", "CMD_ADDRESS">>
        /\ "PrintDefaultRoute" \in Handlers
                /\ LineOf("PrintDefaultRoute") = <<"CMD_SHOW", "CMD_IP", "CMD_ROUTE">>
    BY DEF Handlers, LineOf
  <2>2. /\ Part(<<"CMD_SHOW", "CMD_IP", "CMD_ADDRESS">>, End) \in Complete
        /\ Part(<<"CMD_SHOW", "CMD_IP", "CMD_ROUTE">>, End) \in Complete
    BY <2>1, LineComplete
  <2>3. /\ Append(<<"CMD_SHOW", "CMD_IP">>, "CMD_ADDRESS") = <<"CMD_SHOW", "CMD_IP", "CMD_ADDRESS">>
        /\ Append(<<"CMD_SHOW", "CMD_IP">>, "CMD_ROUTE") = <<"CMD_SHOW", "CMD_IP", "CMD_ROUTE">>
    BY Appended
  <2>4. g_showIpCommands # End /\ \A entry \in g_showIpCommands :
           \/ entry[1] = "CMD_ADDRESS" /\ entry[2] = End
           \/ entry[1] = "CMD_ROUTE" /\ entry[2] = End
    BY DEF End, g_showIpCommands
  <2>5. \A entry \in g_showIpCommands :
          Part(Append(<<"CMD_SHOW", "CMD_IP">>, entry[1]), entry[2]) \in Complete \union Open3
    BY <2>2, <2>3, <2>4
  <2> QED BY <2>4, <2>5, LeadsBy
<1>9. Leads(Part(<<"CMD_SHOW", "CMD_SSH">>, g_showSshCommands), Complete \union Open3)
  <2>1. /\ "PrintSSHHostKey" \in Handlers
      /\ LineOf("PrintSSHHostKey") = <<"CMD_SHOW", "CMD_SSH", "CMD_FINGERPRINT">>
    BY DEF Handlers, LineOf
  <2>2. /\ Part(<<"CMD_SHOW", "CMD_SSH", "CMD_FINGERPRINT">>, End) \in Complete
    BY <2>1, LineComplete
  <2>3. /\ Append(<<"CMD_SHOW", "CMD_SSH">>, "CMD_AUTHORIZED") = <<"CMD_SHOW", "CMD_SSH", "CMD_AUTHORIZED">>
        /\ Append(<<"CMD_SHOW", "CMD_SSH">>, "CMD_FINGERPRINT") = <<"CMD_SHOW", "CMD_SSH", "CMD_FINGERPRINT">>
    BY Appended
  <2>4. g_showSshCommands # End /\ \A entry \in g_showSshCommands :
           \/ entry[1] = "CMD_AUTHORIZED" /\ entry[2] = g_showSshAuthorized
           \/ entry[1] = "CMD_FINGERPRINT" /\ entry[2] = End
    BY DEF End, g_showSshCommands
  <2>5. \A entry \in g_showSshCommands :
          Part(Append(<<"CMD_SHOW", "CMD_SSH">>, entry[1]), entry[2]) \in Complete \union Open3
    BY <2>2, <2>3, <2>4 DEF Open3
  <2> QED BY <2>4, <2>5, LeadsBy
<1>10. Leads(Part(<<"CMD_SSH", "CMD_KEY">>, g_sshCommandsType), Complete \union Open3)
  <2>3. /\ Append(<<"CMD_SSH", "CMD_KEY">>, "CMD_SSH_ED25519") = <<"CMD_SSH", "CMD_KEY", "CMD_SSH_ED25519">>
    BY Appended
  <2>4. g_sshCommandsType # End /\ \A entry \in g_sshCommandsType :
           \/ entry[1] = "CMD_SSH_ED25519" /\ entry[2] = g_sshCommandsBlob
    BY DEF End, g_sshCommandsType
  <2>5. \A entry \in g_sshCommandsType :
          Part(Append(<<"CMD_SSH", "CMD_KEY">>, entry[1]), entry[2]) \in Complete \union Open3
    BY <2>3, <2>4 DEF Open3
  <2> QED BY <2>4, <2>5, LeadsBy
<1>11. Leads(Part(<<"CMD_SSH", "CMD_USERNAME">>, g_sshCommandsUsername), Complete \union Open3)
  <2>1. /\ "SetUsername" \in Handlers
      /\ LineOf("SetUsername") = <<"CMD_SSH", "CMD_USERNAME", "FREEFORM_TOKEN">>
    BY DEF Handlers, LineOf
  <2>2. /\ Part(<<"CMD_SSH", "CMD_USERNAME", "FREEFORM_TOKEN">>, End) \in Complete
    BY <2>1, LineComplete
  <2>3. /\ Append(<<"CMD_SSH", "CMD_USERNAME">>, "FREEFORM_TOKEN") = <<"CMD_SSH", "CMD_USERNAME", "FREEFORM_TOKEN">>
    BY Appended
  <2>4. g_sshCommandsUsername # End /\ \A entry \in g_sshCommandsUsername :
           \/ entry[1] = "FREEFORM_TOKEN" /\ entry[2] = End
    BY DEF End, g_sshCommandsUsername
  <2>5. \A entry \in g_sshCommandsUsername :
          Part(Append(<<"CMD_SSH", "CMD_USERNAME">>, entry[1]), entry[2]) \in Complete \union Open3
    BY <2>2, <2>3, <2>4
  <2> QED BY <2>4, <2>5, LeadsBy
<1> QED BY <1>1, <1>2, <1>3, <1>4, <1>5, <1>6, <1>7, <1>8, <1>9, <1>10, <1>11 DEF Open2

\* The fourth token.
LEMMA Token4 == \A p \in Open3 : Leads(p, Complete \union Open4)
<1>1. Leads(Part(<<"CMD_NO", "CMD_SSH", "CMD_KEY">>, g_noSshKeyCommands), Complete \union Open4)
  <2>1. /\ "RemovePublicKey" \in Handlers
      /\ LineOf("RemovePublicKey") = <<"CMD_NO", "CMD_SSH", "CMD_KEY", "FREEFORM_TOKEN">>
    BY DEF Handlers, LineOf
  <2>2. /\ Part(<<"CMD_NO", "CMD_SSH", "CMD_KEY", "FREEFORM_TOKEN">>, End) \in Complete
    BY <2>1, LineComplete
  <2>3. /\ Append(<<"CMD_NO", "CMD_SSH", "CMD_KEY">>, "FREEFORM_TOKEN") = <<"CMD_NO", "CMD_SSH", "CMD_KEY", "FREEFORM_TOKEN">>
    BY Appended
  <2>4. g_noSshKeyCommands # End /\ \A entry \in g_noSshKeyCommands :
           \/ entry[1] = "FREEFORM_TOKEN" /\ entry[2] = End
    BY DEF End, g_noSshKeyCommands
  <2>5. \A entry \in g_noSshKeyCommands :
          Part(Append(<<"CMD_NO", "CMD_SSH", "CMD_KEY">>, entry[1]), entry[2]) \in Complete \union Open4
    BY <2>2, <2>3, <2>4
  <2> QED BY <2>4, <2>5, LeadsBy
<1>2. Leads(Part(<<"CMD_SHOW", "CMD_FLASH", "CMD_DETAIL">>, g_showFlashDetailCommands), Complete \union Open4)
  <2>1. /\ "PrintFlashDetails" \in Handlers
      /\ LineOf("PrintFlashDetails") = <<"CMD_SHOW", "CMD_FLASH", "CMD_DETAIL", "FREEFORM_TOKEN">>
    BY DEF Handlers, LineOf
  <2>2. /\ Part(<<"CMD_SHOW", "CMD_FLASH", "CMD_DETAIL", "FREEFORM_TOKEN">>, End) \in Complete
    BY <2>1, LineComplete
  <2>3. /\ Append(<<"CMD_SHOW", "CMD_FLASH", "CMD_DETAIL">>, "FREEFORM_TOKEN") = <<"CMD_SHOW", "CMD_FLASH", "CMD_DETAIL", "FREEFORM_TOKEN">>
    BY Appended
  <2>4. g_showFlashDetailCommands # End /\ \A entry \in g_showFlashDetailCommands :
           \/ entry[1] = "FREEFORM_TOKEN" /\ entry[2] = End
    BY DEF End, g_showFlashDetailCommands
  <2>5. \A entry \in g_showFlashDetailCommands :
          Part(Append(<<"CMD_SHOW", "CMD_FLASH", "CMD_DETAIL">>, entry[1]), entry[2]) \in Complete \union Open4
    BY <2>2, <2>3, <2>4
  <2> QED BY <2>4, <2>5, LeadsBy
<1>3. Leads(Part(<<"CMD_SHOW", "CMD_SSH", "CMD_AUTHORIZED">>, g_showSshAuthorized), Complete \union Open4)
  <2>1. /\ "PrintSSHKeys" \in Handlers
      /\ LineOf("PrintSSHKeys") = <<"CMD_SHOW", "CMD_SSH", "CMD_AUTHORIZED", "CMD_KEYS">>
    BY DEF Handlers, LineOf
  <2>2. /\ Part(<<"CMD_SHOW", "CMD_SSH", "CMD_AUTHORIZED", "CMD_KEYS">>, End) \in Complete
    BY <2>1, LineComplete
  <2>3. /\ Append(<<"CMD_SHOW", "CMD_SSH", "CMD_AUTHORIZED">>, "CMD_KEYS") = <<"CMD_SHOW", "CMD_SSH", "CMD_AUTHORIZED", "CMD_KEYS">>
    BY Appended
  <2>4. g_showSshAuthorized # End /\ \A entry \in g_showSshAuthorized :
           \/ entry[1] = "CMD_KEYS" /\ entry[2] = End
    BY DEF End, g_showSshAuthorized
  <2>5. \A entry \in g_showSshAuthorized :
          Part(Append(<<"CMD_SHOW", "CMD_SSH", "CMD_AUTHORIZED">>, entry[1]), entry[2]) \in Complete \union Open4
    BY <2>2, <2>3, <2>4
  <2> QED BY <2>4, <2>5, LeadsBy
<1>4. Leads(Part(<<"CMD_SSH", "CMD_KEY", "CMD_SSH_ED25519">>, g_sshCommandsBlob), Complete \union Open4)
  <2>3. /\ Append(<<"CMD_SSH", "CMD_KEY", "CMD_SSH_ED25519">>, "FREEFORM_TOKEN") = <<"CMD_SSH", "CMD_KEY", "CMD_SSH_ED25519", "FREEFORM_TOKEN">>
    BY Appended
  <2>4. g_sshCommandsBlob # End /\ \A entry \in g_sshCommandsBlob :
           \/ entry[1] = "FREEFORM_TOKEN" /\ entry[2] = g_sshCommandsDescription
    BY DEF End, g_sshCommandsBlob
  <2>5. \A entry \in g_sshCommandsBlob :
          Part(Append(<<"CMD_SSH", "CMD_KEY", "CMD_SSH_ED25519">>, entry[1]), entry[2]) \in Complete \union Open4
    BY <2>3, <2>4 DEF Open4
  <2> QED BY <2>4, <2>5, LeadsBy
<1> QED BY <1>1, <1>2, <1>3, <1>4 DEF Open3

\* The fifth token is the last.
LEMMA Token5 == \A p \in Open4 : Leads(p, Complete \union {})
<1>1. Leads(Part(<<"CMD_SSH", "CMD_KEY", "CMD_SSH_ED25519", "FREEFORM_TOKEN">>, g_sshCommandsDescription), Complete)
  <2>1. /\ "AddPublicKey" \in Handlers
      /\ LineOf("AddPublicKey") = <<"CMD_SSH", "CMD_KEY", "CMD_SSH_ED25519", "FREEFORM_TOKEN", "FREEFORM_TOKEN">>
    BY DEF Handlers, LineOf
  <2>2. /\ Part(<<"CMD_SSH", "CMD_KEY", "CMD_SSH_ED25519", "FREEFORM_TOKEN", "FREEFORM_TOKEN">>, End) \in Complete
    BY <2>1, LineComplete
  <2>3. /\ Append(<<"CMD_SSH", "CMD_KEY", "CMD_SSH_ED25519", "FREEFORM_TOKEN">>, "FREEFORM_TOKEN") = <<"CMD_SSH", "CMD_KEY", "CMD_SSH_ED25519", "FREEFORM_TOKEN", "FREEFORM_TOKEN">>
    BY Appended
  <2>4. g_sshCommandsDescription # End /\ \A entry \in g_sshCommandsDescription :
           \/ entry[1] = "FREEFORM_TOKEN" /\ entry[2] = End
    BY DEF End, g_sshCommandsDescription
  <2>5. \A entry \in g_sshCommandsDescription :
          Part(Append(<<"CMD_SSH", "CMD_KEY", "CMD_SSH_ED25519", "FREEFORM_TOKEN">>, entry[1]), entry[2]) \in Complete
    BY <2>2, <2>3, <2>4
  <2> QED BY <2>4, <2>5, LeadsBy
<1> QED BY <1>1 DEF Open4

\* The editor accepts the lines of the list and no others.
LEMMA AcceptedLines == Accepted \subseteq {LineOf(handler) : handler \in Handlers}
<1> DEFINE none == {[ids |-> <<>>, next |-> g_rootCommands]}
           one == Longer(none)
           two == Longer(one)
           three == Longer(two)
           four == Longer(three)
           five == Longer(four)
<1>1. Accepted = {p.ids : p \in five}
  BY DEF Accepted
<1>2. none = {Part(<<>>, g_rootCommands)}
  BY DEF Part
<1> HIDE DEF none
<1>3. one \subseteq Complete \union Open1
  <2>1. none \subseteq Complete \union none
    OBVIOUS
  <2>2. \A p \in none : Leads(p, Complete \union Open1)
    BY <1>2, Token1
  <2> QED BY <2>1, <2>2, NextToken
<1> HIDE DEF one
<1>4. two \subseteq Complete \union Open2
  BY <1>3, Token2, NextToken
<1> HIDE DEF two
<1>5. three \subseteq Complete \union Open3
  BY <1>4, Token3, NextToken
<1> HIDE DEF three
<1>6. four \subseteq Complete \union Open4
  BY <1>5, Token4, NextToken
<1> HIDE DEF four
<1>7. five \subseteq Complete \union {}
  BY <1>6, Token5, NextToken
<1> HIDE DEF five
<1>8. ASSUME NEW p \in five PROVE p.ids \in {LineOf(handler) : handler \in Handlers}
  <2>1. PICK handler \in Handlers : p = Part(LineOf(handler), End)
    BY <1>7 DEF Complete
  <2> QED BY <2>1 DEF Part
<1> QED BY <1>1, <1>8

\* The switches send each line of the list to its handler, whatever its free-form
\* tokens say; only "zeroize" wants to see "all".
LEMMA Answers ==
    ASSUME NEW handler \in Handlers, NEW text
    PROVE  OnExecuteRoot([ids |-> LineOf(handler), text |-> text])
             = IF handler = "Zeroize" /\ text # "all" THEN "nothing" ELSE handler
<1> DEFINE answer(h) == OnExecuteRoot([ids |-> LineOf(h), text |-> text])
<1>1. answer("OnCommit") = "OnCommit"
  BY DEF LineOf, OnExecuteRoot
<1>2. answer("Exit") = "Exit"
  BY DEF LineOf, OnExecuteRoot
<1>3. answer("Compact") = "Compact"
  BY DEF LineOf, OnExecuteRoot
<1>4. answer("SetHostname") = "SetHostname"
  BY DEF LineOf, OnExecuteRoot
<1>5. /\ answer("OnIPAddress") = "OnIPAddress"
      /\ answer("OnIPGateway") = "OnIPGateway"
  BY DEF LineOf, OnExecuteRoot, OnIPCommand
<1>6. /\ answer("RemoveFlashKey") = "RemoveFlashKey"
      /\ answer("NTP.Disable") = "NTP.Disable"
      /\ answer("RemovePublicKey") = "RemovePublicKey"
  BY DEF LineOf, OnExecuteRoot, OnNoCommand
<1>7. answer("OnNtpServer") = "OnNtpServer"
  BY DEF LineOf, OnExecuteRoot
<1>8. answer("OnReload") = "OnReload"
  BY DEF LineOf, OnExecuteRoot
<1>9. answer("OnRollback") = "OnRollback"
  BY DEF LineOf, OnExecuteRoot
<1>10. /\ answer("PrintFlashSummary") = "PrintFlashSummary"
      /\ answer("PrintFlashDetails") = "PrintFlashDetails"
      /\ answer("OnShowHardware") = "OnShowHardware"
      /\ answer("OnShowInterfaceStatus") = "OnShowInterfaceStatus"
      /\ answer("PrintIPAddress") = "PrintIPAddress"
      /\ answer("PrintDefaultRoute") = "PrintDefaultRoute"
      /\ answer("PrintNTP") = "PrintNTP"
      /\ answer("PrintSSHKeys") = "PrintSSHKeys"
      /\ answer("PrintSSHHostKey") = "PrintSSHHostKey"
      /\ answer("OnShowVersion") = "OnShowVersion"
  BY DEF LineOf, OnExecuteRoot, OnShowCommand, OnShowFlash, ShowInterface, ShowIP, ShowSSH
<1>11. /\ answer("AddPublicKey") = "AddPublicKey"
      /\ answer("SetUsername") = "SetUsername"
  BY DEF LineOf, OnExecuteRoot, OnSSHCommand
<1>12. answer("Zeroize") = IF text = "all" THEN "Zeroize" ELSE "nothing"
  BY DEF LineOf, OnExecuteRoot
<1> HIDE DEF answer
<1> QED BY <1>1, <1>2, <1>3, <1>4, <1>5, <1>6, <1>7, <1>8, <1>9, <1>10, <1>11, <1>12 DEF Handlers, answer

\* Only one line begins with the keyword "zeroize".
LEMMA OneZeroize ==
    ASSUME NEW handler \in Handlers
    PROVE  LineOf(handler)[1] = "CMD_ZEROIZE" <=> handler = "Zeroize"
BY DEF Handlers, LineOf

\* Every line the keyword tables accept reaches a handler of its own, and none falls
\* through to a default: tables and switches, written separately, agree.
THEOREM CommandsAnswered == Spec => []CommandsAreAnswered
<1>1. ASSUME NEW line \in Lines
      PROVE  \E handler \in Handlers :
                /\ line.ids = LineOf(handler)
                /\ OnExecuteRoot(line) = IF handler = "Zeroize"
                        /\ line.text # "all" THEN "nothing" ELSE handler
  <2>1. CASE \E ids \in Accepted : line = [ids |-> ids, text |-> "other"]
    BY <2>1, AcceptedLines, Answers
  <2>2. CASE line = [ids |-> <<"CMD_ZEROIZE", "FREEFORM_TOKEN">>, text |-> "all"]
    <3>1. "Zeroize" \in Handlers /\ LineOf("Zeroize") = <<"CMD_ZEROIZE", "FREEFORM_TOKEN">>
      BY DEF Handlers, LineOf
    <3> QED BY <2>2, <3>1, Answers
  <2> QED BY <2>1, <2>2 DEF Lines
<1>2. "unrecognized" \notin Handlers /\ "nothing" \notin Handlers
  BY DEF Handlers
<1>3. CommandsAreAnswered
  <2> SUFFICES ASSUME NEW line \in Lines
               PROVE  /\ OnExecuteRoot(line) # "unrecognized"
                      /\ OnExecuteRoot(line) = "nothing" <=> (line.ids[1] = "CMD_ZEROIZE"
                              /\ line.text # "all")
                      /\ \A other \in Lines :
                              OnExecuteRoot(other) = OnExecuteRoot(line) => other.ids = line.ids
    BY DEF CommandsAreAnswered
  <2>1. PICK handler \in Handlers :
           /\ line.ids = LineOf(handler)
           /\ OnExecuteRoot(line) = IF handler = "Zeroize"
                   /\ line.text # "all" THEN "nothing" ELSE handler
    BY <1>1
  <2>2. line.ids[1] = "CMD_ZEROIZE" <=> handler = "Zeroize"
    BY <2>1, OneZeroize
  <2>3. ASSUME NEW other \in Lines, OnExecuteRoot(other) = OnExecuteRoot(line) PROVE other.ids = line.ids
    <3>1. PICK third \in Handlers :
             /\ other.ids = LineOf(third)
             /\ OnExecuteRoot(other) = IF third = "Zeroize"
                     /\ other.text # "all" THEN "nothing" ELSE third
      BY <1>1
    <3>2. third = handler
      BY <1>2, <2>1, <2>3, <3>1
    <3> QED BY <2>1, <3>1, <3>2
  <2> QED BY <1>2, <2>1, <2>2, <2>3
<1> QED BY <1>3, PTL

=============================================================================
