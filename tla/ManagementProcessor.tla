------------------------- MODULE ManagementProcessor -------------------------
(***************************************************************************)
(* The management processor as a whole: boot loader, boot, the main loop   *)
(* with its tasks, the console, the exceptions and the restarts, composed  *)
(* with the sensors (SensorBus), the network (ManagementNetwork) and the   *)
(* command language (CommandLine).                                         *)
(*                                                                         *)
(* One core.  A command runs to completion inside the task that received   *)
(* its last key: the console's, or FPGATask for an SSH session.  What a    *)
(* command does to the configuration is ManagementConfig; here it matters  *)
(* that it is reached, that "show hardware" reads the sensors, that "exit" *)
(* ends a connection and that "reload" and "zeroize" restart.              *)
(***************************************************************************)
EXTENDS CommandLine, SensorBus, ManagementNetwork

CONSTANTS
    TypedLines,     \* the lines somebody may type on the console
    ShellLines,     \* the lines that may come from an SSH session
    NoLine,
    MaxEvents       \* bound: frames, link changes, lines, failures, crashes and restarts

ASSUME ProcessorAssumption ==
    TypedLines \subseteq Lines /\ ShellLines \subseteq Lines /\ NoLine \notin Lines /\ MaxEvents \in Nat

VARIABLES
    at,        \* where the core is
    n,         \* which sensor, lane, reading or part of the report it is at
    back,      \* where the main loop goes on after a command
    irqs,      \* what lets UART4's interrupt through: the NVIC's enable, the core's
    input,     \* a line for the console
    received,  \* the interrupt has put it into the receive FIFO
    tapped,    \* line card PHYs that are initialised, FFE tap set
    tx,        \* characters in the UART's transmit FIFO while an exception reports
    events     \* bounded count

coreVars == <<at, n, back>>
consoleVars == <<irqs, input, received>>
vars == <<coreVars, consoleVars, tapped, tx, events, sensorVars, networkVars>>

Boot == {"bootloader", "BSP_InitUART", "BSP_Init", "App_Init", "ConfigureSensor",
         "SelectTemperature", "ReadInitial", "InitSCCB", "InitLineCardPHY", "InitInterfaces", "InitFPGAFlash"}
Loop == {"frame", "up", "down", "save", "aging", "console", "show"}
Loader == {"bootloader", "dfu"}
Reporting == {"HardFault_Handler", "OtherFault", "LoaderHardFault", "LoaderOtherFault"}
Down == {"dfu", "stuck", "crashed"} \union Reporting
Places == Boot \union Loop \union Down \union {"stray"}

Init ==
    /\ at = "bootloader" /\ n = 1 /\ back = "frame"
    /\ irqs = {} /\ input = NoLine /\ received = FALSE
    /\ tapped = {} /\ tx = 0 /\ events = 0
    /\ SensorInit
    /\ NetworkInit

Spend == events < MaxEvents /\ events' = events + 1
\* A transaction succeeds, or fails at the price of an event.
Try(ok) == (ok /\ UNCHANGED events) \/ (~ok /\ Spend)

Undisturbed == ~(irqs = {"NVIC", "core"} /\ input # NoLine /\ ~received)
Go(place) == at' = place /\ UNCHANGED <<n, back>>
GoNext(place, i) == at' = place /\ n' = i /\ UNCHANGED back

-----------------------------------------------------------------------------
(* Boot.                                                                   *)

\* The boot loader starts the application, or waits for an update for ever: the
\* body of the update loop is commented out.
BootApplication ==
    /\ at = "bootloader" /\ Go("BSP_InitUART")
    /\ UNCHANGED <<consoleVars, tapped, tx, events, sensorVars, networkVars>>

Bootloader_FirmwareUpdateFlow ==
    /\ at = "bootloader" /\ Spend /\ Go("dfu")
    /\ UNCHANGED <<consoleVars, tapped, tx, sensorVars, networkVars>>

BSP_InitUART ==
    /\ at = "BSP_InitUART" /\ Go("BSP_Init")
    /\ irqs' = {"NVIC"}
    /\ UNCHANGED <<input, received, tapped, tx, events, sensorVars, networkVars>>

\* External memory bus, FPGA, key-value store and EEPROM, then the servers, with
\* empty tables.
BSP_Init ==
    /\ at = "BSP_Init" /\ Go("App_Init")
    /\ RegisterProtocolHandlers
    /\ UNCHANGED <<consoleVars, tapped, tx, events, sensorVars, frames, linkVars>>

\* Interrupts first, then the sensors of line card 0.
App_Init ==
    /\ at = "App_Init" /\ GoNext("ConfigureSensor", 1)
    /\ irqs' = irqs \union {"core"}
    /\ UNCHANGED <<input, received, tapped, tx, events, sensorVars, networkVars>>

AfterSensor == IF n < Len(TempSensors) THEN GoNext("ConfigureSensor", n + 1) ELSE GoNext("InitSCCB", 1)

\* InitTempSensor gives up on a sensor at the first transaction that fails.
InitTempSensor ==
    /\ Undisturbed
    /\ \E ok \in BOOLEAN :
        /\ Try(ok)
        /\ \/ /\ at = "ConfigureSensor" /\ ConfigureSensor(TempSensors[n], ok)
              /\ IF ok THEN Go("SelectTemperature") ELSE AfterSensor
           \/ /\ at = "SelectTemperature" /\ SelectTemperature(TempSensors[n], ok)
              /\ IF ok THEN Go("ReadInitial") ELSE AfterSensor
           \/ /\ at = "ReadInitial" /\ ReadInitial(TempSensors[n]) /\ AfterSensor
    /\ UNCHANGED <<consoleVars, tapped, tx, networkVars>>

\* Switches the transmitter to the other FPGA on and waits one second.
InitSCCB ==
    /\ at = "InitSCCB" /\ Undisturbed /\ GoNext("InitLineCardPHY", 1)
    /\ UNCHANGED <<consoleVars, tapped, tx, events, sensorVars, networkVars>>

LanesAndOneMore == 1 .. 3                                               \* mutant
Lanes == 1 .. 2

\* A PHY that does not come up stops the processor for good.
InitLineCardPHY ==
    /\ at = "InitLineCardPHY" /\ Undisturbed
    /\ \/ /\ n \in Lanes
          /\ tapped' = tapped \union {n}
          /\ GoNext("InitLineCardPHY", n + 1)
          /\ UNCHANGED events
       \/ n \in Lanes /\ Spend /\ Go("stuck") /\ UNCHANGED tapped
       \/ n \notin Lanes /\ GoNext("InitInterfaces", 1) /\ UNCHANGED <<tapped, events>>
    /\ UNCHANGED <<consoleVars, tx, sensorVars, networkVars>>

\* The port table is made and the task table filled; then the other FPGA's flash.
InitInterfaces ==
    /\ at = "InitInterfaces" /\ Undisturbed /\ Go("InitFPGAFlash")
    /\ UNCHANGED <<consoleVars, tapped, tx, events, sensorVars, networkVars>>

InitFPGAFlash ==
    /\ at = "InitFPGAFlash" /\ Undisturbed /\ Go("frame")
    /\ UNCHANGED <<consoleVars, tapped, tx, events, sensorVars, networkVars>>

-----------------------------------------------------------------------------
(* Commands.                                                               *)

Restart ==
    /\ at' = "bootloader" /\ n' = 1 /\ back' = "frame"
    /\ irqs' = {} /\ input' = NoLine /\ received' = FALSE
    /\ tapped' = {} /\ tx' = 0
    /\ SensorRestart /\ NetworkRestart

\* The readings of PrintLineCardInfo: a temperature per sensor, then voltage and
\* current per power monitor.
Readings == Len(TempSensors) + 2 * Len(PowerMonitors)

ShowHardware(next) == at' = "show" /\ n' = 1 /\ back' = next

\* Everything but the restarts, for a line from the console or from peer p.
Handled(line, next) ==
    IF OnExecuteRoot(line) = "OnShowHardware" THEN ShowHardware(next) ELSE Go(next)

Restarts(line) == OnExecuteRoot(line) \in {"OnReload", "Zeroize"}

PrintLineCardInfo ==
    /\ at = "show" /\ Undisturbed
    /\ \E ok, selected, read \in BOOLEAN :
        LET monitor == PowerMonitors[((n - Len(TempSensors) - 1) \div 2) + 1] IN
        /\ Try(ok /\ selected /\ read)
        /\ \/ n <= Len(TempSensors) /\ ReadTemperature(TempSensors[n], ok)
           \/ /\ n > Len(TempSensors) /\ n <= Readings
              /\ \/ (n - Len(TempSensors)) % 2 = 1 /\ GetVoltage(monitor, selected, read)
                 \/ (n - Len(TempSensors)) % 2 = 0 /\ GetCurrent(monitor, selected, read)
           \/ n > Readings /\ shown' = NoReading /\ UNCHANGED <<pointer, prepared>>
    /\ IF n > Readings THEN at' = back /\ n' = 1 /\ UNCHANGED back ELSE GoNext("show", n + 1)
    /\ UNCHANGED <<consoleVars, tapped, tx, networkVars>>

-----------------------------------------------------------------------------
(* The main loop: FPGATask, the two aging tasks, the console.              *)

ReceiveFrame ==
    /\ at = "frame" /\ Undisturbed
    /\ \/ ~FrameWaiting /\ Go("up") /\ UNCHANGED <<consoleVars, tapped, tx, sensorVars, networkVars>>
       \/ /\ FrameWaiting
          /\ LET f == Head(frames) IN
             \/ /\ ~IsShellData(f)
                /\ OnRxFrame(f) /\ frames' = Tail(frames)
                /\ Go("up")
                /\ UNCHANGED <<consoleVars, tapped, tx, sensorVars, linkVars>>
             \/ /\ IsShellData(f) /\ ~Restarts(f.line)
                /\ IF OnExecuteRoot(f.line) = "Exit" THEN GracefulDisconnect(f.peer)
                                                     ELSE UNCHANGED tcpVars
                /\ Handled(f.line, "up")
                /\ frames' = Tail(frames)
                /\ UNCHANGED <<consoleVars, tapped, tx, sensorVars, linkVars>>
             \/ /\ IsShellData(f) /\ Restarts(f.line)
                /\ Restart
    /\ UNCHANGED events

FollowLink ==
    /\ Undisturbed
    /\ \/ at = "up" /\ NoticeUp /\ Go("down")
       \/ at = "down" /\ NoticeDown /\ Go("save")
       \/ at = "save" /\ SaveLink /\ Go("aging")
    /\ UNCHANGED <<consoleVars, tapped, tx, events, sensorVars>>

Aging ==
    /\ at = "aging" /\ Undisturbed /\ Go("console")
    /\ \/ UNCHANGED <<networkVars, events>>
       \/ Spend /\ \E p \in Peers : AgingCloses(p)
    /\ UNCHANGED <<consoleVars, tapped, tx, sensorVars>>

ConsoleTask ==
    /\ at = "console" /\ Undisturbed
    /\ \/ /\ ~received /\ Go("frame")
          /\ UNCHANGED <<consoleVars, tapped, tx, sensorVars, networkVars>>
       \/ /\ received /\ ~Restarts(input)
          /\ Handled(input, "frame")
          /\ input' = NoLine /\ received' = FALSE
          /\ UNCHANGED <<irqs, tapped, tx, sensorVars, networkVars>>
       \/ received /\ Restarts(input) /\ Restart
    /\ UNCHANGED events

-----------------------------------------------------------------------------
(* Interrupts and exceptions.                                              *)

\* The tables' entries by number: exceptions 2 to 6, and UART4's interrupt 52 at 68.
Exceptions == 2 .. 6

vectorTableOffByOne(v) ==                                               \* mutant
    CASE v = 3  -> "HardFault_Handler"
      [] v \in Exceptions \ {3} -> "OtherFault"
      [] v = 69 -> "UART4_Handler"
      [] OTHER  -> "defaultISR"
vectorTable(v) ==
    CASE v = 3  -> "HardFault_Handler"
      [] v \in Exceptions \ {3} -> "OtherFault"
      [] v = 68 -> "UART4_Handler"
      [] OTHER  -> "defaultISR"

\* The boot loader's own table, with handlers of its own for the exceptions.
LoaderVectorTable(v) ==
    CASE v = 3  -> "LoaderHardFault"
      [] v \in Exceptions \ {3} -> "LoaderOtherFault"
      [] v = 68 -> "UART4_Handler"
      [] OTHER  -> "defaultISR"

UART4_Handler == received' = TRUE /\ UNCHANGED <<irqs, input>>

Interrupt ==
    /\ ~Undisturbed /\ at \notin Reporting \union {"crashed", "stray"}
    /\ \/ vectorTable(68) = "UART4_Handler" /\ UART4_Handler /\ UNCHANGED coreVars
       \/ vectorTable(68) = "defaultISR" /\ Go("stray") /\ UNCHANGED consoleVars
    /\ UNCHANGED <<tapped, tx, events, sensorVars, networkVars>>

TX_FIFO == 256      \* g_cliUART's transmit FIFO

\* The lengths of what a handler prints between two flushes: the fault registers,
\* the core registers, sixteen words of the stack.
HardFaultReportUnflushed == <<158 + 179>> \o [i \in 1 .. 16 |-> 17]     \* mutant
HardFaultReport == <<158, 179>> \o [i \in 1 .. 16 |-> 17]
LoaderHardFaultReport == <<158, 179>> \o [i \in 1 .. 16 |-> 17]
Report(handler) ==
    CASE handler = "HardFault_Handler" -> HardFaultReport
      [] handler = "LoaderHardFault"   -> LoaderHardFaultReport
      [] OTHER                         -> <<12>>

\* An exception strikes with anything in the transmit FIFO; from then on no
\* interrupt empties it.
Exception ==
    /\ at \notin Reporting \union {"crashed", "stray"}
    /\ Spend
    /\ \E v \in Exceptions :
           at' = (IF at \in Loader THEN LoaderVectorTable(v) ELSE vectorTable(v))
    /\ n' = 1 /\ UNCHANGED back
    /\ tx' \in {0, TX_FIFO}
    /\ UNCHANGED <<consoleVars, tapped, sensorVars, networkVars>>

BlockingFlush == 0

\* A print waits while the FIFO has no room for it.
PrintReport ==
    /\ at \in Reporting
    /\ \/ /\ n <= Len(Report(at))
          /\ BlockingFlush + Report(at)[n] <= TX_FIFO
          /\ tx' = BlockingFlush + Report(at)[n]
          /\ GoNext(at, n + 1)
       \/ /\ n > Len(Report(at))
          /\ tx' = BlockingFlush
          /\ GoNext("crashed", 1)
    /\ UNCHANGED <<consoleVars, tapped, events, sensorVars, networkVars>>

-----------------------------------------------------------------------------
(* Around the core.                                                        *)

PowerCycled == Spend /\ Restart

TypeLine ==
    /\ input = NoLine /\ Spend
    /\ input' \in TypedLines
    /\ UNCHANGED <<coreVars, irqs, received, tapped, tx, sensorVars, networkVars>>

LinkChanges ==
    /\ Spend
    /\ LinkFlips(at \in {"down", "save"})
    /\ UNCHANGED <<coreVars, consoleVars, tapped, tx, sensorVars>>

FrameComes ==
    /\ Spend
    /\ \E f \in Frame(ShellLines) : FrameArrives(f)
    /\ UNCHANGED <<coreVars, consoleVars, tapped, tx, sensorVars>>

Core ==
    \/ BootApplication
    \/ BSP_InitUART
    \/ BSP_Init
    \/ App_Init
    \/ InitTempSensor
    \/ InitSCCB
    \/ InitLineCardPHY
    \/ InitInterfaces
    \/ InitFPGAFlash
    \/ ReceiveFrame
    \/ PrintLineCardInfo
    \/ FollowLink
    \/ Aging
    \/ ConsoleTask
    \/ Interrupt
    \/ PrintReport

Next ==
    \/ Core
    \/ Bootloader_FirmwareUpdateFlow
    \/ Exception
    \/ PowerCycled
    \/ TypeLine
    \/ LinkChanges
    \/ FrameComes

Spec == Init /\ [][Next]_vars

\* The core never stops; nothing else has to happen.
FairSpec == Spec /\ WF_vars(Core)

-----------------------------------------------------------------------------
(* Properties.                                                             *)

\* Every variable holds a value of its type; the main loop is reached only with both
\* PHYs of the line card up and tuned (Init.cpp:147-154,185-207).
TypeOK ==
    /\ at \in Places /\ n \in Nat /\ back \in {"frame", "up"}
    /\ irqs \subseteq {"NVIC", "core"} /\ input \in TypedLines \union {NoLine} /\ received \in BOOLEAN
    /\ tapped \subseteq {1, 2} /\ (at \in Loop => tapped = {1, 2}) /\ tx \in 0 .. TX_FIFO /\ events \in 0 .. MaxEvents
    /\ SensorTypeOK
    /\ NetworkTypeOK

\* At the end of a pass the stack has been told of the link state FPGATask
\* remembers, unless the flag changed between the reads of one pass
\* (FPGATask.cpp:44-57): then it may never be told.
StackKnowsLink ==
    at \in {"aging", "console", "frame"} /\ ~flickered => stackUp = g_basetLinkUp

\* Every line the keyword tables accept has a handler of its own in the switches,
\* except "zeroize" without its confirmation, which does nothing
\* (LatentRedCLISessionContext.cpp:80-292 against 339-917).
CommandsAreAnswered ==
    at = "console" /\ received => \A line \in Lines :
        LET handler == OnExecuteRoot(line) IN
        /\ handler # "unrecognized"
        /\ handler = "nothing" <=> (line.ids[1] = "CMD_ZEROIZE" /\ line.text # "all")
        /\ \A other \in Lines : OnExecuteRoot(other) = handler => other.ids = line.ids

\* While the processor is up a line typed is taken, whatever the network does, and the
\* frames in the controller are, although each pass takes at most one and commands from
\* either side come in between.
NothingWaitsForEver ==
    /\ input # NoLine ~> input = NoLine \/ at \in Down
    /\ frames # <<>> ~> frames = <<>> \/ at \in Down

\* A crash is reported to the end although no interrupt empties the transmit FIFO
\* any more: the handlers flush often enough never to wait for room in it.
CrashIsReported == at \in Reporting ~> at \notin Reporting

=============================================================================
