------------------------ MODULE LineCardSupervisor ------------------------
(***************************************************************************)
(* The supervisor of a line card: a microcontroller that switches the      *)
(* card's rails on in order, takes its PHYs out of power down and reset,   *)
(* answers the power button, shows the state on three LEDs and shuts the   *)
(* card down when a rail fails or the firmware crashes.                    *)
(*                                                                         *)
(* One core runs BSP_Init and then the tasks in turn: LEDTask, ButtonTask, *)
(* g_super.  A task is interrupted by the three interrupts BSP_Init        *)
(* enables and by the exceptions.  Around the core change the rails, the   *)
(* button, the timer and the traffic on the SPI bus and the console.       *)
(*                                                                         *)
(* PowerResetSupervisor, the base class of g_super, is a submodule: its    *)
(* PowerOn, PowerOff, PanicShutdown and Iteration are modelled from the    *)
(* descriptors and the hooks this code gives it.                           *)
(***************************************************************************)
EXTENDS Integers, Sequences

CONSTANTS
    RX_FIFO,         \* events the receive FIFO of g_spi holds (64 in the code)
    MaxPresses,      \* bound: presses of the power button
    MaxArrivals,     \* bound: bytes and chip select edges on the SPI bus and the console
    MaxResets        \* bound: restarts of the microcontroller

ASSUME BoundsAssumption ==
    /\ RX_FIFO \in Nat /\ MaxPresses \in Nat
    /\ MaxArrivals \in Nat /\ MaxResets \in Nat

Rails == {"1V0", "1V0_2", "2V5"}
ResetLines == {"PHY0 PD", "PHY1 PD", "PHY0 RST", "PHY1 RST"}
Irqs == {10, 35, 37}                     \* EXTI4, SPI1, USART1

VARIABLES
    at,          \* where the core is
    back,        \* where PowerOn returns to
    step,        \* the rail PowerOn is at
    rail,        \* each rail: off, rising (enabled), good or lost
    released,    \* the reset lines that are deasserted
    powerOn,     \* IsPowerOn()
    fault, sysok, pgood,   \* the LEDs
    blinking,    \* LEDTask::m_blinking
    pressed,     \* the power button is down
    buttonDown,  \* ButtonTask::m_buttonDown
    delayOver,   \* the delay of the reset line released last is over
    enabled,     \* interrupts enabled in the NVIC
    pending,     \* interrupts asked for: a byte or an edge that nobody took yet
    rxFifo,      \* events in the receive FIFO of g_spi, which no task reads
    overflows,   \* g_spiRxFifoOverflows
    presses, toggles,      \* history: presses since the start, and those ButtonTask acted on
    arrivals, resets,      \* bounded counts
    stray        \* history: an interrupt without a handler restarted it

coreVars == <<at, back, step>>
cardVars == <<rail, released, powerOn>>
ledVars == <<fault, sysok, pgood, blinking>>
buttonVars == <<pressed, buttonDown, presses, toggles>>
irqVars == <<enabled, pending, rxFifo, overflows, arrivals>>
resetVars == <<resets, stray>>
vars == <<coreVars, cardVars, ledVars, buttonVars, delayOver, irqVars, resetVars>>

Tasks == {"led", "button", "super"}
\* HardFault_Handler, where no interrupt is served: OnFault's loop below it, or a wait
\* for ever to begin the report.
Crashed == {"fault", "mute"}
\* "sample" is the second read of the button, "hung" OnFault's loop below a task.
Places == {"InitUART", "InitGPIOs", "InitSPI", "App_Init", "PowerOn",
           "sample", "hung"} \union Tasks \union Crashed

RailsOff == [r \in Rails |-> "off"]

Init ==
    /\ at = "InitUART" /\ back = "led" /\ step = 1
    /\ rail = RailsOff /\ released = {} /\ powerOn = FALSE
    /\ fault = FALSE /\ sysok = FALSE /\ pgood = FALSE /\ blinking = FALSE
    /\ pressed \in BOOLEAN /\ buttonDown = FALSE
    /\ presses = (IF pressed THEN 1 ELSE 0) /\ toggles = 0
    /\ delayOver = FALSE
    /\ enabled = {} /\ pending = {} /\ rxFifo = 0 /\ overflows = 0
    /\ arrivals = 0 /\ resets = 0 /\ stray = FALSE

-----------------------------------------------------------------------------
(* The sequences.                                                          *)

PowerSequenceSwapped == <<"1V0_2", "1V0", "2V5">>                       \* mutant
g_powerSequence == <<"1V0", "1V0_2", "2V5">>

g_resetSequence == <<"PHY0 PD", "PHY1 PD", "PHY0 RST", "PHY1 RST">>

IsResetsDone == released = ResetLines

-----------------------------------------------------------------------------
(* The hooks of LineCardPowerResetSupervisor.                              *)

OnPowerOn == pgood' = TRUE
OnPowerOff == pgood' = FALSE

Hang(place) == at' = place                                              \* while(1) {}

OnFaultQuiet(place) == UNCHANGED <<fault, sysok, pgood>> /\ Hang(place)  \* mutant
OnFault(place) ==
    /\ fault' = TRUE /\ sysok' = FALSE /\ pgood' = FALSE
    /\ Hang(place)

\* The rails go off at once; whether the reset lines are asserted too is the
\* submodule's business.
PanicShutdown(place) ==
    /\ rail' = RailsOff
    /\ powerOn' = FALSE
    /\ released' \in {released, {}}
    /\ OnFault(place)
    /\ back' = "led" /\ step' = 1
    /\ UNCHANGED blinking

PowerOff ==
    /\ rail' = RailsOff
    /\ powerOn' = FALSE
    /\ released' = {}
    /\ OnPowerOff

PowerOn(from) == at' = "PowerOn" /\ back' = from /\ step' = 1

-----------------------------------------------------------------------------
(* The main loop.  Interrupts come first: a task steps only while no       *)
(* enabled interrupt is pending.                                           *)

Undisturbed == pending \intersect enabled = {}

SwitchRailOn ==
    /\ at = "PowerOn" /\ Undisturbed
    /\ step <= Len(g_powerSequence) /\ rail[g_powerSequence[step]] = "off"
    /\ rail' = [rail EXCEPT ![g_powerSequence[step]] = "rising"]
    /\ UNCHANGED <<coreVars, released, powerOn, ledVars, buttonVars, delayOver, irqVars, resetVars>>

RailSeenGood ==
    /\ at = "PowerOn" /\ Undisturbed
    /\ step <= Len(g_powerSequence) /\ rail[g_powerSequence[step]] = "good"
    /\ step' = step + 1
    /\ UNCHANGED <<at, back, cardVars, ledVars, buttonVars, delayOver, irqVars, resetVars>>

RailTimesOut ==
    /\ at = "PowerOn" /\ Undisturbed
    /\ step <= Len(g_powerSequence) /\ rail[g_powerSequence[step]] \in {"rising", "lost"}
    /\ PanicShutdown("hung")
    /\ UNCHANGED <<buttonVars, delayOver, irqVars, resetVars>>

PowerIsOn ==
    /\ at = "PowerOn" /\ Undisturbed
    /\ step > Len(g_powerSequence)
    /\ powerOn' = TRUE
    /\ OnPowerOn
    /\ at' = back
    /\ back' = "led" /\ step' = 1
    /\ UNCHANGED <<rail, released, fault, sysok, blinking, buttonVars,
                   delayOver, irqVars, resetVars>>

\* LEDTask: OnTimer, if the timer has expired, toggles the LED when m_blinking was
\* set; then come the LED and m_blinking as the power is now.
OffLedForgotten == sysok' = sysok /\ blinking' = FALSE                  \* mutant
OffLed == sysok' = FALSE /\ blinking' = FALSE
OnLed == sysok' = TRUE /\ blinking' = FALSE
BootLed == sysok' \in (IF blinking THEN BOOLEAN ELSE {sysok}) /\ blinking' = TRUE

LEDTask ==
    /\ at = "led" /\ Undisturbed
    /\ \/ powerOn /\ IsResetsDone /\ OnLed
       \/ powerOn /\ ~IsResetsDone /\ BootLed
       \/ ~powerOn /\ OffLed
    /\ at' = "button"
    /\ UNCHANGED <<back, step, cardVars, fault, pgood, buttonVars, delayOver, irqVars, resetVars>>

\* ButtonTask: the first read of the button decides, the second is remembered.
PressSeenAlways == pressed                                              \* mutant
PressSeen == pressed /\ ~buttonDown

ButtonTask ==
    /\ at = "button" /\ Undisturbed
    /\ \/ /\ ~PressSeen
          /\ at' = "sample"
          /\ UNCHANGED <<back, step, cardVars, pgood, toggles>>
       \/ /\ PressSeen /\ powerOn
          /\ PowerOff
          /\ toggles' = toggles + 1
          /\ at' = "sample"
          /\ UNCHANGED <<back, step>>
       \/ /\ PressSeen /\ ~powerOn
          /\ PowerOn("sample")
          /\ toggles' = toggles + 1
          /\ UNCHANGED <<cardVars, pgood>>
    /\ UNCHANGED <<fault, sysok, blinking, pressed, buttonDown, presses, delayOver,
                   irqVars, resetVars>>

ButtonSampled ==
    /\ at = "sample" /\ Undisturbed
    /\ buttonDown' = pressed
    /\ at' = "super"
    /\ UNCHANGED <<back, step, cardVars, ledVars, pressed, presses, toggles, delayOver,
                   irqVars, resetVars>>

\* g_super: a lost rail is a fault; otherwise the next reset line, in order.
SuperNotATask(lost) == FALSE                                            \* mutant
MonitorRails(lost) == lost # {}

Supervise ==
    /\ at = "super" /\ Undisturbed
    /\ LET lost == {r \in Rails : powerOn /\ rail[r] = "lost"} IN
       \/ /\ MonitorRails(lost)
          /\ PanicShutdown("hung")
          /\ UNCHANGED delayOver
       \/ /\ ~MonitorRails(lost)
          /\ at' = "led"
          /\ \/ /\ powerOn /\ delayOver
                /\ \E n \in 1 .. Len(g_resetSequence) :
                      /\ released = {g_resetSequence[m] : m \in 1 .. n - 1}
                      /\ released' = released \union {g_resetSequence[n]}
                /\ delayOver' = FALSE
             \/ /\ ~(powerOn /\ delayOver) \/ IsResetsDone
                /\ UNCHANGED <<released, delayOver>>
          /\ UNCHANGED <<back, step, rail, powerOn, ledVars>>
    /\ UNCHANGED <<buttonVars, irqVars, resetVars>>

-----------------------------------------------------------------------------
(* Boot.  InitGPIOs turns two of the three LEDs off; App_Init fills the    *)
(* task table and powers the card on without waiting for the button.       *)

BSP_InitUART ==
    /\ at = "InitUART"
    /\ enabled' = enabled \union {37}
    /\ at' = "InitGPIOs"
    /\ UNCHANGED <<back, step, cardVars, ledVars, buttonVars, delayOver, pending, rxFifo,
                   overflows, arrivals, resetVars>>

InitGPIOs ==
    /\ at = "InitGPIOs" /\ Undisturbed
    /\ fault' = FALSE /\ sysok' = FALSE
    /\ at' = "InitSPI"
    /\ UNCHANGED <<back, step, cardVars, pgood, blinking, buttonVars, delayOver, irqVars, resetVars>>

InitSPI ==
    /\ at = "InitSPI" /\ Undisturbed
    /\ enabled' = enabled \union {10, 35}
    /\ at' = "App_Init"
    /\ UNCHANGED <<back, step, cardVars, ledVars, buttonVars, delayOver, pending, rxFifo,
                   overflows, arrivals, resetVars>>

App_Init ==
    /\ at = "App_Init" /\ Undisturbed
    /\ PowerOn("led")
    /\ UNCHANGED <<cardVars, ledVars, buttonVars, delayOver, irqVars, resetVars>>

-----------------------------------------------------------------------------
(* Interrupts and exceptions.                                              *)

\* Reset(): every register and variable starts over, only the button does not.
Reset(unexpected) ==
    /\ resets < MaxResets /\ resets' = resets + 1
    /\ stray' = unexpected
    /\ at' = "InitUART" /\ back' = "led" /\ step' = 1
    /\ rail' = RailsOff /\ released' = {} /\ powerOn' = FALSE
    /\ fault' = FALSE /\ sysok' = FALSE /\ pgood' = FALSE /\ blinking' = FALSE
    /\ buttonDown' = FALSE /\ delayOver' = FALSE
    /\ presses' = (IF pressed THEN 1 ELSE 0) /\ toggles' = 0
    /\ enabled' = {} /\ pending' = {} /\ rxFifo' = 0 /\ overflows' = 0
    /\ UNCHANGED <<pressed, arrivals>>

SPI_CSHandlerUnchecked ==                                               \* mutant
    /\ rxFifo' = rxFifo + 1 /\ pending' = pending \ {10} /\ UNCHANGED overflows
SPI_CSHandler ==
    /\ rxFifo' = (IF rxFifo < RX_FIFO THEN rxFifo + 1 ELSE rxFifo)
    /\ pending' = pending \ {10}
    /\ UNCHANGED overflows

\* The data register is read even when the byte has no place in the FIFO.
ReadOnlyWhenRoom ==                                                     \* mutant
    /\ rxFifo < RX_FIFO
    /\ rxFifo' = rxFifo + 1 /\ pending' = pending \ {35} /\ UNCHANGED overflows
\* The transmit half of the handler does nothing to this state: no code queues anything to
\* send (the SPI server is commented out, Init.cpp:131), so it can only turn off an
\* interrupt that nobody turned on.
SPI1_Handler ==
    /\ pending' = pending \ {35}
    /\ \/ rxFifo < RX_FIFO /\ rxFifo' = rxFifo + 1 /\ UNCHANGED overflows
       \/ rxFifo = RX_FIFO /\ overflows' = overflows + 1 /\ UNCHANGED rxFifo

USART1_Handler == pending' = pending \ {37} /\ UNCHANGED <<rxFifo, overflows>>

vectorTable(irq) ==
    CASE irq = 10 -> "SPI_CSHandler"
      [] irq = 35 -> "SPI1_Handler"
      [] irq = 37 -> "USART1_Handler"
      [] OTHER    -> "defaultISR"

Interrupt ==
    \E irq \in pending \intersect enabled :
        /\ at \notin Crashed
        /\ \/ /\ \/ vectorTable(irq) = "SPI_CSHandler" /\ SPI_CSHandler
                 \/ vectorTable(irq) = "SPI1_Handler" /\ SPI1_Handler
                 \/ vectorTable(irq) = "USART1_Handler" /\ USART1_Handler
              /\ UNCHANGED <<coreVars, cardVars, ledVars, buttonVars, delayOver, enabled,
                             arrivals, resetVars>>
           \/ vectorTable(irq) = "defaultISR" /\ Reset(TRUE)

\* It reports and shuts the card down, whatever was going on; or its first Printf finds
\* no room in the transmit FIFO, and no interrupt will make any.  OnFault's empty loop
\* does not crash.
HardFault_Handler ==
    /\ at \notin Crashed \union {"hung"}
    /\ \/ PanicShutdown("fault")
       \/ at' = "mute" /\ UNCHANGED <<back, step, cardVars, ledVars>>
    /\ UNCHANGED <<buttonVars, delayOver, irqVars, resetVars>>

\* NMI, BusFault, UsageFault and MMUFault.
OtherException == Reset(FALSE)

PowerCycled == Reset(FALSE)

-----------------------------------------------------------------------------
(* Around the core.                                                        *)

RailRises(r) ==
    /\ rail[r] = "rising" /\ rail' = [rail EXCEPT ![r] = "good"]
    /\ UNCHANGED <<coreVars, released, powerOn, ledVars, buttonVars, delayOver, irqVars, resetVars>>

RailFails(r) ==
    /\ rail[r] = "good" /\ rail' = [rail EXCEPT ![r] = "lost"]
    /\ UNCHANGED <<coreVars, released, powerOn, ledVars, buttonVars, delayOver, irqVars, resetVars>>

PressButton ==
    /\ ~pressed /\ presses < MaxPresses
    /\ pressed' = TRUE /\ presses' = presses + 1
    /\ UNCHANGED <<coreVars, cardVars, ledVars, buttonDown, toggles, delayOver, irqVars, resetVars>>

ReleaseButton ==
    /\ pressed /\ pressed' = FALSE
    /\ UNCHANGED <<coreVars, cardVars, ledVars, buttonDown, presses, toggles, delayOver,
                   irqVars, resetVars>>

\* The delay is looked at only while there is a reset line left to release.
ResetTimer ==
    /\ powerOn /\ ~IsResetsDone
    /\ ~delayOver /\ delayOver' = TRUE
    /\ UNCHANGED <<coreVars, cardVars, ledVars, buttonVars, irqVars, resetVars>>

Arrive(irq) ==
    /\ arrivals < MaxArrivals /\ irq \notin pending
    /\ pending' = pending \union {irq} /\ arrivals' = arrivals + 1
    /\ UNCHANGED <<coreVars, cardVars, ledVars, buttonVars, delayOver, enabled, rxFifo,
                   overflows, resetVars>>

Boot == BSP_InitUART \/ InitGPIOs \/ InitSPI \/ App_Init

PowerSequencing == SwitchRailOn \/ RailSeenGood \/ RailTimesOut \/ PowerIsOn

Task == LEDTask \/ ButtonTask \/ ButtonSampled \/ Supervise

Core == Boot \/ PowerSequencing \/ Task \/ Interrupt

Environment ==
    \/ \E r \in Rails : RailRises(r) \/ RailFails(r)
    \/ PressButton
    \/ ReleaseButton
    \/ ResetTimer
    \/ \E irq \in Irqs : Arrive(irq)

Next ==
    \/ Core
    \/ HardFault_Handler
    \/ OtherException
    \/ PowerCycled
    \/ Environment

Spec == Init /\ [][Next]_vars

\* The core never stops and the timer keeps counting; nothing else has to happen.
FairSpec == Spec /\ WF_vars(Core) /\ WF_vars(ResetTimer)

-----------------------------------------------------------------------------
(* Properties.                                                             *)

\* Every variable holds a value of its type; the receive FIFO never holds more
\* than it has room for, although nothing ever empties it.
TypeOK ==
    /\ at \in Places /\ back \in {"led", "sample"} /\ step \in 1 .. 4
    /\ rail \in [Rails -> {"off", "rising", "good", "lost"}]
    /\ released \in SUBSET ResetLines
    /\ powerOn \in BOOLEAN /\ fault \in BOOLEAN /\ sysok \in BOOLEAN
    /\ pgood \in BOOLEAN /\ blinking \in BOOLEAN
    /\ pressed \in BOOLEAN /\ buttonDown \in BOOLEAN
    /\ delayOver \in BOOLEAN
    /\ enabled \in SUBSET Irqs /\ pending \in SUBSET Irqs
    /\ rxFifo \in 0 .. RX_FIFO /\ overflows \in Nat
    /\ presses \in Nat /\ toggles \in Nat /\ arrivals \in Nat /\ resets \in Nat
    /\ stray \in BOOLEAN

Up(r) == rail[r] \in {"good", "lost"}

\* The SERDES rail is never on before the core rail has come up, nor the analog
\* rail before both, in any of the ways a power-up can begin, be given up or be
\* repeated (Init.cpp:59-69).
RailsInOrder ==
    /\ rail["1V0_2"] # "off" => Up("1V0")
    /\ rail["2V5"] # "off" => Up("1V0") /\ Up("1V0_2")

\* No PHY is out of reset while a PHY is still powered down: power downs are
\* released first, across faults, power-offs and renewed power-ups (Init.cpp:85-95).
PowerDownsFirst ==
    released \intersect {"PHY0 RST", "PHY1 RST"} # {} => {"PHY0 PD", "PHY1 PD"} \subseteq released

\* Both sequences at once: what is on or released at any time is a beginning of what
\* Init.cpp lists.
SequencesKept == RailsInOrder /\ PowerDownsFirst

\* Whatever was going on when the supervisor gave up, the fault LED tells of it
\* then and only then, the rails are off and the other two LEDs are dark
\* (supervisor.h:55-65, vectors.cpp:228-232).
FaultIsSafe ==
    /\ fault <=> at \in {"hung", "fault"}
    /\ fault => rail = RailsOff /\ ~sysok /\ ~pgood

\* Between tasks the power-good LED is the state of the power, and once LEDTask
\* has run a steady system LED means that every reset has been released.
LedsAreHonest ==
    /\ at \in Tasks \union {"sample"} => (pgood <=> powerOn)
    /\ at = "button" => /\ sysok => powerOn
                        /\ sysok /\ ~blinking => IsResetsDone

\* However the presses fall between the two reads of the button and the long
\* power-ups, the power is toggled at most once for each of them.
OncePerPress == toggles <= presses

\* A rail lost while the card is on takes the whole card down, whatever arrives on the
\* buses: the monitoring is reached in every pass, and a crash shuts the card down as
\* soon as it could begin its report (Init.cpp:133-136, vectors.cpp:202-229).
LostRailShutsDown ==
    powerOn /\ (\E r \in Rails : rail[r] = "lost") ~> rail = RailsOff \/ at = "mute"

\* A card that stays on, its supervisor not crashed, ends up with its PHYs running and
\* a steady system LED, whatever arrives on the buses.
SystemComesUp == <>[](powerOn /\ at \notin Crashed) => <>[](IsResetsDone /\ sysok /\ ~blinking)

=============================================================================
