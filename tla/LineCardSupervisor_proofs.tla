--------------------- MODULE LineCardSupervisor_proofs ---------------------
(***************************************************************************)
(* Type correctness and the safety of the supervisor, for any size of the  *)
(* receive FIFO and any number of presses, arrivals and restarts.          *)
(*                                                                         *)
(* Three things hold the invariants up: while the rails come up, those     *)
(* before the present one are up and those after it off; outside that, a   *)
(* card that is not on has every rail off; and a press nobody has sampled  *)
(* yet is one that has not been counted.                                   *)
(***************************************************************************)
EXTENDS LineCardSupervisor, TLAPS

BootPlaces == {"InitUART", "InitGPIOs", "InitSPI", "App_Init"}

RailsFollow ==
    /\ at \in BootPlaces \union {"PowerOn"} => ~powerOn
    /\ ~powerOn /\ at \notin {"PowerOn", "mute"} => rail = RailsOff
    /\ at = "PowerOn" =>
        \A i \in 1 .. 3 : /\ i < step => Up(g_powerSequence[i])
                          /\ i > step => rail[g_powerSequence[i]] = "off"

\* ButtonTask has acted on the press and not yet sampled the button again, or never will.
Acted == at \in {"sample", "hung", "fault", "mute"} \/ (at = "PowerOn" /\ back = "sample")

PressCounted ==
    /\ toggles <= presses
    /\ pressed /\ ~buttonDown /\ ~Acted => toggles < presses

RailInv == RailsInOrder /\ RailsFollow

\* The microcontroller restarts for a crash or for its supply, never because an
\* interrupt it enabled itself has no handler.
NoStrayInterrupt == ~stray

\* "Hang until reset, don't attempt to auto restart" (supervisor.h:62): after a
\* fault no press, timer or interrupt brings a rail or a LED back.
NoAutoRestart ==
    [][fault /\ resets' = resets => UNCHANGED <<rail, powerOn, fault, sysok, pgood>>]_vars

IInv == TypeOK /\ RailInv /\ PowerDownsFirst /\ FaultIsSafe /\ LedsAreHonest /\ PressCounted /\ NoStrayInterrupt

\* The power sequence, entry by entry.
LEMMA PowerSequence ==
    /\ g_powerSequence[1] = "1V0" /\ g_powerSequence[2] = "1V0_2" /\ g_powerSequence[3] = "2V5"
    /\ Len(g_powerSequence) = 3
  BY DEF g_powerSequence

\* The reset sequence, entry by entry.
LEMMA ResetSequence ==
    /\ g_resetSequence[1] = "PHY0 PD" /\ g_resetSequence[2] = "PHY1 PD"
    /\ g_resetSequence[3] = "PHY0 RST" /\ g_resetSequence[4] = "PHY1 RST"
    /\ Len(g_resetSequence) = 4
  BY DEF g_resetSequence

\* The power sequence names three different rails.
LEMMA PowerSequenceIsRails ==
    \A i \in 1 .. 3 : /\ g_powerSequence[i] \in Rails
                      /\ \A j \in 1 .. 3 : i # j => g_powerSequence[i] # g_powerSequence[j]
  <1>1. \A i \in 1 .. 3 : i = 1 \/ i = 2 \/ i = 3
    OBVIOUS
  <1>2. QED
    BY <1>1, PowerSequence DEF Rails

\* Every interrupt the supervisor enables has a handler.
LEMMA HandlersFor == \A irq \in Irqs : vectorTable(irq) # "defaultISR"
  BY DEF Irqs, vectorTable

\* Whatever leaves the core, the card and the LEDs alone.
Quiet == UNCHANGED <<coreVars, cardVars, ledVars>>

\* An interrupt is served by its handler, which touches nothing but the SPI FIFO.
LEMMA InterruptIsServed ==
    TypeOK /\ Interrupt => /\ SPI_CSHandler \/ SPI1_Handler \/ USART1_Handler
                           /\ UNCHANGED <<coreVars, cardVars, ledVars, buttonVars, delayOver,
                                          enabled, arrivals, resetVars>>
  <1> SUFFICES ASSUME TypeOK, NEW irq \in pending \intersect enabled,
                      \/ /\ \/ vectorTable(irq) = "SPI_CSHandler" /\ SPI_CSHandler
                            \/ vectorTable(irq) = "SPI1_Handler" /\ SPI1_Handler
                            \/ vectorTable(irq) = "USART1_Handler" /\ USART1_Handler
                         /\ UNCHANGED <<coreVars, cardVars, ledVars, buttonVars, delayOver,
                                        enabled, arrivals, resetVars>>
                      \/ vectorTable(irq) = "defaultISR" /\ Reset(TRUE)
               PROVE  /\ SPI_CSHandler \/ SPI1_Handler \/ USART1_Handler
                      /\ UNCHANGED <<coreVars, cardVars, ledVars, buttonVars, delayOver,
                                     enabled, arrivals, resetVars>>
    BY DEF Interrupt
  <1>1. irq \in Irqs
    BY DEF TypeOK
  <1>2. vectorTable(irq) # "defaultISR"
    BY <1>1, HandlersFor
  <1>3. QED
    BY <1>2

\* The steps there are, those of the surroundings and the interrupts taken together.
LEMMA StepCases ==
    TypeOK /\ [Next]_vars =>
        \/ SwitchRailOn \/ RailSeenGood \/ RailTimesOut \/ PowerIsOn
        \/ LEDTask \/ ButtonTask \/ ButtonSampled \/ Supervise
        \/ BSP_InitUART \/ InitGPIOs \/ InitSPI \/ App_Init
        \/ HardFault_Handler \/ Reset(FALSE)
        \/ \E r \in Rails : RailRises(r) \/ RailFails(r)
        \/ Quiet
  <1> SUFFICES ASSUME TypeOK, [Next]_vars
               PROVE  \/ SwitchRailOn \/ RailSeenGood \/ RailTimesOut \/ PowerIsOn
                      \/ LEDTask \/ ButtonTask \/ ButtonSampled \/ Supervise
                      \/ BSP_InitUART \/ InitGPIOs \/ InitSPI \/ App_Init
                      \/ HardFault_Handler \/ Reset(FALSE)
                      \/ \E r \in Rails : RailRises(r) \/ RailFails(r)
                      \/ Quiet
    OBVIOUS
  <1>1. CASE Interrupt
    BY <1>1, InterruptIsServed DEF Quiet
  <1>2. ASSUME PressButton \/ ReleaseButton PROVE Quiet
    BY <1>2 DEF PressButton, ReleaseButton, Quiet, ledVars
  <1>3. ASSUME ResetTimer PROVE Quiet
    BY <1>3 DEF ResetTimer, Quiet
  <1>4. ASSUME NEW irq \in Irqs, Arrive(irq) PROVE Quiet
    BY <1>4 DEF Arrive, Quiet
  <1>5. ASSUME UNCHANGED vars PROVE Quiet
    BY <1>5 DEF vars, Quiet
  <1>6. QED
    BY <1>1, <1>2, <1>3, <1>4, <1>5
       DEF Next, Core, Boot, PowerSequencing, Task, Environment, OtherException, PowerCycled

\* A power-up that begins with every rail off begins in order.
LEMMA PowerUpBegins ==
    ASSUME rail = RailsOff, ~powerOn, UNCHANGED <<rail, powerOn>>, at' = "PowerOn", step' = 1
    PROVE  RailInv'
  <1>1. \A r \in Rails : rail'[r] = "off"
    BY DEF RailsOff
  <1>2. RailsInOrder'
    BY <1>1 DEF RailsInOrder, Rails
  <1>3. RailsFollow'
    BY <1>1, PowerSequenceIsRails DEF RailsFollow
  <1>4. QED
    BY <1>2, <1>3 DEF RailInv

\* Every step keeps the rails in order.
LEMMA RailStep == TypeOK /\ RailInv /\ [Next]_vars => RailInv'
  <1> SUFFICES ASSUME TypeOK /\ RailInv, [Next]_vars PROVE RailInv'
    OBVIOUS
  <1>1. CASE SwitchRailOn
    <2>0. step \in 1 .. 4 /\ step <= Len(g_powerSequence)
      BY <1>1 DEF SwitchRailOn, TypeOK
    <2>1. /\ step \in 1 .. 3 /\ rail' = [rail EXCEPT ![g_powerSequence[step]] = "rising"]
          /\ rail[g_powerSequence[step]] = "off"
      BY <1>1, <2>0, PowerSequence DEF SwitchRailOn
    <2>2. at = "PowerOn" /\ UNCHANGED <<at, back, step, powerOn>> /\ ~powerOn
      BY <1>1 DEF SwitchRailOn, coreVars, RailInv, RailsFollow
    <2>3. \A i \in 1 .. 3 : (i < step => Up(g_powerSequence[i])) /\ (i > step => rail[g_powerSequence[i]] = "off")
      BY <2>2 DEF RailInv, RailsFollow
    <2>4. \A i \in 1 .. 3 : i # step => rail'[g_powerSequence[i]] = rail[g_powerSequence[i]]
      BY <2>1, PowerSequenceIsRails DEF TypeOK
    <2>5. \A i \in 1 .. 3 : /\ i < step => Up(g_powerSequence[i])'
                            /\ i > step => rail'[g_powerSequence[i]] = "off"
      BY <2>1, <2>3, <2>4 DEF Up
    <2>6. RailsInOrder'
      <3>1. CASE step = 1
        BY <3>1, <2>5, PowerSequence DEF RailsInOrder
      <3>2. CASE step = 2
        BY <3>2, <2>5, PowerSequence DEF RailsInOrder
      <3>3. CASE step = 3
        BY <3>3, <2>5, PowerSequence DEF RailsInOrder
      <3>4. QED
        BY <2>1, <3>1, <3>2, <3>3
    <2>7. QED
      BY <2>2, <2>5, <2>6 DEF RailInv, RailsFollow, BootPlaces
  <1>2. CASE RailSeenGood
    <2>0. step \in 1 .. 4 /\ step <= Len(g_powerSequence)
      BY <1>2 DEF RailSeenGood, TypeOK
    <2>1. /\ step \in 1 .. 3 /\ step' = step + 1
          /\ at = "PowerOn" /\ UNCHANGED <<at, rail, powerOn>>
          /\ rail[g_powerSequence[step]] = "good"
      BY <1>2, <2>0, PowerSequence DEF RailSeenGood, cardVars
    <2>2. \A i \in 1 .. 3 : (i < step => Up(g_powerSequence[i])) /\ (i > step => rail[g_powerSequence[i]] = "off")
      BY <2>1 DEF RailInv, RailsFollow
    <2>3. \A i \in 1 .. 3 : (i < step' => Up(g_powerSequence[i])') /\ (i > step' => rail'[g_powerSequence[i]] = "off")
      BY <2>1, <2>2 DEF Up
    <2>4. RailsInOrder' /\ ~powerOn'
      BY <2>1 DEF RailInv, RailsInOrder, RailsFollow, Up
    <2>5. QED
      BY <2>1, <2>3, <2>4 DEF RailInv, RailsFollow
  <1>3. CASE RailTimesOut
    BY <1>3
       DEF RailTimesOut, PanicShutdown, OnFault, Hang, BootPlaces, Crashed, Tasks, Rails,
           RailsOff, RailInv, RailsInOrder, RailsFollow, Up, TypeOK, coreVars, cardVars, ledVars
  <1>4. CASE PowerIsOn
    BY <1>4
       DEF PowerIsOn, OnPowerOn, BootPlaces, Crashed, Tasks, Rails, RailsOff, RailInv,
           RailsInOrder, RailsFollow, Up, TypeOK, coreVars, cardVars, ledVars
  <1>5. CASE LEDTask
    BY <1>5
       DEF LEDTask, OnLed, OffLed, BootLed, BootPlaces, Crashed, Tasks, Rails, RailsOff,
           RailInv, RailsInOrder, RailsFollow, Up, TypeOK, coreVars, cardVars, ledVars
  <1>6. CASE ButtonTask
    <2>1. CASE PressSeen /\ ~powerOn
      <3>1. at = "button" /\ at' = "PowerOn" /\ step' = 1 /\ UNCHANGED <<rail, powerOn>>
        BY <1>6, <2>1 DEF ButtonTask, PowerOn, cardVars
      <3>2. rail = RailsOff
        BY <3>1, <2>1 DEF RailInv, RailsFollow
      <3>3. QED
        BY <3>1, <3>2, <2>1, PowerUpBegins
    <2>2. CASE PressSeen /\ powerOn
      BY <1>6, <2>2 DEF ButtonTask, PowerOff, RailInv, RailsInOrder, RailsFollow, BootPlaces,
                        RailsOff, Rails
    <2>3. CASE ~PressSeen
      <3>1. at = "button" /\ at' = "sample" /\ UNCHANGED <<rail, powerOn>>
        BY <1>6, <2>3 DEF ButtonTask, cardVars
      <3>2. QED
        BY <3>1 DEF RailInv, RailsInOrder, RailsFollow, BootPlaces, Up
    <2>4. QED
      BY <2>1, <2>2, <2>3
  <1>7. CASE ButtonSampled
    BY <1>7
       DEF ButtonSampled, BootPlaces, Crashed, Tasks, Rails, RailsOff, RailInv, RailsInOrder,
           RailsFollow, Up, TypeOK, coreVars, cardVars, ledVars
  <1>8. CASE Supervise
    BY <1>8
       DEF Supervise, PanicShutdown, OnFault, Hang, MonitorRails, BootPlaces, Crashed, Tasks,
           Rails, RailsOff, RailInv, RailsInOrder, RailsFollow, Up, TypeOK, coreVars,
           cardVars, ledVars
  <1>9. CASE BSP_InitUART
    BY <1>9
       DEF BSP_InitUART, BootPlaces, Crashed, Tasks, Rails, RailsOff, RailInv, RailsInOrder,
           RailsFollow, Up, TypeOK, coreVars, cardVars, ledVars
  <1>10. CASE InitGPIOs
    BY <1>10
       DEF InitGPIOs, BootPlaces, Crashed, Tasks, Rails, RailsOff, RailInv, RailsInOrder,
           RailsFollow, Up, TypeOK, coreVars, cardVars, ledVars
  <1>11. CASE InitSPI
    BY <1>11
       DEF InitSPI, BootPlaces, Crashed, Tasks, Rails, RailsOff, RailInv, RailsInOrder,
           RailsFollow, Up, TypeOK, coreVars, cardVars, ledVars
  <1>12. CASE App_Init
    <2>1. at = "App_Init" /\ at' = "PowerOn" /\ step' = 1 /\ UNCHANGED <<rail, powerOn>>
      BY <1>12 DEF App_Init, PowerOn, cardVars
    <2>2. ~powerOn /\ rail = RailsOff
      BY <2>1 DEF RailInv, RailsFollow, BootPlaces
    <2>3. QED
      BY <2>1, <2>2, PowerUpBegins
  <1>13. CASE HardFault_Handler
    BY <1>13
       DEF HardFault_Handler, PanicShutdown, OnFault, Hang, BootPlaces, Crashed, Tasks, Rails,
           RailsOff, RailInv, RailsInOrder, RailsFollow, Up, TypeOK, coreVars, cardVars, ledVars
  <1>14. CASE Reset(FALSE)
    BY <1>14
       DEF Reset, BootPlaces, Crashed, Tasks, Rails, RailsOff, RailInv, RailsInOrder,
           RailsFollow, Up, TypeOK, coreVars, cardVars, ledVars
  <1>15. CASE \E r \in Rails : RailRises(r) \/ RailFails(r)
    <2>1. PICK r \in Rails : RailRises(r) \/ RailFails(r)
      BY <1>15
    <2>2. /\ UNCHANGED <<at, back, step, powerOn>> /\ rail[r] \in {"rising", "good"}
          /\ \E v \in {"good", "lost"} : rail' = [rail EXCEPT ![r] = v]
      BY <2>1 DEF RailRises, RailFails, coreVars
    <2>3. \A s \in Rails : (Up(s) => Up(s)') /\ (rail[s] = "off" <=> rail'[s] = "off")
      BY <2>2 DEF Up, TypeOK
    <2>4. rail # RailsOff
      BY <2>2 DEF RailsOff
    <2>5. RailsInOrder'
      BY <2>3 DEF RailInv, RailsInOrder, Rails
    <2>6. RailsFollow'
      BY <2>2, <2>3, <2>4, PowerSequenceIsRails DEF RailInv, RailsFollow
    <2>7. QED
      BY <2>5, <2>6 DEF RailInv
  <1>16. CASE Quiet
    BY <1>16
       DEF Quiet, BootPlaces, Crashed, Tasks, Rails, RailsOff, RailInv, RailsInOrder,
           RailsFollow, Up, TypeOK, coreVars, cardVars, ledVars
  <1>17. QED
    BY StepCases, <1>1, <1>2, <1>3, <1>4, <1>5, <1>6, <1>7, <1>8, <1>9, <1>10, <1>11, <1>12,
           <1>13, <1>14, <1>15, <1>16

\* Every step keeps the power downs first.
LEMMA PowerDownStep == TypeOK /\ PowerDownsFirst /\ [Next]_vars => PowerDownsFirst'
  <1> SUFFICES ASSUME TypeOK /\ PowerDownsFirst, [Next]_vars PROVE PowerDownsFirst'
    OBVIOUS
  <1>1. CASE SwitchRailOn
    BY <1>1 DEF SwitchRailOn, ResetLines, PowerDownsFirst, TypeOK, coreVars, cardVars, ledVars
  <1>2. CASE RailSeenGood
    BY <1>2 DEF RailSeenGood, ResetLines, PowerDownsFirst, TypeOK, coreVars, cardVars, ledVars
  <1>3. CASE RailTimesOut
    BY <1>3
       DEF RailTimesOut, PanicShutdown, OnFault, Hang, ResetLines, PowerDownsFirst, TypeOK,
           coreVars, cardVars, ledVars
  <1>4. CASE PowerIsOn
    BY <1>4
       DEF PowerIsOn, OnPowerOn, ResetLines, PowerDownsFirst, TypeOK, coreVars, cardVars,
           ledVars
  <1>5. CASE LEDTask
    BY <1>5
       DEF LEDTask, OnLed, OffLed, BootLed, ResetLines, PowerDownsFirst, TypeOK, coreVars,
           cardVars, ledVars
  <1>6. CASE ButtonTask
    BY <1>6
       DEF ButtonTask, PowerOff, PowerOn, OnPowerOff, PressSeen, ResetLines, PowerDownsFirst,
           TypeOK, coreVars, cardVars, ledVars
  <1>7. CASE ButtonSampled
    BY <1>7 DEF ButtonSampled, ResetLines, PowerDownsFirst, TypeOK, coreVars, cardVars, ledVars
  <1>8. CASE Supervise
    <2>1. CASE released' \in {released, {}}
      BY <2>1 DEF PowerDownsFirst
    <2>2. CASE \E n \in 1 .. Len(g_resetSequence) :
                  /\ released = {g_resetSequence[m] : m \in 1 .. n - 1}
                  /\ released' = released \union {g_resetSequence[n]}
      <3>1. PICK n \in 1 .. 4 : /\ released = {g_resetSequence[m] : m \in 1 .. n - 1}
                                /\ released' = released \union {g_resetSequence[n]}
        BY <2>2, ResetSequence
      <3>2. CASE n \in {1, 2}
        BY <3>1, <3>2, ResetSequence DEF PowerDownsFirst
      <3>3. CASE n \in {3, 4}
        <4>1. g_resetSequence[1] \in released /\ g_resetSequence[2] \in released
          BY <3>1, <3>3
        <4>2. QED
          BY <4>1, <3>1, ResetSequence DEF PowerDownsFirst
      <3>4. QED
        BY <3>2, <3>3
    <2>3. QED
      BY <1>8, <2>1, <2>2 DEF Supervise, PanicShutdown
  <1>9. CASE BSP_InitUART
    BY <1>9 DEF BSP_InitUART, ResetLines, PowerDownsFirst, TypeOK, coreVars, cardVars, ledVars
  <1>10. CASE InitGPIOs
    BY <1>10 DEF InitGPIOs, ResetLines, PowerDownsFirst, TypeOK, coreVars, cardVars, ledVars
  <1>11. CASE InitSPI
    BY <1>11 DEF InitSPI, ResetLines, PowerDownsFirst, TypeOK, coreVars, cardVars, ledVars
  <1>12. CASE App_Init
    BY <1>12
       DEF App_Init, PowerOn, ResetLines, PowerDownsFirst, TypeOK, coreVars, cardVars, ledVars
  <1>13. CASE HardFault_Handler
    BY <1>13
       DEF HardFault_Handler, PanicShutdown, OnFault, Hang, ResetLines, PowerDownsFirst,
           TypeOK, coreVars, cardVars, ledVars
  <1>14. CASE Reset(FALSE)
    BY <1>14 DEF Reset, ResetLines, PowerDownsFirst, TypeOK, coreVars, cardVars, ledVars
  <1>15. CASE \E r \in Rails : RailRises(r) \/ RailFails(r)
    BY <1>15
       DEF RailRises, RailFails, ResetLines, PowerDownsFirst, TypeOK, coreVars, cardVars,
           ledVars
  <1>16. CASE Quiet
    BY <1>16 DEF Quiet, ResetLines, PowerDownsFirst, TypeOK, coreVars, cardVars, ledVars
  <1>17. QED
    BY StepCases, <1>1, <1>2, <1>3, <1>4, <1>5, <1>6, <1>7, <1>8, <1>9, <1>10, <1>11, <1>12,
           <1>13, <1>14, <1>15, <1>16

\* Every step keeps a fault what it is.
LEMMA FaultStep == TypeOK /\ FaultIsSafe /\ [Next]_vars => FaultIsSafe'
  <1> SUFFICES ASSUME TypeOK /\ FaultIsSafe, [Next]_vars PROVE FaultIsSafe'
    OBVIOUS
  <1>1. CASE SwitchRailOn
    BY <1>1
       DEF SwitchRailOn, Crashed, RailsOff, FaultIsSafe, TypeOK, coreVars, cardVars, ledVars
  <1>2. CASE RailSeenGood
    BY <1>2
       DEF RailSeenGood, Crashed, RailsOff, FaultIsSafe, TypeOK, coreVars, cardVars, ledVars
  <1>3. CASE RailTimesOut
    BY <1>3
       DEF RailTimesOut, PanicShutdown, OnFault, Hang, Crashed, RailsOff, FaultIsSafe, TypeOK,
           coreVars, cardVars, ledVars
  <1>4. CASE PowerIsOn
    BY <1>4
       DEF PowerIsOn, OnPowerOn, Crashed, RailsOff, FaultIsSafe, TypeOK, coreVars, cardVars,
           ledVars
  <1>5. CASE LEDTask
    BY <1>5
       DEF LEDTask, OnLed, OffLed, BootLed, Crashed, RailsOff, FaultIsSafe, TypeOK, coreVars,
           cardVars, ledVars
  <1>6. CASE ButtonTask
    BY <1>6
       DEF ButtonTask, PowerOff, PowerOn, OnPowerOff, PressSeen, Crashed, RailsOff,
           FaultIsSafe, TypeOK, coreVars, cardVars, ledVars
  <1>7. CASE ButtonSampled
    BY <1>7
       DEF ButtonSampled, Crashed, RailsOff, FaultIsSafe, TypeOK, coreVars, cardVars, ledVars
  <1>8. CASE Supervise
    BY <1>8
       DEF Supervise, PanicShutdown, OnFault, Hang, MonitorRails, Crashed, RailsOff,
           FaultIsSafe, TypeOK, coreVars, cardVars, ledVars
  <1>9. CASE BSP_InitUART
    BY <1>9
       DEF BSP_InitUART, Crashed, RailsOff, FaultIsSafe, TypeOK, coreVars, cardVars, ledVars
  <1>10. CASE InitGPIOs
    BY <1>10 DEF InitGPIOs, Crashed, RailsOff, FaultIsSafe, TypeOK, coreVars, cardVars, ledVars
  <1>11. CASE InitSPI
    BY <1>11 DEF InitSPI, Crashed, RailsOff, FaultIsSafe, TypeOK, coreVars, cardVars, ledVars
  <1>12. CASE App_Init
    BY <1>12
       DEF App_Init, PowerOn, Crashed, RailsOff, FaultIsSafe, TypeOK, coreVars, cardVars,
           ledVars
  <1>13. CASE HardFault_Handler
    BY <1>13
       DEF HardFault_Handler, PanicShutdown, OnFault, Hang, Crashed, RailsOff, FaultIsSafe,
           TypeOK, coreVars, cardVars, ledVars
  <1>14. CASE Reset(FALSE)
    BY <1>14 DEF Reset, Crashed, RailsOff, FaultIsSafe, TypeOK, coreVars, cardVars, ledVars
  <1>15. CASE \E r \in Rails : RailRises(r) \/ RailFails(r)
    BY <1>15
       DEF RailRises, RailFails, Crashed, RailsOff, FaultIsSafe, TypeOK, coreVars, cardVars,
           ledVars
  <1>16. CASE Quiet
    BY <1>16 DEF Quiet, Crashed, RailsOff, FaultIsSafe, TypeOK, coreVars, cardVars, ledVars
  <1>17. QED
    BY StepCases, <1>1, <1>2, <1>3, <1>4, <1>5, <1>6, <1>7, <1>8, <1>9, <1>10, <1>11, <1>12,
           <1>13, <1>14, <1>15, <1>16

\* Every step keeps the LEDs honest.
LEMMA LedStep == TypeOK /\ LedsAreHonest /\ [Next]_vars => LedsAreHonest'
  <1> SUFFICES ASSUME TypeOK /\ LedsAreHonest, [Next]_vars PROVE LedsAreHonest'
    OBVIOUS
  <1>1. CASE SwitchRailOn
    BY <1>1
       DEF SwitchRailOn, Tasks, Crashed, LedsAreHonest, IsResetsDone, TypeOK, coreVars,
           cardVars, ledVars
  <1>2. CASE RailSeenGood
    BY <1>2
       DEF RailSeenGood, Tasks, Crashed, LedsAreHonest, IsResetsDone, TypeOK, coreVars,
           cardVars, ledVars
  <1>3. CASE RailTimesOut
    BY <1>3
       DEF RailTimesOut, PanicShutdown, OnFault, Hang, Tasks, Crashed, LedsAreHonest,
           IsResetsDone, TypeOK, coreVars, cardVars, ledVars
  <1>4. CASE PowerIsOn
    BY <1>4
       DEF PowerIsOn, OnPowerOn, Tasks, Crashed, LedsAreHonest, IsResetsDone, TypeOK,
           coreVars, cardVars, ledVars
  <1>5. CASE LEDTask
    BY <1>5
       DEF LEDTask, OnLed, OffLed, BootLed, Tasks, Crashed, LedsAreHonest, IsResetsDone,
           TypeOK, coreVars, cardVars, ledVars
  <1>6. CASE ButtonTask
    BY <1>6
       DEF ButtonTask, PowerOff, PowerOn, OnPowerOff, PressSeen, Tasks, Crashed,
           LedsAreHonest, IsResetsDone, TypeOK, coreVars, cardVars, ledVars
  <1>7. CASE ButtonSampled
    BY <1>7
       DEF ButtonSampled, Tasks, Crashed, LedsAreHonest, IsResetsDone, TypeOK, coreVars,
           cardVars, ledVars
  <1>8. CASE Supervise
    BY <1>8
       DEF Supervise, PanicShutdown, OnFault, Hang, MonitorRails, Tasks, Crashed,
           LedsAreHonest, IsResetsDone, TypeOK, coreVars, cardVars, ledVars
  <1>9. CASE BSP_InitUART
    BY <1>9
       DEF BSP_InitUART, Tasks, Crashed, LedsAreHonest, IsResetsDone, TypeOK, coreVars,
           cardVars, ledVars
  <1>10. CASE InitGPIOs
    BY <1>10
       DEF InitGPIOs, Tasks, Crashed, LedsAreHonest, IsResetsDone, TypeOK, coreVars, cardVars,
           ledVars
  <1>11. CASE InitSPI
    BY <1>11
       DEF InitSPI, Tasks, Crashed, LedsAreHonest, IsResetsDone, TypeOK, coreVars, cardVars,
           ledVars
  <1>12. CASE App_Init
    BY <1>12
       DEF App_Init, PowerOn, Tasks, Crashed, LedsAreHonest, IsResetsDone, TypeOK, coreVars,
           cardVars, ledVars
  <1>13. CASE HardFault_Handler
    BY <1>13
       DEF HardFault_Handler, PanicShutdown, OnFault, Hang, Tasks, Crashed, LedsAreHonest,
           IsResetsDone, TypeOK, coreVars, cardVars, ledVars
  <1>14. CASE Reset(FALSE)
    BY <1>14
       DEF Reset, Tasks, Crashed, LedsAreHonest, IsResetsDone, TypeOK, coreVars, cardVars,
           ledVars
  <1>15. CASE \E r \in Rails : RailRises(r) \/ RailFails(r)
    BY <1>15
       DEF RailRises, RailFails, Tasks, Crashed, LedsAreHonest, IsResetsDone, TypeOK,
           coreVars, cardVars, ledVars
  <1>16. CASE Quiet
    BY <1>16
       DEF Quiet, Tasks, Crashed, LedsAreHonest, IsResetsDone, TypeOK, coreVars, cardVars,
           ledVars
  <1>17. QED
    BY StepCases, <1>1, <1>2, <1>3, <1>4, <1>5, <1>6, <1>7, <1>8, <1>9, <1>10, <1>11, <1>12,
           <1>13, <1>14, <1>15, <1>16

\* The type invariant in three parts.
CoreType == at \in Places /\ back \in {"led", "sample"} /\ step \in 1 .. 4
CardType ==
    /\ rail \in [Rails -> {"off", "rising", "good", "lost"}]
    /\ released \in SUBSET ResetLines
    /\ powerOn \in BOOLEAN /\ fault \in BOOLEAN /\ sysok \in BOOLEAN
    /\ pgood \in BOOLEAN /\ blinking \in BOOLEAN
IrqType ==
    /\ pressed \in BOOLEAN /\ buttonDown \in BOOLEAN /\ delayOver \in BOOLEAN
    /\ enabled \in SUBSET Irqs /\ pending \in SUBSET Irqs
    /\ rxFifo \in 0 .. RX_FIFO /\ overflows \in Nat
    /\ presses \in Nat /\ toggles \in Nat /\ arrivals \in Nat /\ resets \in Nat
    /\ stray \in BOOLEAN

\* The three parts make up the type invariant.
LEMMA TypeParts == /\ TypeOK <=> CoreType /\ CardType /\ IrqType
                   /\ TypeOK' <=> (CoreType /\ CardType /\ IrqType)'
  BY DEF TypeOK, CoreType, CardType, IrqType

\* Every step keeps the types.
LEMMA TypeStep == TypeOK /\ [Next]_vars => TypeOK'
  <1> SUFFICES ASSUME TypeOK, [Next]_vars PROVE TypeOK'
    OBVIOUS
  <1>1. CASE SwitchRailOn
    BY <1>1, PowerSequence DEF SwitchRailOn, TypeOK, Places, Tasks, Crashed, Irqs, RailsOff,
           coreVars, cardVars, ledVars, buttonVars, irqVars, resetVars
  <1>2. CASE RailSeenGood
    BY <1>2, PowerSequence DEF RailSeenGood, TypeOK, Places, Tasks, Crashed, Irqs, RailsOff,
           coreVars, cardVars, ledVars, buttonVars, irqVars, resetVars
  <1>3. CASE RailTimesOut
    <2>1. CoreType'
      BY <1>3
         DEF RailTimesOut, PanicShutdown, OnFault, Hang, TypeOK, CoreType, Places, Tasks,
             Crashed, coreVars
    <2>2. CardType'
      BY <1>3
         DEF RailTimesOut, PanicShutdown, OnFault, Hang, TypeOK, CardType, RailsOff, cardVars,
             ledVars
    <2>3. IrqType'
      BY <1>3
         DEF RailTimesOut, PanicShutdown, OnFault, Hang, TypeOK, IrqType, Irqs, buttonVars,
             irqVars, resetVars
    <2>4. QED
      BY <2>1, <2>2, <2>3, TypeParts
  <1>4. CASE PowerIsOn
    BY <1>4 DEF PowerIsOn, OnPowerOn, TypeOK, Places, Tasks, Crashed, Irqs, RailsOff, coreVars,
           cardVars, ledVars, buttonVars, irqVars, resetVars
  <1>5. CASE LEDTask
    BY <1>5 DEF LEDTask, OnLed, OffLed, BootLed, TypeOK, Places, Tasks, Crashed, Irqs,
           RailsOff, coreVars, cardVars, ledVars, buttonVars, irqVars, resetVars
  <1>6. CASE ButtonTask
    <2>1. CoreType'
      BY <1>6
         DEF ButtonTask, PowerOff, PowerOn, OnPowerOff, TypeOK, CoreType, Places, Tasks,
             Crashed, coreVars
    <2>2. CardType'
      BY <1>6
         DEF ButtonTask, PowerOff, PowerOn, OnPowerOff, TypeOK, CardType, RailsOff, cardVars,
             ledVars
    <2>3. IrqType'
      BY <1>6
         DEF ButtonTask, PowerOff, PowerOn, OnPowerOff, TypeOK, IrqType, Irqs, buttonVars,
             irqVars, resetVars
    <2>4. QED
      BY <2>1, <2>2, <2>3, TypeParts
  <1>7. CASE ButtonSampled
    BY <1>7 DEF ButtonSampled, TypeOK, Places, Tasks, Crashed, Irqs, RailsOff, coreVars,
           cardVars, ledVars, buttonVars, irqVars, resetVars
  <1>8. CASE Supervise
    <2>1. CoreType'
      BY <1>8
         DEF Supervise, PanicShutdown, OnFault, Hang, TypeOK, CoreType, Places, Tasks,
             Crashed, coreVars
    <2>2. CardType'
      <3>1. \A n \in 1 .. Len(g_resetSequence) : g_resetSequence[n] \in ResetLines
        <4>1. \A n \in 1 .. 4 : n = 1 \/ n = 2 \/ n = 3 \/ n = 4
          OBVIOUS
        <4>2. QED
          BY <4>1, ResetSequence DEF ResetLines
      <3>2. released' \in SUBSET ResetLines
        BY <1>8, <3>1 DEF Supervise, PanicShutdown, TypeOK
      <3>3. QED
        BY <1>8, <3>2
           DEF Supervise, PanicShutdown, OnFault, Hang, TypeOK, CardType, RailsOff, ledVars
    <2>3. IrqType'
      BY <1>8
         DEF Supervise, PanicShutdown, OnFault, Hang, TypeOK, IrqType, Irqs, buttonVars,
             irqVars, resetVars
    <2>4. QED
      BY <2>1, <2>2, <2>3, TypeParts
  <1>9. CASE BSP_InitUART
    BY <1>9 DEF BSP_InitUART, TypeOK, Places, Tasks, Crashed, Irqs, RailsOff, coreVars,
           cardVars, ledVars, buttonVars, irqVars, resetVars
  <1>10. CASE InitGPIOs
    BY <1>10 DEF InitGPIOs, TypeOK, Places, Tasks, Crashed, Irqs, RailsOff, coreVars, cardVars,
           ledVars, buttonVars, irqVars, resetVars
  <1>11. CASE InitSPI
    BY <1>11 DEF InitSPI, TypeOK, Places, Tasks, Crashed, Irqs, RailsOff, coreVars, cardVars,
           ledVars, buttonVars, irqVars, resetVars
  <1>12. CASE App_Init
    BY <1>12 DEF App_Init, PowerOn, TypeOK, Places, Tasks, Crashed, Irqs, RailsOff, coreVars,
           cardVars, ledVars, buttonVars, irqVars, resetVars
  <1>13. CASE Interrupt
    <2>1. /\ SPI_CSHandler \/ SPI1_Handler \/ USART1_Handler
          /\ UNCHANGED <<coreVars, cardVars, ledVars, buttonVars, delayOver, enabled,
                 arrivals, resetVars>>
      BY <1>13, InterruptIsServed
    <2>2. CoreType' /\ CardType'
      BY <2>1 DEF TypeOK, CoreType, CardType, coreVars, cardVars, ledVars
    <2>3. pending' \in SUBSET Irqs /\ rxFifo' \in 0 .. RX_FIFO /\ overflows' \in Nat
      BY <2>1, BoundsAssumption DEF SPI_CSHandler, SPI1_Handler, USART1_Handler, TypeOK
    <2>4. IrqType'
      BY <2>1, <2>3 DEF TypeOK, IrqType, buttonVars, resetVars
    <2>5. QED
      BY <2>2, <2>4, TypeParts
  <1>14. CASE HardFault_Handler
    <2>1. CoreType'
      BY <1>14
         DEF HardFault_Handler, PanicShutdown, OnFault, Hang, TypeOK, CoreType, Places, Tasks,
             Crashed, coreVars
    <2>2. CardType'
      BY <1>14
         DEF HardFault_Handler, PanicShutdown, OnFault, Hang, TypeOK, CardType, RailsOff,
             cardVars, ledVars
    <2>3. IrqType'
      BY <1>14
         DEF HardFault_Handler, PanicShutdown, OnFault, Hang, TypeOK, IrqType, Irqs,
             buttonVars, irqVars, resetVars
    <2>4. QED
      BY <2>1, <2>2, <2>3, TypeParts
  <1>15. CASE OtherException \/ PowerCycled
    <2>1. CoreType'
      BY <1>15
         DEF OtherException, PowerCycled, Reset, TypeOK, CoreType, Places, Tasks, Crashed,
             coreVars
    <2>2. CardType'
      BY <1>15
         DEF OtherException, PowerCycled, Reset, TypeOK, CardType, RailsOff, cardVars, ledVars
    <2>3. IrqType'
      <3>1. /\ stray' = FALSE /\ resets' = resets + 1
            /\ buttonDown' = FALSE /\ delayOver' = FALSE
            /\ presses' = (IF pressed THEN 1 ELSE 0) /\ toggles' = 0
            /\ enabled' = {} /\ pending' = {} /\ rxFifo' = 0 /\ overflows' = 0
            /\ UNCHANGED <<pressed, arrivals>>
        BY <1>15 DEF OtherException, PowerCycled, Reset
      <3>2. presses' \in Nat /\ rxFifo' \in 0 .. RX_FIFO
        BY <3>1, BoundsAssumption
      <3>3. pressed \in BOOLEAN /\ arrivals \in Nat /\ resets + 1 \in Nat
        BY DEF TypeOK
      <3>4. QED
        BY <3>1, <3>2, <3>3 DEF IrqType
    <2>4. QED
      BY <2>1, <2>2, <2>3, TypeParts
  <1>16. CASE \E r \in Rails : RailRises(r) \/ RailFails(r)
    <2>1. CoreType'
      BY <1>16 DEF RailRises, RailFails, TypeOK, CoreType, Places, Tasks, Crashed, coreVars
    <2>2. CardType'
      BY <1>16 DEF RailRises, RailFails, TypeOK, CardType, RailsOff, cardVars, ledVars
    <2>3. IrqType'
      BY <1>16 DEF RailRises, RailFails, TypeOK, IrqType, Irqs, buttonVars, irqVars, resetVars
    <2>4. QED
      BY <2>1, <2>2, <2>3, TypeParts
  <1>17. CASE PressButton \/ ReleaseButton
    <2>1. CoreType'
      BY <1>17
         DEF PressButton, ReleaseButton, TypeOK, CoreType, Places, Tasks, Crashed, coreVars
    <2>2. CardType'
      BY <1>17 DEF PressButton, ReleaseButton, TypeOK, CardType, RailsOff, cardVars, ledVars
    <2>3. IrqType'
      <3>1. presses \in Nat /\ presses + 1 \in Nat
        BY DEF TypeOK
      <3>2. CASE PressButton
        BY <3>1, <3>2 DEF PressButton, TypeOK, IrqType, irqVars, resetVars
      <3>3. CASE ReleaseButton
        BY <3>3 DEF ReleaseButton, TypeOK, IrqType, irqVars, resetVars
      <3>4. QED
        BY <1>17, <3>2, <3>3
    <2>4. QED
      BY <2>1, <2>2, <2>3, TypeParts
  <1>18. CASE ResetTimer
    BY <1>18 DEF ResetTimer, TypeOK, Places, Tasks, Crashed, Irqs, RailsOff, coreVars,
           cardVars, ledVars, buttonVars, irqVars, resetVars
  <1>19. CASE \E irq \in Irqs : Arrive(irq)
    BY <1>19 DEF Arrive, TypeOK, Places, Tasks, Crashed, Irqs, RailsOff, coreVars, cardVars,
           ledVars, buttonVars, irqVars, resetVars
  <1>20. CASE UNCHANGED vars
    BY <1>20 DEF vars, TypeOK, Places, Tasks, Crashed, Irqs, RailsOff, coreVars, cardVars,
           ledVars, buttonVars, irqVars, resetVars
  <1>21. QED
    BY <1>1, <1>2, <1>3, <1>4, <1>5, <1>6, <1>7, <1>8, <1>9, <1>10, <1>11, <1>12, <1>13,
           <1>14, <1>15, <1>16, <1>17, <1>18, <1>19, <1>20
       DEF Next, Core, Boot, PowerSequencing, Task, Environment

\* Every step keeps the presses counted.
LEMMA PressStep == TypeOK /\ PressCounted /\ [Next]_vars => PressCounted'
  <1> SUFFICES ASSUME TypeOK /\ PressCounted, [Next]_vars PROVE PressCounted'
    OBVIOUS
  <1>1. CASE SwitchRailOn
    BY <1>1 DEF SwitchRailOn, TypeOK, PressCounted, Acted, Tasks, PressSeen, coreVars,
           cardVars, ledVars, buttonVars, irqVars, resetVars
  <1>2. CASE RailSeenGood
    BY <1>2 DEF RailSeenGood, TypeOK, PressCounted, Acted, Tasks, PressSeen, coreVars,
           cardVars, ledVars, buttonVars, irqVars, resetVars
  <1>3. CASE RailTimesOut
    BY <1>3 DEF RailTimesOut, PanicShutdown, OnFault, Hang, TypeOK, PressCounted, Acted, Tasks,
           PressSeen, coreVars, cardVars, ledVars, buttonVars, irqVars, resetVars
  <1>4. CASE PowerIsOn
    BY <1>4 DEF PowerIsOn, OnPowerOn, TypeOK, PressCounted, Acted, Tasks, PressSeen, coreVars,
           cardVars, ledVars, buttonVars, irqVars, resetVars
  <1>5. CASE LEDTask
    BY <1>5 DEF LEDTask, OnLed, OffLed, BootLed, TypeOK, PressCounted, Acted, Tasks, PressSeen,
           coreVars, cardVars, ledVars, buttonVars, irqVars, resetVars
  <1>6. CASE ButtonTask
    BY <1>6 DEF ButtonTask, PowerOff, PowerOn, OnPowerOff, TypeOK, PressCounted, Acted, Tasks,
           PressSeen, coreVars, cardVars, ledVars, buttonVars, irqVars, resetVars
  <1>7. CASE ButtonSampled
    BY <1>7 DEF ButtonSampled, TypeOK, PressCounted, Acted, Tasks, PressSeen, coreVars,
           cardVars, ledVars, buttonVars, irqVars, resetVars
  <1>8. CASE Supervise
    BY <1>8 DEF Supervise, PanicShutdown, OnFault, Hang, TypeOK, PressCounted, Acted, Tasks,
           PressSeen, coreVars, cardVars, ledVars, buttonVars, irqVars, resetVars
  <1>9. CASE BSP_InitUART
    BY <1>9 DEF BSP_InitUART, TypeOK, PressCounted, Acted, Tasks, PressSeen, coreVars,
           cardVars, ledVars, buttonVars, irqVars, resetVars
  <1>10. CASE InitGPIOs
    BY <1>10 DEF InitGPIOs, TypeOK, PressCounted, Acted, Tasks, PressSeen, coreVars, cardVars,
           ledVars, buttonVars, irqVars, resetVars
  <1>11. CASE InitSPI
    BY <1>11 DEF InitSPI, TypeOK, PressCounted, Acted, Tasks, PressSeen, coreVars, cardVars,
           ledVars, buttonVars, irqVars, resetVars
  <1>12. CASE App_Init
    BY <1>12 DEF App_Init, PowerOn, TypeOK, PressCounted, Acted, Tasks, PressSeen, coreVars,
           cardVars, ledVars, buttonVars, irqVars, resetVars
  <1>13. CASE Interrupt
    <2>1. UNCHANGED <<at, back, buttonVars>>
      BY <1>13, InterruptIsServed DEF coreVars
    <2>2. QED
      BY <2>1 DEF PressCounted, Acted, buttonVars
  <1>14. CASE HardFault_Handler
    BY <1>14 DEF HardFault_Handler, PanicShutdown, OnFault, Hang, TypeOK, PressCounted, Acted,
           Tasks, PressSeen, coreVars, cardVars, ledVars, buttonVars, irqVars, resetVars
  <1>15. CASE OtherException \/ PowerCycled
    BY <1>15 DEF OtherException, PowerCycled, Reset, TypeOK, PressCounted, Acted, Tasks,
           PressSeen, coreVars, cardVars, ledVars, buttonVars, irqVars, resetVars
  <1>16. CASE \E r \in Rails : RailRises(r) \/ RailFails(r)
    BY <1>16 DEF RailRises, RailFails, TypeOK, PressCounted, Acted, Tasks, PressSeen, coreVars,
           cardVars, ledVars, buttonVars, irqVars, resetVars
  <1>17. CASE PressButton \/ ReleaseButton
    BY <1>17 DEF PressButton, ReleaseButton, TypeOK, PressCounted, Acted, Tasks, PressSeen,
           coreVars, cardVars, ledVars, buttonVars, irqVars, resetVars
  <1>18. CASE ResetTimer
    BY <1>18 DEF ResetTimer, TypeOK, PressCounted, Acted, Tasks, PressSeen, coreVars, cardVars,
           ledVars, buttonVars, irqVars, resetVars
  <1>19. CASE \E irq \in Irqs : Arrive(irq)
    BY <1>19 DEF Arrive, TypeOK, PressCounted, Acted, Tasks, PressSeen, coreVars, cardVars,
           ledVars, buttonVars, irqVars, resetVars
  <1>20. CASE UNCHANGED vars
    BY <1>20 DEF vars, TypeOK, PressCounted, Acted, Tasks, PressSeen, coreVars, cardVars,
           ledVars, buttonVars, irqVars, resetVars
  <1>21. QED
    BY <1>1, <1>2, <1>3, <1>4, <1>5, <1>6, <1>7, <1>8, <1>9, <1>10, <1>11, <1>12, <1>13,
           <1>14, <1>15, <1>16, <1>17, <1>18, <1>19, <1>20
       DEF Next, Core, Boot, PowerSequencing, Task, Environment

\* No step restarts for an interrupt without a handler.
LEMMA StrayStep == TypeOK /\ NoStrayInterrupt /\ [Next]_vars => NoStrayInterrupt'
  <1> SUFFICES ASSUME TypeOK /\ NoStrayInterrupt, [Next]_vars PROVE NoStrayInterrupt'
    OBVIOUS
  <1>1. CASE SwitchRailOn
    BY <1>1 DEF SwitchRailOn, NoStrayInterrupt, cardVars, resetVars
  <1>2. CASE RailSeenGood
    BY <1>2 DEF RailSeenGood, NoStrayInterrupt, cardVars, resetVars
  <1>3. CASE RailTimesOut
    BY <1>3
       DEF RailTimesOut, PanicShutdown, OnFault, Hang, NoStrayInterrupt, cardVars, resetVars
  <1>4. CASE PowerIsOn
    BY <1>4 DEF PowerIsOn, OnPowerOn, NoStrayInterrupt, cardVars, resetVars
  <1>5. CASE LEDTask
    BY <1>5 DEF LEDTask, OnLed, OffLed, BootLed, NoStrayInterrupt, cardVars, resetVars
  <1>6. CASE ButtonTask
    BY <1>6 DEF ButtonTask, PowerOff, PowerOn, OnPowerOff, NoStrayInterrupt, cardVars, resetVars
  <1>7. CASE ButtonSampled
    BY <1>7 DEF ButtonSampled, NoStrayInterrupt, cardVars, resetVars
  <1>8. CASE Supervise
    BY <1>8 DEF Supervise, PanicShutdown, OnFault, Hang, NoStrayInterrupt, cardVars, resetVars
  <1>9. CASE BSP_InitUART
    BY <1>9 DEF BSP_InitUART, NoStrayInterrupt, cardVars, resetVars
  <1>10. CASE InitGPIOs
    BY <1>10 DEF InitGPIOs, NoStrayInterrupt, cardVars, resetVars
  <1>11. CASE InitSPI
    BY <1>11 DEF InitSPI, NoStrayInterrupt, cardVars, resetVars
  <1>12. CASE App_Init
    BY <1>12 DEF App_Init, PowerOn, NoStrayInterrupt, cardVars, resetVars
  <1>13. CASE Interrupt
    BY <1>13, InterruptIsServed DEF Interrupt, SPI_CSHandler, SPI1_Handler, USART1_Handler,
           NoStrayInterrupt, cardVars, resetVars
  <1>14. CASE HardFault_Handler
    BY <1>14 DEF HardFault_Handler, PanicShutdown, OnFault, Hang, NoStrayInterrupt, cardVars,
           resetVars
  <1>15. CASE OtherException \/ PowerCycled
    BY <1>15 DEF OtherException, PowerCycled, Reset, NoStrayInterrupt, cardVars, resetVars
  <1>16. CASE \E r \in Rails : RailRises(r) \/ RailFails(r)
    BY <1>16 DEF RailRises, RailFails, NoStrayInterrupt, cardVars, resetVars
  <1>17. CASE PressButton \/ ReleaseButton
    BY <1>17 DEF PressButton, ReleaseButton, NoStrayInterrupt, cardVars, resetVars
  <1>18. CASE ResetTimer
    BY <1>18 DEF ResetTimer, NoStrayInterrupt, cardVars, resetVars
  <1>19. CASE \E irq \in Irqs : Arrive(irq)
    BY <1>19 DEF Arrive, NoStrayInterrupt, cardVars, resetVars
  <1>20. CASE UNCHANGED vars
    BY <1>20 DEF vars, NoStrayInterrupt, cardVars, resetVars
  <1>21. QED
    BY <1>1, <1>2, <1>3, <1>4, <1>5, <1>6, <1>7, <1>8, <1>9, <1>10, <1>11, <1>12, <1>13,
           <1>14, <1>15, <1>16, <1>17, <1>18, <1>19, <1>20
       DEF Next, Core, Boot, PowerSequencing, Task, Environment

\* The initial state satisfies the inductive invariant.
LEMMA InitHolds == Init => IInv
  <1> SUFFICES ASSUME Init PROVE IInv
    OBVIOUS
  <1>1. TypeOK
    <2>1. CoreType /\ CardType
      <3>1. CoreType
        BY DEF Init, CoreType, Places
      <3>2. rail \in [Rails -> {"off", "rising", "good", "lost"}]
        BY DEF Init, RailsOff
      <3>3. QED
        BY <3>1, <3>2 DEF Init, CardType
    <2>2. presses \in Nat /\ rxFifo \in 0 .. RX_FIFO
      BY BoundsAssumption DEF Init
    <2>3. IrqType
      BY <2>2 DEF Init, IrqType
    <2>4. QED
      BY <2>1, <2>3, TypeParts
  <1>2. RailInv
    BY DEF Init, RailInv, RailsInOrder, RailsFollow, RailsOff, Rails
  <1>3. PowerDownsFirst /\ NoStrayInterrupt
    BY DEF Init, PowerDownsFirst, NoStrayInterrupt
  <1>4. FaultIsSafe /\ LedsAreHonest
    BY DEF Init, FaultIsSafe, LedsAreHonest, Tasks
  <1>5. PressCounted
    BY DEF Init, PressCounted
  <1>6. QED
    BY <1>1, <1>2, <1>3, <1>4, <1>5 DEF IInv

\* The inductive invariant holds in every reachable state.
LEMMA IInvHolds == Spec => []IInv
  <1>1. IInv /\ [Next]_vars => IInv'
    BY TypeStep, RailStep, PowerDownStep, FaultStep, LedStep, PressStep, StrayStep DEF IInv
  <1>2. QED
    BY <1>1, InitHolds, PTL DEF Spec

\* Type correctness: the receive FIFO, which no task reads, never overruns its room
\* (common-vectors.cpp:48-76).
THEOREM SupervisorTypeCorrect == Spec => []TypeOK
  <1>1. IInv => TypeOK
    BY DEF IInv
  <1>2. QED
    BY <1>1, IInvHolds, PTL

\* Rails and resets follow their sequences across power-ups that are given up, faults,
\* power-offs and restarts (Init.cpp:59-95).
THEOREM SupervisorSequencesKept == Spec => []SequencesKept
  <1>1. IInv => SequencesKept
    BY DEF IInv, RailInv, SequencesKept
  <1>2. QED
    BY <1>1, IInvHolds, PTL

\* A supervisor that gave up has switched everything off and says so (supervisor.h:55-65).
THEOREM SupervisorFaultIsSafe == Spec => []FaultIsSafe
  <1>1. IInv => FaultIsSafe
    BY DEF IInv
  <1>2. QED
    BY <1>1, IInvHolds, PTL

\* The LEDs tell the state of power and resets (LEDTask.h:44-70, supervisor.h:49-53).
THEOREM SupervisorLedsAreHonest == Spec => []LedsAreHonest
  <1>1. IInv => LedsAreHonest
    BY DEF IInv
  <1>2. QED
    BY <1>1, IInvHolds, PTL

\* The power is toggled at most once for a press (ButtonTask.h:47-61).
THEOREM SupervisorOncePerPress == Spec => []OncePerPress
  <1>1. IInv => OncePerPress
    BY DEF IInv, PressCounted, OncePerPress
  <1>2. QED
    BY <1>1, IInvHolds, PTL

\* Every interrupt that is enabled has its handler (vectors.cpp:54-157).
THEOREM SupervisorNoStrayInterrupt == Spec => []NoStrayInterrupt
  <1>1. IInv => NoStrayInterrupt
    BY DEF IInv
  <1>2. QED
    BY <1>1, IInvHolds, PTL

\* After a fault only a restart changes the rails and the LEDs (supervisor.h:62).
THEOREM SupervisorNoAutoRestart == Spec => NoAutoRestart
  <1> DEFINE Settled == UNCHANGED <<rail, powerOn, fault, sysok, pgood>>
  <1>1. ASSUME IInv, [Next]_vars, fault, resets' = resets PROVE Settled
    <2>1. at \in {"hung", "fault"} /\ rail = RailsOff
      BY <1>1 DEF IInv, FaultIsSafe
    <2>2. CASE Quiet
      BY <2>2 DEF Quiet, cardVars, ledVars
    <2>3. CASE Reset(FALSE)
      BY <1>1, <2>3 DEF Reset, IInv, TypeOK
    <2>4. CASE \E r \in Rails : RailRises(r) \/ RailFails(r)
      BY <2>1, <2>4 DEF RailRises, RailFails, RailsOff
    <2>5. CASE HardFault_Handler
      BY <2>1, <2>5 DEF HardFault_Handler, Crashed
    <2>6. QED
      BY <1>1, <2>1, <2>2, <2>3, <2>4, <2>5, StepCases
         DEF IInv, SwitchRailOn, RailSeenGood, RailTimesOut, PowerIsOn, LEDTask, ButtonTask,
             ButtonSampled, Supervise, BSP_InitUART, InitGPIOs, InitSPI, App_Init
  <1>2. IInv /\ [Next]_vars => [fault /\ resets' = resets => Settled]_vars
    BY <1>1
  <1>3. QED
    BY <1>2, IInvHolds, PTL DEF Spec, NoAutoRestart

=============================================================================
