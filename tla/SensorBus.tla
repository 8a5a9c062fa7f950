------------------------------ MODULE SensorBus ------------------------------
(***************************************************************************)
(* The sensors of a line card on the management processor's I2C bus.  A    *)
(* sensor has registers and a pointer: a read returns the register the     *)
(* last write pointed at, whoever made it, and the pointer outlives a      *)
(* restart of the processor.  A transaction can fail; one that fails may   *)
(* have moved the pointer first.                                           *)
(***************************************************************************)
EXTENDS Integers, Sequences

CONSTANTS
    TempSensors,     \* temperature sensors, in the order they are set up (0x90, 0x92, 0x94)
    PowerMonitors    \* power monitors (0x80, 0x82, 0x84, 0x86)

Members(s) == {s[i] : i \in 1 .. Len(s)}
Sensors == Members(TempSensors) \union Members(PowerMonitors)

ASSUME SensorsAssumption ==
    /\ TempSensors \in Seq(Nat) /\ TempSensors # <<>> /\ PowerMonitors \in Seq(Nat)
    /\ \A i, j \in 1 .. Len(TempSensors) : TempSensors[i] = TempSensors[j] => i = j
    /\ Members(TempSensors) \intersect Members(PowerMonitors) = {}

\* Registers: a temperature sensor has its reading in 0 and its configuration in 1;
\* a power monitor has the shunt voltage in 1 and the bus voltage in 2.
Registers == 0 .. 2

NoReading == [what |-> "none", dev |-> 0, reg |-> 0]

VARIABLES
    pointer,     \* each sensor's register pointer
    prepared,    \* history: the sensors whose setup succeeded since the last boot
    shown        \* the last reading "show hardware" printed; "zero" stands for failure

sensorVars == <<pointer, prepared, shown>>

SensorInit ==
    /\ pointer = [d \in Sensors |-> 0]
    /\ prepared = {}
    /\ shown = NoReading

SensorTypeOK ==
    /\ pointer \in [Sensors -> Registers]
    /\ prepared \subseteq Members(TempSensors)
    /\ shown \in [what : {"none", "zero", "temperature", "voltage", "current"},
                  dev : Sensors \union {0}, reg : Registers]

\* BlockingWrite and BlockingWrite8: the first byte after the address is the pointer.
Write(d, reg, ok) ==
    \E r \in (IF ok THEN {reg} ELSE {reg, pointer[d]}) :
        pointer' = [pointer EXCEPT ![d] = r]

-----------------------------------------------------------------------------
(* InitTempSensor, one transaction at a time: configuration, pointer, read.*)

ConfigureSensor(d, ok) == Write(d, 1, ok) /\ UNCHANGED <<prepared, shown>>

PointNowhere(d, ok) == UNCHANGED pointer                                \* mutant
PointAtTemperature(d, ok) == Write(d, 0, ok)

SelectTemperature(d, ok) ==
    /\ PointAtTemperature(d, ok)
    /\ prepared' = (IF ok THEN prepared \union {d} ELSE prepared)
    /\ UNCHANGED shown

ReadInitial(d) == UNCHANGED sensorVars

-----------------------------------------------------------------------------
(* "show hardware": PrintLineCardInfo, GetVoltage and GetCurrent.          *)

ReadTemperature(d, ok) ==
    /\ shown' = (IF ok THEN [what |-> "temperature", dev |-> d, reg |-> pointer[d]]
                       ELSE NoReading)
    /\ UNCHANGED <<pointer, prepared>>

\* The value of the register selected, or 0 when either transaction fails.
Get(d, what, reg, selected, read) ==
    /\ Write(d, reg, selected)
    /\ shown' = (IF selected /\ read THEN [what |-> what, dev |-> d, reg |-> pointer'[d]]
                                     ELSE [what |-> "zero", dev |-> d, reg |-> 0])
    /\ UNCHANGED prepared

GetVoltage(d, selected, read) == Get(d, "voltage", 2, selected, read)
GetCurrent(d, selected, read) == Get(d, "current", 1, selected, read)

\* A restart of the processor leaves the sensors as they are.
SensorRestart == prepared' = {} /\ shown' = NoReading /\ UNCHANGED pointer

-----------------------------------------------------------------------------
(* Properties.                                                             *)

\* A voltage comes from the bus voltage register and a current from the shunt
\* register, or the value shown is 0, although all reads share one pointer that a
\* failed selection leaves anywhere (LatentRedCLISessionContext.cpp:788-814).  A
\* temperature sensor whose setup succeeded shows its temperature register from then
\* on: no other access and no restart of the processor moves its pointer away
\* (Init.cpp:107-131, LatentRedCLISessionContext.cpp:753-762).
ReadingsAreTrue ==
    /\ shown.what = "voltage" => shown.reg = 2
    /\ shown.what = "current" => shown.reg = 1
    /\ shown.what = "temperature" /\ shown.dev \in prepared => shown.reg = 0

=============================================================================
