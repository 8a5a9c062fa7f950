------------------------ MODULE MCManagementProcessor ------------------------
(* One temperature sensor and one power monitor, two peers for one SSH      *)
(* connection; a line of each effect on the console, two of them over SSH.   *)
EXTENDS ManagementProcessor

OneTempSensor == <<144>>          \* 0x90
OnePowerMonitor == <<128>>        \* 0x80
FourLines == {l \in Lines : OnExecuteRoot(l) \in {"Exit", "OnShowHardware", "OnReload", "Zeroize"}}
TwoLines == {l \in Lines : OnExecuteRoot(l) \in {"Exit", "OnShowHardware"}}

=============================================================================
