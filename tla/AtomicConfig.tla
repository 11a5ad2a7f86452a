---------------------------- MODULE AtomicConfig ----------------------------
(***************************************************************************)
(* What the configuration store promises to the rest of the firmware: the  *)
(* settings that survive a power loss are one value, replaced at once by a *)
(* save and by nothing else, and a boot loads exactly that value.          *)
(* ConfigStore, the two-copy flash layout of slData.c, implements it.      *)
(***************************************************************************)
CONSTANTS
  Configs,  \* the settings a stRlSaveData_t can hold
  NoConfig  \* no settings in memory: power is off or the boot has not read them

VARIABLES
  durable,  \* the settings a boot would load now
  live      \* the settings in memory, or NoConfig

vars == <<durable, live>>

Init == durable \in Configs /\ live = NoConfig

Boot == live = NoConfig /\ live' = durable /\ UNCHANGED durable

Change(c) == live # NoConfig /\ live' = c /\ UNCHANGED durable

Save == live # NoConfig /\ durable' = live /\ UNCHANGED live

PowerLoss == live' = NoConfig /\ UNCHANGED durable

Next == Boot \/ (\E c \in Configs : Change(c)) \/ Save \/ PowerLoss

Spec == Init /\ [][Next]_vars
=============================================================================
