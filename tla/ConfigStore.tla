----------------------------- MODULE ConfigStore -----------------------------
(***************************************************************************)
(* The configuration store of the lamp (project/yankon/app/slData.c on top *)
(* of flash.c): one stRlSaveData_t in memory and two copies of it in       *)
(* flash, each protected by a CRC16.  Flash is erased and programmed one   *)
(* sector at a time and power may be lost between any two flash            *)
(* operations, or during one: a sector whose erase has begun and whose     *)
(* program has not ended holds no valid record.                            *)
(*                                                                         *)
(* Abstractions.  The contents of a record is an element of Configs, and a *)
(* sector that fails its CRC check is Corrupt (a torn record with a        *)
(* matching CRC16 is not considered; an erased sector never matches).  The *)
(* factory-test record (rlDataReadFctData) is not part of this module.     *)
(***************************************************************************)
CONSTANTS
  Configs,         \* the settings a record can hold
  FactoryConfig,   \* what rlDataRestoreFactory writes
  Corrupt,         \* a sector whose CRC check fails
  NoConfig,        \* memory before the record has been read
  SettersPreempt   \* may another task change the record while it is being saved?

ASSUME ConfigAssumption ==
  /\ FactoryConfig \in Configs
  /\ Corrupt \notin Configs
  /\ NoConfig \notin Configs
  /\ Corrupt # NoConfig
  /\ SettersPreempt \in BOOLEAN

VARIABLES
  main,        \* the sector at RL_CFG_DATA_FLASH_ADDR
  backup,      \* the sector at RL_CFG_DATA_FLASH_ADDR_BACKUP
  ram,         \* g_stRlData.saveData without its crc field
  crc,         \* the settings saveData.crc was computed from
  saveFlag,    \* RL_FLAG_SYS_CFG_DATA_SAVE
  setter,      \* "flag" between a setter's assignment and its rlFlagSet
  osRunning,   \* the scheduler has been started: tasks other than main exist
  pc,          \* where main() or, later, the LampApp task stands in slData.c
  provisioned  \* observer: both sectors have been valid at some moment

flash == <<main, backup>>
vars == <<main, backup, ram, crc, saveFlag, setter, osRunning, pc, provisioned>>

SaveSteps == {"seal", "eraseMain", "programMain", "eraseBackup", "programBackup"}
RepairSteps == {"repairErase", "repairProgram"}
Locations == {"off", "read", "run"} \cup SaveSteps \cup RepairSteps

TypeOK ==
  /\ main \in Configs \cup {Corrupt}
  /\ backup \in Configs \cup {Corrupt}
  /\ ram \in Configs \cup {NoConfig}
  /\ crc \in Configs \cup {NoConfig}
  /\ saveFlag \in BOOLEAN
  /\ setter \in {"idle", "flag"}
  /\ osRunning \in BOOLEAN
  /\ pc \in Locations
  /\ provisioned \in BOOLEAN

Init ==
  /\ main \in Configs \cup {Corrupt}
  /\ backup \in Configs \cup {Corrupt}
  /\ ram = NoConfig
  /\ crc = NoConfig
  /\ saveFlag = FALSE
  /\ setter = "idle"
  /\ osRunning = FALSE
  /\ pc = "off"
  /\ provisioned = (main # Corrupt /\ backup # Corrupt)

-----------------------------------------------------------------------------
(* Boot: main() calls rlDataInit, hence rlDataReadConfigData, before it    *)
(* starts the scheduler.                                                   *)

PowerOn ==
  /\ pc = "off"
  /\ pc' = "read"
  /\ UNCHANGED <<flash, ram, crc, saveFlag, setter, osRunning>>

(* Wrong variants: a boot that trusts the main copy whenever it is good,   *)
(* and one that takes the backup without checking it.                      *)
RecoveredFromMain ==
  IF main # Corrupt THEN main ELSE IF backup # Corrupt THEN backup ELSE FactoryConfig
RecoveredUnchecked == backup

(* The settings rlDataReadConfigData leaves in memory: when both copies    *)
(* pass their check the second read, of the backup, is the one that stays. *)
Recovered ==
  IF backup # Corrupt THEN backup ELSE IF main # Corrupt THEN main ELSE FactoryConfig

BothCorrupt == main = Corrupt /\ backup = Corrupt
BothValid == main # Corrupt /\ backup # Corrupt

Load(c) == ram' = c /\ crc' = c

ReadBothValid ==
  /\ pc = "read" /\ BothValid
  /\ Load(Recovered)
  /\ pc' = "run" /\ osRunning' = TRUE
  /\ UNCHANGED <<flash, saveFlag, setter>>

ReadOneValid ==
  /\ pc = "read" /\ ~BothValid /\ ~BothCorrupt
  /\ Load(Recovered)
  /\ pc' = "repairErase"
  /\ UNCHANGED <<flash, saveFlag, setter, osRunning>>

(* rlDataRestoreFactory: the defaults go to memory, rlDataSetAdjDuration   *)
(* raises the save flag, and rlDataWriteConfigData is called.              *)
RestoreFactory ==
  /\ ram' = FactoryConfig
  /\ saveFlag' = TRUE
  /\ pc' = "seal"
  /\ UNCHANGED <<flash, crc, setter, osRunning>>

ReadBothCorrupt == pc = "read" /\ BothCorrupt /\ RestoreFactory

(* The repair of the one bad copy from the good one, now in memory.        *)
RepairErase ==
  /\ pc = "repairErase"
  /\ pc' = "repairProgram"
  /\ UNCHANGED <<flash, ram, crc, saveFlag, setter, osRunning>>

RepairProgram ==
  /\ pc = "repairProgram"
  /\ main' = IF main = Corrupt THEN ram ELSE main
  /\ backup' = IF backup = Corrupt THEN ram ELSE backup
  /\ pc' = "run" /\ osRunning' = TRUE
  /\ UNCHANGED <<ram, crc, saveFlag, setter>>

Boot ==
  \/ PowerOn \/ ReadBothValid \/ ReadOneValid \/ ReadBothCorrupt
  \/ RepairErase \/ RepairProgram

-----------------------------------------------------------------------------
(* The LampApp task (usr_app_light_task_entry): slDataFactoryReset, and    *)
(* the save request of every round of its loop.                            *)

(* The setters called by this task itself cannot run while it is saving.   *)
TaskFree == SettersPreempt \/ setter = "idle"

FactoryReset == pc = "run" /\ TaskFree /\ RestoreFactory

(* The save flag is cleared before the settings are read: a change made    *)
(* while they are being written raises it again.                           *)
TakeSaveRequest ==
  /\ pc = "run" /\ TaskFree /\ saveFlag
  /\ saveFlag' = FALSE
  /\ pc' = "seal"
  /\ UNCHANGED <<flash, ram, crc, setter, osRunning>>

(* rlDataWriteConfigData: the CRC, then one sector after the other.        *)
SealForgotten ==  \* wrong variant: the CRC of the previous settings stays
  /\ pc = "seal" /\ TaskFree
  /\ pc' = "eraseMain"
  /\ UNCHANGED <<flash, ram, crc, saveFlag, setter, osRunning>>

Seal ==
  /\ pc = "seal" /\ TaskFree
  /\ crc' = ram
  /\ pc' = "eraseMain"
  /\ UNCHANGED <<flash, ram, saveFlag, setter, osRunning>>

EraseBothFirst ==  \* wrong variant: both sectors are erased before either is programmed
  /\ pc = "eraseMain" /\ TaskFree
  /\ main' = Corrupt /\ backup' = Corrupt
  /\ pc' = "programMain"
  /\ UNCHANGED <<ram, crc, saveFlag, setter, osRunning>>

EraseMain ==
  /\ pc = "eraseMain" /\ TaskFree
  /\ main' = Corrupt
  /\ pc' = "programMain"
  /\ UNCHANGED <<backup, ram, crc, saveFlag, setter, osRunning>>

(* What programming a sector from memory leaves there: settings changed    *)
(* after the CRC was computed go to flash with a CRC that does not match.  *)
Programmed == IF ram = crc THEN ram ELSE Corrupt

ProgramMain ==
  /\ pc = "programMain" /\ TaskFree
  /\ main' = Programmed
  /\ pc' = "eraseBackup"
  /\ UNCHANGED <<backup, ram, crc, saveFlag, setter, osRunning>>

EraseBackup ==
  /\ pc = "eraseBackup" /\ TaskFree
  /\ backup' = Corrupt
  /\ pc' = "programBackup"
  /\ UNCHANGED <<main, ram, crc, saveFlag, setter, osRunning>>

ProgramBackup ==
  /\ pc = "programBackup" /\ TaskFree
  /\ backup' = Programmed
  /\ pc' = "run" /\ osRunning' = TRUE
  /\ UNCHANGED <<main, ram, crc, saveFlag, setter>>

WriteConfigData == Seal \/ EraseMain \/ ProgramMain \/ EraseBackup \/ ProgramBackup

-----------------------------------------------------------------------------
(* rlDataSetDevName and rlDataSetAdjDuration: assign, then raise the flag. *)

SetConfigUnflagged(c) ==  \* wrong variant: no save is asked for
  /\ osRunning /\ setter = "idle"
  /\ SettersPreempt \/ pc = "run"
  /\ ram' = c
  /\ UNCHANGED <<flash, crc, saveFlag, setter, osRunning, pc>>

SetConfig(c) ==
  /\ osRunning /\ setter = "idle"
  /\ SettersPreempt \/ pc = "run"
  /\ ram' = c
  /\ setter' = "flag"
  /\ UNCHANGED <<flash, crc, saveFlag, osRunning, pc>>

SetFlag ==
  /\ setter = "flag"
  /\ saveFlag' = TRUE
  /\ setter' = "idle"
  /\ UNCHANGED <<flash, ram, crc, osRunning, pc>>

-----------------------------------------------------------------------------
PowerLoss ==
  /\ pc # "off"
  /\ pc' = "off"
  /\ ram' = NoConfig /\ crc' = NoConfig
  /\ saveFlag' = FALSE /\ setter' = "idle" /\ osRunning' = FALSE
  /\ UNCHANGED flash

Step ==
  \/ Boot
  \/ FactoryReset \/ TakeSaveRequest \/ WriteConfigData
  \/ (\E c \in Configs : SetConfig(c)) \/ SetFlag
  \/ PowerLoss

Observe == provisioned' = (provisioned \/ (main' # Corrupt /\ backup' # Corrupt))

Next == Step /\ Observe

Spec == Init /\ [][Next]_vars

(* main() runs to the scheduler by itself; the LampApp task comes to its   *)
(* test of the save flag in every round, whatever setters it calls before  *)
(* (a save is disabled only inside such a setter: strong fairness), and a  *)
(* setter returns.                                                         *)
Fairness ==
  /\ WF_vars(Boot /\ Observe)
  /\ SF_vars((TakeSaveRequest \/ WriteConfigData) /\ Observe)
  /\ WF_vars(SetFlag /\ Observe)

FairSpec == Spec /\ Fairness

-----------------------------------------------------------------------------
(* Properties.                                                             *)

(* Once both sectors have held a valid record, every instant of every save *)
(* and repair leaves at least one valid record in flash: the two sectors   *)
(* are never bad together, whenever the power goes (slData.c saves and     *)
(* repairs one sector at a time).                                          *)
OneValidCopy == provisioned => ~BothCorrupt

(* A save is atomic with respect to power loss: what a boot would load     *)
(* changes only when a save replaces it by the settings in memory, so a    *)
(* boot finds the last settings saved or those whose save was interrupted, *)
(* a rolled-back save never resurfaces, and neither repair nor an          *)
(* interrupted boot changes the settings.                                  *)
Abstract == INSTANCE AtomicConfig WITH durable <- Recovered, live <- ram

SaveIsAtomic == Abstract!Spec

(* Where memory and flash stand with respect to each other in each phase   *)
(* of slData.c: the inductive invariant behind the two properties above.   *)
PhaseInv ==
  /\ (ram = NoConfig) <=> (pc \in {"off", "read"})
  /\ pc \in {"off", "read"} => ~osRunning /\ setter = "idle"
  /\ setter = "flag" => pc = "run"
  /\ pc = "run" => BothValid
  /\ pc \in {"seal", "eraseMain"} => BothValid \/ (BothCorrupt /\ ram = FactoryConfig /\ ~provisioned)
  /\ pc = "programMain" =>
       main = Corrupt /\ (backup # Corrupt \/ (ram = FactoryConfig /\ ~provisioned))
  /\ pc \in {"eraseMain", "programMain", "eraseBackup", "programBackup"} => crc = ram
  /\ pc \in {"eraseBackup", "programBackup"} => main = ram
  /\ pc = "programBackup" => backup = Corrupt
  /\ pc \in RepairSteps => ~BothValid /\ ~BothCorrupt /\ ram = Recovered

(* A settled change becomes durable: if the power stays on from some point *)
(* on and the settings in memory stop changing, a boot would load them     *)
(* from some point on.                                                     *)
ChangesReachFlash ==
  \A c \in Configs : <>[](pc # "off" /\ ram = c) => <>[](Recovered = c)
=============================================================================
