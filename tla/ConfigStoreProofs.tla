-------------------------- MODULE ConfigStoreProofs --------------------------
(***************************************************************************)
(* Proofs about ConfigStore, for any set of settings.  Type correctness    *)
(* needs no assumption on the setters; the other theorems are about the    *)
(* firmware as it is, where the setters run in the LampApp task.           *)
(***************************************************************************)
EXTENDS ConfigStore, TLAPS

USE DEF flash, SaveSteps, RepairSteps, Locations, Load, BothCorrupt, BothValid

LEMMA RecoveredType == ConfigAssumption /\ TypeOK => Recovered \in Configs
  BY DEF ConfigAssumption, TypeOK, Recovered

LEMMA ProgrammedType ==
  ASSUME ConfigAssumption, TypeOK, ram # NoConfig
  PROVE  Programmed \in Configs \cup {Corrupt}
  BY DEF ConfigAssumption, TypeOK, Programmed

(* What TypeOK alone does not know: a task stands in the middle of a save  *)
(* or a repair only with settings in memory.                               *)
LoadedInv == pc \notin {"off", "read"} => ram # NoConfig

(* The states of the store are well typed, whoever calls the setters:      *)
(* memory never holds the contents of a sector that failed its check.      *)
THEOREM TypeCorrect == Spec => [](TypeOK /\ LoadedInv)
<1> USE ConfigAssumption
<1>1. Init => TypeOK /\ LoadedInv
  BY DEF Init, TypeOK, LoadedInv
<1>2. TypeOK /\ LoadedInv /\ [Next]_vars => (TypeOK /\ LoadedInv)'
  <2> SUFFICES ASSUME TypeOK, LoadedInv, [Next]_vars
               PROVE  (TypeOK /\ LoadedInv)'
    OBVIOUS
  <2>1. CASE Step /\ Observe
    <3>0. provisioned' \in BOOLEAN
      BY <2>1 DEF Observe, TypeOK
    <3>1. CASE PowerOn
      BY <3>0, <3>1 DEF PowerOn, TypeOK, LoadedInv
    <3>2. CASE ReadBothValid
      BY <3>0, <3>2, RecoveredType DEF ReadBothValid, TypeOK, LoadedInv, ConfigAssumption
    <3>3. CASE ReadOneValid
      BY <3>0, <3>3, RecoveredType DEF ReadOneValid, TypeOK, LoadedInv, ConfigAssumption
    <3>4. CASE ReadBothCorrupt \/ FactoryReset
      BY <3>0, <3>4 DEF ReadBothCorrupt, FactoryReset, RestoreFactory, TypeOK, LoadedInv, ConfigAssumption
    <3>5. CASE RepairErase
      BY <3>0, <3>5 DEF RepairErase, TypeOK, LoadedInv
    <3>6. CASE RepairProgram
      BY <3>0, <3>6 DEF RepairProgram, TypeOK, LoadedInv
    <3>7. CASE TakeSaveRequest
      BY <3>0, <3>7 DEF TakeSaveRequest, TypeOK, LoadedInv
    <3>8. CASE WriteConfigData
      BY <3>0, <3>8, ProgrammedType DEF WriteConfigData, Seal, EraseMain, ProgramMain,
         EraseBackup, ProgramBackup, TypeOK, LoadedInv
    <3>9. ASSUME NEW c \in Configs, SetConfig(c)
          PROVE  (TypeOK /\ LoadedInv)'
      BY <3>0, <3>9 DEF SetConfig, TypeOK, LoadedInv, ConfigAssumption
    <3>10. CASE SetFlag
      BY <3>0, <3>10 DEF SetFlag, TypeOK, LoadedInv
    <3>11. CASE PowerLoss
      BY <3>0, <3>11 DEF PowerLoss, TypeOK, LoadedInv
    <3>12. QED
      BY <2>1, <3>1, <3>2, <3>3, <3>4, <3>5, <3>6, <3>7, <3>8, <3>9, <3>10, <3>11
         DEF Step, Boot
  <2>2. CASE UNCHANGED vars
    BY <2>2 DEF vars, TypeOK, LoadedInv
  <2>3. QED
    BY <2>1, <2>2 DEF Next
<1>3. QED
  BY <1>1, <1>2, PTL DEF Spec

-----------------------------------------------------------------------------
(* The inductive invariant: OneValidCopy says nothing of which sector is   *)
(* valid, so a step of a save cannot be seen to keep it; PhaseInv names    *)
(* the valid sector of each phase.                                         *)
IInv == TypeOK /\ PhaseInv /\ OneValidCopy

LEMMA InitIInv == ConfigAssumption /\ Init => IInv
  BY DEF ConfigAssumption, Init, IInv, TypeOK, PhaseInv, OneValidCopy

(* A boot ends with both sectors valid, or enters the repair of the bad    *)
(* one, or restores the factory settings because both are bad.             *)
LEMMA BootKeepsIInv ==
  ASSUME ConfigAssumption, IInv, Boot, Observe
  PROVE  IInv'
<1> USE ConfigAssumption DEF ConfigAssumption
<1>1. TypeOK'
  <2>1. provisioned' \in BOOLEAN
    BY DEF Observe, IInv, TypeOK
  <2>2. QED
    BY <2>1, RecoveredType DEF IInv, TypeOK, PhaseInv, Boot, PowerOn, ReadBothValid,
       ReadOneValid, ReadBothCorrupt, RestoreFactory, RepairErase, RepairProgram
<1>2. PhaseInv' /\ OneValidCopy'
  <2>1. CASE PowerOn
    BY <2>1 DEF PowerOn, Observe, IInv, TypeOK, PhaseInv, OneValidCopy, Recovered
  <2>2. CASE ReadBothValid
    BY <2>2, RecoveredType DEF ReadBothValid, Observe, IInv, TypeOK, PhaseInv, OneValidCopy
  <2>3. CASE ReadOneValid
    BY <2>3, RecoveredType DEF ReadOneValid, Observe, IInv, TypeOK, PhaseInv, OneValidCopy, Recovered
  <2>4. CASE ReadBothCorrupt
    BY <2>4 DEF ReadBothCorrupt, RestoreFactory, Observe, IInv, TypeOK, PhaseInv, OneValidCopy
  <2>5. CASE RepairErase
    BY <2>5 DEF RepairErase, Observe, IInv, TypeOK, PhaseInv, OneValidCopy, Recovered
  <2>6. CASE RepairProgram
    BY <2>6 DEF RepairProgram, Observe, IInv, TypeOK, PhaseInv, OneValidCopy
  <2>7. QED
    BY <2>1, <2>2, <2>3, <2>4, <2>5, <2>6 DEF Boot
<1>3. QED
  BY <1>1, <1>2 DEF IInv

(* A save erases the main sector only while the backup is valid (or on the *)
(* first boot, when neither ever was), and the backup only once the main   *)
(* sector holds the settings in memory.                                    *)
LEMMA SaveKeepsIInv ==
  ASSUME ConfigAssumption, ~SettersPreempt, IInv, Observe,
         FactoryReset \/ TakeSaveRequest \/ WriteConfigData
  PROVE  IInv'
<1> USE ConfigAssumption DEF ConfigAssumption
<1>0. provisioned' \in BOOLEAN
  BY DEF Observe, IInv, TypeOK
<1>1. CASE FactoryReset
  BY <1>0, <1>1 DEF FactoryReset, TaskFree, RestoreFactory, Observe, IInv, TypeOK, PhaseInv, OneValidCopy
<1>2. CASE TakeSaveRequest
  BY <1>0, <1>2 DEF TakeSaveRequest, TaskFree, Observe, IInv, TypeOK, PhaseInv, OneValidCopy
<1>3. CASE Seal
  BY <1>0, <1>3 DEF Seal, TaskFree, Observe, IInv, TypeOK, PhaseInv, OneValidCopy
<1>4. CASE EraseMain
  BY <1>0, <1>4 DEF EraseMain, TaskFree, Observe, IInv, TypeOK, PhaseInv, OneValidCopy
<1>5. CASE ProgramMain
  BY <1>0, <1>5 DEF ProgramMain, Programmed, TaskFree, Observe, IInv, TypeOK, PhaseInv, OneValidCopy
<1>6. CASE EraseBackup
  BY <1>0, <1>6 DEF EraseBackup, TaskFree, Observe, IInv, TypeOK, PhaseInv, OneValidCopy
<1>7. CASE ProgramBackup
  BY <1>0, <1>7 DEF ProgramBackup, Programmed, TaskFree, Observe, IInv, TypeOK, PhaseInv, OneValidCopy
<1>8. QED
  BY <1>1, <1>2, <1>3, <1>4, <1>5, <1>6, <1>7 DEF WriteConfigData

LEMMA SetterKeepsIInv ==
  ASSUME ConfigAssumption, ~SettersPreempt, IInv, Observe,
         (\E c \in Configs : SetConfig(c)) \/ SetFlag
  PROVE  IInv'
<1> USE ConfigAssumption DEF ConfigAssumption
<1>1. ASSUME NEW c \in Configs, SetConfig(c)
      PROVE  IInv'
  BY <1>1 DEF SetConfig, Observe, IInv, TypeOK, PhaseInv, OneValidCopy
<1>2. CASE SetFlag
  BY <1>2 DEF SetFlag, Observe, IInv, TypeOK, PhaseInv, OneValidCopy, Recovered
<1>3. QED
  BY <1>1, <1>2

LEMMA PowerLossKeepsIInv ==
  ASSUME ConfigAssumption, IInv, Observe, PowerLoss
  PROVE  IInv'
  BY DEF ConfigAssumption, PowerLoss, Observe, IInv, TypeOK, PhaseInv, OneValidCopy

THEOREM Invariance ==
  ASSUME ~SettersPreempt
  PROVE  Spec => []IInv
<1> USE ConfigAssumption
<1>1. Init => IInv
  BY InitIInv
<1>2. IInv /\ [Next]_vars => IInv'
  <2> SUFFICES ASSUME IInv, [Next]_vars
               PROVE  IInv'
    OBVIOUS
  <2>1. CASE Next
    BY <2>1, BootKeepsIInv, SaveKeepsIInv, SetterKeepsIInv, PowerLossKeepsIInv DEF Next, Step
  <2>2. CASE UNCHANGED vars
    BY <2>2 DEF vars, IInv, TypeOK, PhaseInv, OneValidCopy, Recovered
  <2>3. QED
    BY <2>1, <2>2
<1>3. QED
  BY <1>1, <1>2, PTL DEF Spec

(* The two sectors are never bad together once both have been valid: no    *)
(* power loss during a save or a repair sends the lamp back to its factory *)
(* settings.                                                               *)
THEOREM NeverBothCorrupt ==
  ASSUME ~SettersPreempt
  PROVE  Spec => []OneValidCopy
<1>1. IInv => OneValidCopy
  BY DEF IInv
<1>2. QED
  BY <1>1, Invariance, PTL

(* Between any two flash operations of a save, and after a power loss in   *)
(* any of them, what the two sectors hold is known: which copy a boot      *)
(* would load and which settings the other one has.                        *)
THEOREM SaveIsPhased ==
  ASSUME ~SettersPreempt
  PROVE  Spec => []PhaseInv
<1>1. IInv => PhaseInv
  BY DEF IInv
<1>2. QED
  BY <1>1, Invariance, PTL

-----------------------------------------------------------------------------
(* Refinement.  The step that commits a save is EraseBackup: until then a  *)
(* boot would load the old settings from the backup, and after it the new  *)
(* ones from the main sector.  Every other flash operation is a stutter.   *)
LEMMA InitRefines == ConfigAssumption /\ Init => Abstract!Init
  BY DEF ConfigAssumption, Init, Abstract!Init, Recovered

LEMMA BootRefines ==
  ASSUME ConfigAssumption, IInv, Boot
  PROVE  Abstract!Next \/ UNCHANGED Abstract!vars
<1> USE ConfigAssumption DEF ConfigAssumption, IInv, TypeOK, PhaseInv
<1>1. CASE ReadBothValid \/ ReadOneValid \/ ReadBothCorrupt
  <2>1. ram = NoConfig /\ ram' = Recovered /\ UNCHANGED flash
    BY <1>1 DEF ReadBothValid, ReadOneValid, ReadBothCorrupt, RestoreFactory, Recovered
  <2>2. Abstract!Boot
    BY <2>1 DEF Abstract!Boot, Recovered
  <2>3. QED
    BY <2>2 DEF Abstract!Next
<1>2. CASE PowerOn
  BY <1>2 DEF PowerOn, Abstract!vars, Recovered
<1>3. CASE RepairErase
  BY <1>3 DEF RepairErase, Abstract!vars, Recovered
<1>4. CASE RepairProgram
  BY <1>4 DEF RepairProgram, Abstract!vars, Recovered
<1>5. QED
  BY <1>1, <1>2, <1>3, <1>4 DEF Boot

LEMMA SaveRefines ==
  ASSUME ConfigAssumption, ~SettersPreempt, IInv,
         FactoryReset \/ TakeSaveRequest \/ WriteConfigData
  PROVE  Abstract!Next \/ UNCHANGED Abstract!vars
<1> USE ConfigAssumption DEF ConfigAssumption, IInv, TypeOK, PhaseInv
<1>1. CASE FactoryReset
  <2>1. Abstract!Change(FactoryConfig)
    BY <1>1 DEF FactoryReset, RestoreFactory, Abstract!Change, Recovered
  <2>2. QED
    BY <2>1 DEF Abstract!Next
<1>2. CASE EraseBackup
  <2>1. Abstract!Save
    BY <1>2 DEF EraseBackup, Abstract!Save, Recovered
  <2>2. QED
    BY <2>1 DEF Abstract!Next
<1>3. CASE TakeSaveRequest
  BY <1>3 DEF TakeSaveRequest, Abstract!vars, Recovered
<1>4. CASE Seal
  BY <1>4 DEF Seal, Abstract!vars, Recovered
<1>5. CASE EraseMain
  BY <1>5 DEF EraseMain, Abstract!vars, Recovered
<1>6. CASE ProgramMain
  BY <1>6 DEF ProgramMain, Programmed, Abstract!vars, Recovered
<1>7. CASE ProgramBackup
  BY <1>7 DEF ProgramBackup, Programmed, Abstract!vars, Recovered
<1>8. QED
  BY <1>1, <1>2, <1>3, <1>4, <1>5, <1>6, <1>7 DEF WriteConfigData

LEMMA EnvironmentRefines ==
  ASSUME ConfigAssumption, ~SettersPreempt, IInv,
         (\E c \in Configs : SetConfig(c)) \/ SetFlag \/ PowerLoss
  PROVE  Abstract!Next \/ UNCHANGED Abstract!vars
<1> USE ConfigAssumption DEF ConfigAssumption, IInv, TypeOK, PhaseInv
<1>1. ASSUME NEW c \in Configs, SetConfig(c)
      PROVE  Abstract!Next
  <2>1. Abstract!Change(c)
    BY <1>1 DEF SetConfig, Abstract!Change, Recovered
  <2>2. QED
    BY <2>1 DEF Abstract!Next
<1>2. CASE SetFlag
  BY <1>2 DEF SetFlag, Abstract!vars, Recovered
<1>3. CASE PowerLoss
  <2>1. Abstract!PowerLoss
    BY <1>3 DEF PowerLoss, Abstract!PowerLoss, Recovered
  <2>2. QED
    BY <2>1 DEF Abstract!Next
<1>4. QED
  BY <1>1, <1>2, <1>3

(* A save is atomic with respect to power loss: the two-sector store       *)
(* implements the store whose durable settings are replaced at once.       *)
THEOREM Refinement ==
  ASSUME ~SettersPreempt
  PROVE  Spec => SaveIsAtomic
<1> USE ConfigAssumption
<1>1. Init => Abstract!Init
  BY InitRefines
<1>2. IInv /\ [Next]_vars => [Abstract!Next]_(Abstract!vars)
  <2> SUFFICES ASSUME IInv, [Next]_vars
               PROVE  Abstract!Next \/ UNCHANGED Abstract!vars
    OBVIOUS
  <2>1. CASE Next
    BY <2>1, BootRefines, SaveRefines, EnvironmentRefines DEF Next, Step
  <2>2. CASE UNCHANGED vars
    BY <2>2 DEF vars, Abstract!vars, Recovered
  <2>3. QED
    BY <2>1, <2>2
<1>3. QED
  BY <1>1, <1>2, Invariance, PTL DEF Spec, SaveIsAtomic, Abstract!Spec
=============================================================================
