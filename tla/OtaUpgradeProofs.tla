-------------------------- MODULE OtaUpgradeProofs --------------------------
(***************************************************************************)
(* Proofs about OtaUpgrade, for any set of images and any number of        *)
(* blocks: only an archive that does not unpack can cost the lamp its      *)
(* application, and an upgrade is all or nothing.                          *)
(***************************************************************************)
EXTENDS OtaUpgrade, TLAPS

(* What each phase relies on: an application that runs is complete and     *)
(* stays so, the agent touches the application partition only when the OTA *)
(* partition holds a complete image and the upgrade state says so, and no  *)
(* diff image passes the precheck: of one, only the first block can be in  *)
(* the OTA partition.                                                      *)
Restoring == {"erase", "restore", "verify", "setState"}

PhaseInv ==
  /\ pc \in RunSteps \cup {"setState"} => AppOk
  /\ pc \in Restoring => upg = "downloadOk" /\ OtaOk
  /\ \A k \in Blocks : k > 0 /\ ota[k] # Junk => Kind[ota[k]] # "diff"
  /\ pc = "receive" /\ next > 0 => Kind[stream] # "diff"
  /\ pc \in {"restore", "verify"} =>
       \A k \in Blocks : k < next \/ pc = "verify" => app[k] = Unpacked[ota[0]]
  /\ pc = "setState" => app[0] = Unpacked[ota[0]]
  /\ pc = "accept" => OtaOk
  /\ pc = "stuck" => upg = "downloadOk" /\ OtaOk /\ Unpacked[ota[0]] = Junk

(* What every boot, and every power loss, relies on.                       *)
Recoverable == AppOk \/ Restorable

USE DEF Blocks, BootSteps, RunSteps, UpgStates, Restoring, Restorable

IInv == TypeOK /\ PhaseInv /\ Recoverable

LEMMA BlockFacts == OtaAssumption => 0 \in Blocks /\ Last \in Blocks /\ \A k \in Blocks : k <= Last
  BY DEF OtaAssumption

LEMMA InitIInv == OtaAssumption /\ Init => IInv
<1> SUFFICES ASSUME OtaAssumption, Init
             PROVE  IInv
  OBVIOUS
<1> USE DEF OtaAssumption
<1>1. PICK i \in Originals \cap Fits : app = [k \in Blocks |-> i]
  BY DEF Init
<1>2. PICK j \in {Junk} \cup {m \in Fits : Kind[m] # "diff"} : ota = [k \in Blocks |-> j]
  BY DEF Init
<1>3. AppOk /\ TypeOK
  <2>1. AppOk
    BY <1>1, BlockFacts DEF AppOk, Holds
  <2>2. app \in [Blocks -> Originals \cup {Junk}] /\ ota \in [Blocks -> Images \cup {Junk}]
    BY <1>1, <1>2
  <2>3. QED
    BY <2>1, <2>2, BlockFacts DEF Init, TypeOK
<1>4. PhaseInv
  BY <1>2, <1>3 DEF Init, PhaseInv
<1>5. QED
  BY <1>3, <1>4 DEF IInv, Recoverable

(* Steps that leave the partitions and the upgrade state alone keep the    *)
(* invariant when they go where what it asks is known.                     *)
LEMMA FrameIInv ==
  ASSUME OtaAssumption, IInv, UNCHANGED <<app, ota, upg>>
  PROVE  /\ AppOk' = AppOk /\ OtaOk' = OtaOk /\ Recoverable'
         /\ \A k \in Blocks : k > 0 /\ ota'[k] # Junk => Kind[ota'[k]] # "diff"
  BY DEF IInv, PhaseInv, AppOk, OtaOk, Holds, Recoverable

(* A complete image is none the agent could not restore.                   *)
LEMMA CompleteIsNotDiff ==
  ASSUME OtaAssumption, IInv, OtaOk
  PROVE  Kind[ota[0]] # "diff"
<1>1. ota[Last] = ota[0] /\ ota[0] # Junk
  BY BlockFacts DEF OtaOk, Holds
<1>2. QED
  BY <1>1, BlockFacts DEF OtaAssumption, IInv, PhaseInv

LEMMA BootKeepsIInv ==
  ASSUME OtaAssumption, IInv, PowerOn \/ Decide \/ UnpackFails \/ VerifyRestored \/ SetRestoreOk
  PROVE  IInv'
<1> USE DEF OtaAssumption, IInv
<1>1. CASE PowerOn
  BY <1>1, FrameIInv DEF PowerOn, partitions, ram, TypeOK, PhaseInv
<1>2. CASE Decide
  <2>1. UNCHANGED <<app, ota, upg>> /\ pc' = Verdict /\ next' = 0
    BY <1>2 DEF Decide, partitions
  <2>2. Verdict = "run" => AppOk
    BY DEF Verdict, Recoverable
  <2>3. Verdict \in {"run", "erase", "setState"}
    BY DEF Verdict, Recoverable
  <2>4. Verdict \in {"erase", "setState"} => upg = "downloadOk" /\ OtaOk
    BY DEF Verdict
  <2>5. Verdict = "setState" => AppOk /\ app[0] = Unpacked[ota[0]]
    BY DEF Verdict, AlreadyRestored
  <2>6. TypeOK'
    BY <1>2, <2>1, <2>3 DEF Decide, TypeOK
  <2>7. PhaseInv'
    BY <2>1, <2>2, <2>3, <2>4, <2>5, FrameIInv DEF PhaseInv
  <2>8. QED
    BY <2>1, <2>6, <2>7, FrameIInv
<1>3. CASE UnpackFails
  BY <1>3, FrameIInv DEF UnpackFails, partitions, ram, TypeOK, PhaseInv
<1>4. CASE VerifyRestored
  <2>1. UNCHANGED <<app, ota, upg>> /\ pc = "verify" /\ pc' = IF AppOk THEN "setState" ELSE "stuck"
    BY <1>4 DEF VerifyRestored, partitions
  <2>2. app[0] = Unpacked[ota[0]]
    BY <2>1 DEF PhaseInv
  <2>3. \A k \in Blocks : app[k] = Unpacked[ota[0]]
    BY <2>1 DEF PhaseInv
  <2>4. upg = "downloadOk" /\ OtaOk
    BY <2>1 DEF PhaseInv
  <2>5. ~AppOk => Unpacked[ota[0]] = Junk
    BY <2>3, BlockFacts DEF AppOk, Holds
  <2>6. TypeOK' /\ PhaseInv'
    BY <1>4, <2>1, <2>2, <2>4, <2>5, FrameIInv DEF VerifyRestored, ram, TypeOK, PhaseInv
  <2>7. QED
    BY <2>1, <2>6, FrameIInv
<1>5. CASE SetRestoreOk
  <2>1. UNCHANGED <<app, ota>> /\ pc = "setState" /\ pc' = "run" /\ AppOk
    BY <1>5 DEF SetRestoreOk, partitions, PhaseInv
  <2>2. AppOk'
    BY <2>1 DEF AppOk, Holds
  <2>3. QED
    BY <1>5, <2>1, <2>2 DEF SetRestoreOk, ram, TypeOK, PhaseInv, Recoverable
<1>6. QED
  BY <1>1, <1>2, <1>3, <1>4, <1>5

(* While the application partition is written, the OTA partition and the   *)
(* upgrade state stay, and they make the lamp recoverable.                 *)
LEMMA RestoreKeepsIInv ==
  ASSUME OtaAssumption, IInv, EraseApp \/ RestoreBlock
  PROVE  IInv'
<1> USE DEF OtaAssumption, IInv
<1>1. UNCHANGED <<ota, upg>> /\ pc \in Restoring /\ upg = "downloadOk" /\ OtaOk /\ Kind[ota[0]] # "diff"
  BY CompleteIsNotDiff DEF EraseApp, RestoreBlock, PhaseInv
<1>2. OtaOk' /\ Recoverable'
  BY <1>1 DEF OtaOk, Holds, Recoverable
<1>3. Unpacked[ota[0]] \in Originals \cup {Junk} /\ \A k \in Blocks : ota[k] = ota[0]
  BY <1>1 DEF OtaOk, Holds, TypeOK
<1>4. CASE EraseApp
  <2>1. TypeOK'
    BY <1>4 DEF EraseApp, TypeOK
  <2>2. pc' \in {"erase", "restore"} /\ (pc' = "restore" => next' = 0)
    BY <1>1, <1>4 DEF EraseApp, TypeOK
  <2>3. PhaseInv'
    BY <1>1, <1>2, <2>2 DEF PhaseInv
  <2>4. QED
    BY <1>2, <2>1, <2>3
<1>5. CASE RestoreBlock
  <2>1. app' = [app EXCEPT ![next] = Unpacked[ota[0]]] /\ next \in Blocks
    BY <1>3, <1>5 DEF RestoreBlock, TypeOK
  <2>2. app' \in [Blocks -> Originals \cup {Junk}]
    BY <1>3, <2>1 DEF TypeOK
  <2>3. TypeOK'
    BY <1>5, <2>2 DEF RestoreBlock, TypeOK
  <2>4. \A k \in Blocks : k <= next => app'[k] = Unpacked[ota[0]]
    BY <1>5, <2>1 DEF RestoreBlock, TypeOK, PhaseInv
  <2>5. CASE next = Last
    <3>1. pc' = "verify" /\ \A k \in Blocks : app'[k] = Unpacked[ota'[0]]
      BY <1>1, <1>5, <2>4, <2>5, BlockFacts DEF RestoreBlock
    <3>2. QED
      BY <1>1, <1>2, <2>3, <3>1 DEF PhaseInv
  <2>6. CASE next # Last
    <3>1. pc' = "restore" /\ next' = next + 1
      BY <1>5, <2>6 DEF RestoreBlock
    <3>2. \A k \in Blocks : k < next' => app'[k] = Unpacked[ota'[0]]
      BY <1>1, <2>1, <2>4, <3>1
    <3>3. QED
      BY <1>1, <1>2, <2>3, <3>1, <3>2 DEF PhaseInv
  <2>7. QED
    BY <1>2, <2>3, <2>5, <2>6
<1>6. QED
  BY <1>4, <1>5

LEMMA DownloadKeepsIInv ==
  ASSUME OtaAssumption, IInv, Download \/ Leave \/ Accept \/ Reboot
  PROVE  IInv'
<1> USE DEF OtaAssumption, IInv
<1>1. UNCHANGED app /\ pc \in RunSteps /\ AppOk
  BY DEF Download, StartDownload, Retry, RefuseFirst, ReceiveBlock, FinishDownload, ShortResponse, PeerCloses,
     Leave, Accept, Reboot, partitions, PhaseInv
<1>2. AppOk' /\ Recoverable'
  BY <1>1 DEF AppOk, Holds, Recoverable
<1>3. ASSUME NEW i \in Images, StartDownload(i) \/ Retry(i)
      PROVE  IInv'
  BY <1>2, <1>3, FrameIInv DEF StartDownload, Retry, Attempt, partitions, TypeOK, PhaseInv
<1>4. CASE RefuseFirst \/ PeerCloses
  BY <1>2, <1>4, FrameIInv DEF RefuseFirst, PeerCloses, partitions, ram, TypeOK, PhaseInv
<1>5. CASE ReceiveBlock
  <2>1. PICK b \in {stream, Junk} : ota' = [ota EXCEPT ![next] = b]
    BY <1>5 DEF ReceiveBlock, Stored
  <2>2. Kind[stream] # "diff" /\ UNCHANGED stream
    BY <1>5 DEF ReceiveBlock, Precheck, PhaseInv, TypeOK
  <2>3. \A k \in Blocks : k > 0 /\ ota'[k] # Junk => Kind[ota'[k]] # "diff"
    BY <2>1, <2>2 DEF TypeOK, PhaseInv
  <2>4. TypeOK'
    BY <1>5, <2>1 DEF ReceiveBlock, StateOverwritten, TypeOK
  <2>5. QED
    BY <1>2, <1>5, <2>2, <2>3, <2>4 DEF ReceiveBlock, PhaseInv
<1>6. CASE FinishDownload
  <2>1. PICK b \in {stream, Junk} : ota' = [ota EXCEPT ![next] = b]
    BY <1>6 DEF FinishDownload, Stored
  <2>2. \A k \in Blocks : k > 0 /\ ota'[k] # Junk => Kind[ota'[k]] # "diff"
    BY <1>6, <2>1 DEF FinishDownload, TypeOK, PhaseInv
  <2>3. TypeOK'
    BY <1>6, <2>1, BlockFacts DEF FinishDownload, StateOverwritten, TypeOK
  <2>4. QED
    BY <1>2, <1>6, <2>2, <2>3 DEF FinishDownload, PhaseInv
<1>11. CASE ShortResponse
  <2>1. PICK b \in Images \cup {Junk} : ota' = [ota EXCEPT ![0] = b]
    BY <1>11 DEF ShortResponse
  <2>2. \A k \in Blocks : k > 0 /\ ota'[k] # Junk => Kind[ota'[k]] # "diff"
    BY <2>1 DEF TypeOK, PhaseInv
  <2>3. TypeOK' /\ next' = 0
    BY <1>11, <2>1 DEF ShortResponse, TypeOK
  <2>4. QED
    BY <1>2, <1>11, <2>2, <2>3 DEF ShortResponse, PhaseInv
<1>7. CASE Leave
  BY <1>2, <1>7, FrameIInv DEF Leave, Acceptable, partitions, ram, TypeOK, PhaseInv
<1>8. CASE Accept
  BY <1>2, <1>8 DEF Accept, partitions, ram, TypeOK, PhaseInv
<1>9. CASE Reboot
  <2>1. TypeOK'
    BY <1>9, BlockFacts DEF Reboot, NoRam, partitions, TypeOK
  <2>2. QED
    BY <1>9, <2>1, FrameIInv DEF Reboot, partitions, PhaseInv
<1>10. QED
  BY <1>3, <1>4, <1>5, <1>6, <1>7, <1>8, <1>9, <1>11 DEF Download

THEOREM Invariance == Spec => []IInv
<1> USE OtaAssumption
<1>1. Init => IInv
  BY InitIInv
<1>2. IInv /\ [Next]_vars => IInv'
  <2> SUFFICES ASSUME IInv, [Next]_vars
               PROVE  IInv'
    OBVIOUS
  <2>1. CASE PowerLoss
    <3>1. TypeOK'
      BY <2>1, BlockFacts DEF PowerLoss, NoRam, partitions, IInv, TypeOK
    <3>2. QED
      BY <2>1, <3>1, FrameIInv DEF PowerLoss, partitions, IInv, PhaseInv
  <2>2. CASE UNCHANGED vars
    BY <2>2 DEF vars, partitions, ram, IInv, TypeOK, PhaseInv, Recoverable, AppOk, OtaOk, Holds
  <2>3. QED
    BY <2>1, <2>2, BootKeepsIInv, RestoreKeepsIInv, DownloadKeepsIInv DEF Next, Agent
<1>3. QED
  BY <1>1, <1>2, PTL DEF Spec

(* Every boot finds a complete application or the means to restore one,    *)
(* and only an archive whose checksums are right and which does not unpack *)
(* makes one come to nothing.                                              *)
THEOREM LampLostOnlyToArchive == Spec => [](TypeOK /\ LostOnlyToArchive)
<1>1. IInv => TypeOK /\ LostOnlyToArchive
  <2> SUFFICES ASSUME IInv
               PROVE  TypeOK /\ LostOnlyToArchive
    OBVIOUS
  <2>1. TypeOK /\ Recoverable
    BY DEF IInv
  <2>2. pc = "stuck" => upg = "downloadOk" /\ OtaOk /\ Unpacked[ota[0]] = Junk
    BY DEF IInv, PhaseInv
  <2>3. OtaOk => Kind[ota[0]] # "diff"
    BY CompleteIsNotDiff, OtaAssumption
  <2>4. QED
    BY <2>1, <2>2, <2>3 DEF LostOnlyToArchive, Recoverable
<1>2. QED
  BY <1>1, Invariance, PTL

(* The states of the boot loader and of the download are well typed: in    *)
(* particular the block counter of an erase, a restore or a download never *)
(* leaves the partition.                                                   *)
THEOREM TypeCorrect == Spec => []TypeOK
BY LampLostOnlyToArchive, PTL

-----------------------------------------------------------------------------
(* Refinement.  Every step of the boot loader is a stutter but the jump,   *)
(* which runs the installed image; what is installed changes only in the   *)
(* application, when the state is set or the OTA partition written.        *)
LEMMA InstalledType ==
  ASSUME OtaAssumption, IInv
  PROVE  Installed \in Originals \cup {Junk}
<1> USE DEF OtaAssumption, IInv
<1>1. app[0] \in Originals \cup {Junk} /\ ota[0] \in Images \cup {Junk}
  BY BlockFacts DEF TypeOK
<1>2. QED
  BY <1>1 DEF Installed, OtaOk

LEMMA RunningType ==
  ASSUME OtaAssumption, IInv, AppOk
  PROVE  Running = app[0] /\ Running \in Originals /\ Running # Nothing /\ Running # Junk
<1> USE DEF OtaAssumption, IInv
<1>1. app[0] \in Originals
  BY BlockFacts DEF TypeOK, AppOk
<1>2. QED
  BY <1>1 DEF Running

(* What a boot that jumps runs is what is installed.                       *)
LEMMA JumpRefines ==
  ASSUME OtaAssumption, IInv, Decide \/ SetRestoreOk, pc' = "run"
  PROVE  Abstract!Next
<1> USE DEF OtaAssumption, IInv
<1>1. UNCHANGED partitions /\ pc \notin RunSteps
  BY DEF Decide, SetRestoreOk
<1>2. AppOk /\ Installed = app[0] /\ Installed' = app[0]
  <2>1. CASE Decide
    BY <2>1, <1>1 DEF Decide, Verdict, Recoverable, Installed, OtaOk, Holds, partitions
  <2>2. CASE SetRestoreOk
    BY <2>2, <1>1 DEF SetRestoreOk, PhaseInv, Installed, partitions
  <2>3. QED
    BY <2>1, <2>2
<1>3. Running' = app[0]
  BY <1>1, <1>2 DEF Running, AppOk, Holds, partitions
<1>4. Abstract!Boot
  BY <1>1, <1>2, <1>3, RunningType DEF Abstract!Boot
<1>5. QED
  BY <1>4 DEF Abstract!Next

LEMMA BootRefines ==
  ASSUME OtaAssumption, IInv, PowerOn \/ Agent, pc' # "run"
  PROVE  UNCHANGED Abstract!vars
<1> USE DEF OtaAssumption, IInv
<1>1. pc \notin RunSteps /\ pc' \notin RunSteps
  BY DEF PowerOn, Agent, Decide, Verdict, EraseApp, RestoreBlock, UnpackFails, VerifyRestored, SetRestoreOk
<1>2. Installed' = Installed
  <2>1. CASE EraseApp \/ RestoreBlock
    <3>1. UNCHANGED <<ota, upg>> /\ upg = "downloadOk" /\ OtaOk
      BY <2>1 DEF EraseApp, RestoreBlock, PhaseInv
    <3>2. QED
      BY <3>1 DEF Installed, OtaOk, Holds
  <2>2. CASE ~(EraseApp \/ RestoreBlock)
    <3>1. UNCHANGED <<app, ota, upg>>
      BY <2>2 DEF PowerOn, Agent, Decide, UnpackFails, VerifyRestored, SetRestoreOk, partitions
    <3>2. QED
      BY <3>1 DEF Installed, OtaOk, Holds
  <2>3. QED
    BY <2>1, <2>2
<1>3. QED
  BY <1>1, <1>2 DEF Abstract!vars

LEMMA DownloadRefines ==
  ASSUME OtaAssumption, IInv, IInv', Download \/ Leave \/ Accept
  PROVE  Abstract!Next
<1> USE DEF OtaAssumption
<1>1. UNCHANGED app /\ pc \in RunSteps /\ pc' \in RunSteps /\ AppOk
  BY DEF Download, StartDownload, Retry, Attempt, RefuseFirst, ReceiveBlock, FinishDownload, ShortResponse, PeerCloses,
     Leave, Accept, partitions, IInv, PhaseInv
<1>2. Running' = Running /\ Running # Nothing
  BY <1>1, RunningType DEF Running, AppOk, Holds
<1>3. Installed' \in Originals \cup {Junk}
  BY BlockFacts DEF OtaAssumption, IInv, TypeOK, Installed, OtaOk, Holds
<1>4. Abstract!Install(Installed')
  BY <1>1, <1>2 DEF Abstract!Install
<1>5. QED
  BY <1>3, <1>4 DEF Abstract!Next

LEMMA StopRefines ==
  ASSUME Reboot \/ PowerLoss
  PROVE  Abstract!Next
<1>1. UNCHANGED <<app, ota, upg>> /\ pc' \notin RunSteps
  BY DEF Reboot, PowerLoss, partitions
<1>2. Abstract!Stop
  BY <1>1 DEF Abstract!Stop, Installed, OtaOk, Holds
<1>3. QED
  BY <1>2 DEF Abstract!Next

(* The upgrade is all or nothing: a boot runs the old image until a        *)
(* complete download is accepted and the new one from then on, wherever a  *)
(* power loss interrupts the restore.                                      *)
THEOREM AtomicInstall == Spec => UpgradeIsAtomic
<1> USE OtaAssumption
<1>1. Init => Abstract!Init
  <2> SUFFICES ASSUME Init
               PROVE  Abstract!Init
    OBVIOUS
  <2>1. Installed \in Originals \cup {Junk}
    BY InitIInv, InstalledType
  <2>2. QED
    BY <2>1 DEF Init, Abstract!Init
<1>2. IInv /\ IInv' /\ [Next]_vars => [Abstract!Next]_(Abstract!vars)
  <2> SUFFICES ASSUME IInv, IInv', [Next]_vars
               PROVE  Abstract!Next \/ UNCHANGED Abstract!vars
    OBVIOUS
  <2>1. CASE UNCHANGED vars
    BY <2>1 DEF vars, partitions, ram, Abstract!vars, Installed, Running, AppOk, OtaOk, Holds
  <2>2. CASE PowerOn \/ Agent
    <3>1. CASE pc' # "run"
      BY <2>2, <3>1, BootRefines
    <3>2. CASE pc' = "run"
      <4>1. Decide \/ SetRestoreOk
        BY <2>2, <3>2 DEF PowerOn, Agent, EraseApp, RestoreBlock, UnpackFails, VerifyRestored
      <4>2. QED
        BY <3>2, <4>1, JumpRefines
    <3>3. QED
      BY <3>1, <3>2
  <2>3. QED
    BY <2>1, <2>2, DownloadRefines, StopRefines DEF Next
<1>3. QED
  BY <1>1, <1>2, Invariance, PTL DEF Spec, UpgradeIsAtomic, Abstract!Spec
=============================================================================
