----------------------------- MODULE OtaUpgrade -----------------------------
(***************************************************************************)
(* The over-the-air upgrade: the http_ota thread of the application        *)
(* (components/ln_at_cmd/ota/ln_at_cmd_ota.c) downloads an image into the  *)
(* OTA partition and sets the upgrade state, and the agent of the boot     *)
(* loader (components/fota/ota_agent/) restores it over the application    *)
(* partition.  Power may be lost between any two flash operations.         *)
(*                                                                         *)
(* Abstractions.  A partition is a row of blocks, the image header in the  *)
(* first one; a block holds its part of an image or Junk, and a partition  *)
(* passes the CRC checks of ota_image.c when every block is of the image   *)
(* its header announces.  A block being erased or programmed is Junk.  The *)
(* upgrade state is a field of the non-volatile data store and changes at  *)
(* once, which is what module Nvds shows of it.                            *)
(***************************************************************************)
EXTENDS Integers

CONSTANTS
  Images,    \* what a server may send and a partition may hold
  Kind,      \* image_type of each: "original", "xz" or "diff"
  Release,   \* ver_major and ver_minor of each
  Unpacked,  \* the original image an archive holds, or Junk if it has none
  Originals, \* the images of kind "original": what can run
  Fits,      \* the images whose sizes pass the precheck
  Last,      \* the last block of a partition
  Junk,      \* a block of no image
  Nothing    \* no application runs

Blocks == 0 .. Last

ASSUME OtaAssumption ==
  /\ Last \in Nat \ {0}
  /\ Junk \notin Images /\ Nothing \notin Images /\ Nothing # Junk
  /\ Kind \in [Images -> {"original", "xz", "diff"}]
  /\ DOMAIN Release = Images
  /\ Originals = {i \in Images : Kind[i] = "original"}
  /\ Fits \subseteq Images
  /\ Unpacked \in [Images -> Originals \cup {Junk}]
  /\ \A i \in Originals : Unpacked[i] = i
  /\ \A i \in Images : Unpacked[i] # Junk => Release[Unpacked[i]] = Release[i]

VARIABLES
  app,        \* the application partition
  ota,        \* the OTA partition
  upg,        \* the upgrade state kept in the non-volatile data store
  pc,         \* where the boot loader or the http_ota thread stands
  next,       \* the block it has come to
  stream,     \* the image being received
  precheckOk, \* is_precheck_ok
  ready       \* is_ready_to_verify

partitions == <<app, ota>>
ram == <<next, stream, precheckOk, ready>>
vars == <<partitions, upg, pc, ram>>

BootSteps == {"agent", "erase", "restore", "verify", "setState", "stuck"}
RunSteps == {"run", "receive", "leave", "accept", "reboot"}
UpgStates == {"unset", "downloadOk", "restoreOk"}

TypeOK ==
  /\ app \in [Blocks -> Originals \cup {Junk}]
  /\ ota \in [Blocks -> Images \cup {Junk}]
  /\ upg \in UpgStates
  /\ pc \in {"off"} \cup BootSteps \cup RunSteps
  /\ next \in Blocks
  /\ stream \in Images
  /\ precheckOk \in BOOLEAN /\ ready \in BOOLEAN

Holds(partition, i) == \A k \in Blocks : partition[k] = i

(* verify_total_img_partition and ota_verify_download: header CRC, body CRC. *)
AppOk == app[0] # Junk /\ Holds(app, app[0])
OtaOk == ota[0] # Junk /\ Holds(ota, ota[0])

NoRam == next' = 0 /\ UNCHANGED stream /\ precheckOk' = FALSE /\ ready' = FALSE

(* A lamp leaves the factory with an application; what is left in the OTA  *)
(* partition and in the upgrade state may come from an earlier use.        *)
Init ==
  /\ \E i \in Originals \cap Fits : app = [k \in Blocks |-> i]
  /\ \E i \in {Junk} \cup {j \in Fits : Kind[j] # "diff"} : ota = [k \in Blocks |-> i]
  /\ upg \in UpgStates
  /\ pc = "off" /\ next = 0 /\ stream \in Images
  /\ precheckOk = FALSE /\ ready = FALSE

-----------------------------------------------------------------------------
(* The boot loader: ota_boot_upgrade_agent.                                *)

PowerOn ==
  /\ pc = "off"
  /\ pc' = "agent"
  /\ UNCHANGED <<partitions, upg, ram>>

(* The application partition already holds what the OTA partition would    *)
(* restore: same version, size and CRC of the original image.              *)
AlreadyRestoredByRelease ==  \* wrong variant: the versions are compared, and nothing else
  Release[app[0]] = Release[ota[0]]

AlreadyRestored ==
  Release[app[0]] = Release[ota[0]] /\ app[0] = Unpacked[ota[0]]

VerdictNoRestart ==  \* wrong variant: a restore cut short is not taken up again
  IF upg # "downloadOk" THEN "run"
  ELSE IF ~AppOk THEN "stuck"
  ELSE IF ~OtaOk THEN "run"
  ELSE IF AlreadyRestored THEN "setState" ELSE "erase"

(* Where the agent goes: "run" jumps to the application, "stuck" returns   *)
(* an error to the boot loader, which then loops for ever.                 *)
Verdict ==
  IF upg # "downloadOk" THEN "run"
  ELSE IF ~AppOk THEN IF OtaOk THEN "erase" ELSE "stuck"
  ELSE IF ~OtaOk THEN "run"
  ELSE IF AlreadyRestored THEN "setState"
  ELSE "erase"

Decide ==
  /\ pc = "agent"
  /\ pc' = Verdict
  /\ next' = 0
  /\ UNCHANGED <<partitions, upg, stream, precheckOk, ready>>

(* The erase of the application partition, then restore_image, which       *)
(* refuses the kinds it does not support.                                  *)
EraseAppNoReset ==  \* wrong variant: the restore goes on from the last block
  /\ pc = "erase"
  /\ app' = [app EXCEPT ![next] = Junk]
  /\ next' = next + 1
  /\ pc' = IF next < Last THEN "erase" ELSE "restore"
  /\ UNCHANGED <<ota, upg, stream, precheckOk, ready>>

EraseApp ==
  /\ pc = "erase"
  /\ app' = [app EXCEPT ![next] = Junk]
  /\ next' = IF next = Last THEN 0 ELSE next + 1
  /\ pc' = IF next < Last THEN "erase" ELSE IF Kind[ota[0]] = "diff" THEN "stuck" ELSE "restore"
  /\ UNCHANGED <<ota, upg, stream, precheckOk, ready>>

(* The header, then orig_image_do_restore or xz_image_do_restore.          *)
RestoreBlock ==
  /\ pc = "restore"
  /\ app' = [app EXCEPT ![next] = Unpacked[ota[next]]]
  /\ next' = IF next = Last THEN 0 ELSE next + 1
  /\ pc' = IF next = Last THEN "verify" ELSE "restore"
  /\ UNCHANGED <<ota, upg, stream, precheckOk, ready>>

UnpackFails ==
  /\ pc = "restore" /\ next > 0
  /\ Kind[ota[0]] = "xz" /\ Unpacked[ota[0]] = Junk
  /\ pc' = "stuck"
  /\ UNCHANGED <<partitions, upg, ram>>

VerifyRestored ==
  /\ pc = "verify"
  /\ pc' = IF AppOk THEN "setState" ELSE "stuck"
  /\ UNCHANGED <<partitions, upg, ram>>

SetRestoreOk ==
  /\ pc = "setState"
  /\ upg' = "restoreOk"
  /\ pc' = "run"
  /\ UNCHANGED <<partitions, ram>>

Agent == Decide \/ EraseApp \/ RestoreBlock \/ UnpackFails \/ VerifyRestored \/ SetRestoreOk

-----------------------------------------------------------------------------
(* The application: http_ota_entry.                                        *)

Attempt(i) == next' = 0 /\ stream' = i /\ pc' = "receive"

StartDownload(i) ==
  /\ pc = "run"
  /\ Attempt(i)
  /\ UNCHANGED <<partitions, upg, precheckOk, ready>>

(* ota_download_precheck, on the header in the first block.                *)
PrecheckAnyKind(i) == Release[i] # Release[app[0]] /\ i \in Fits  \* wrong variant
Precheck(i) == Kind[i] \in {"original", "xz"} /\ Release[i] # Release[app[0]] /\ i \in Fits

(* What reaches the flash: the block of the stream, or Junk when           *)
(* ota_persistent_write flushes its buffer one byte short.                 *)
Stored(i) == {i, Junk}

RefuseFirst ==
  /\ pc = "receive" /\ next = 0 /\ ~Precheck(stream)
  /\ precheckOk' = FALSE
  /\ pc' = "leave"
  /\ UNCHANGED <<partitions, upg, next, stream, ready>>

(* What goes beyond the partition is written all the same, and counts for  *)
(* its last block.  The upgrade state is kept behind the OTA partition: a  *)
(* long file overwrites it with bytes of its own.                          *)
StateOverwritten == next = Last /\ upg' = "unset"

ReceiveBlock ==
  /\ pc = "receive"
  /\ next = 0 => Precheck(stream)
  /\ precheckOk' = (precheckOk \/ next = 0)
  /\ \E b \in Stored(stream) : ota' = [ota EXCEPT ![next] = b]
  /\ next' = IF next < Last THEN next + 1 ELSE Last
  /\ StateOverwritten \/ UNCHANGED upg
  /\ UNCHANGED <<app, pc, stream, ready>>

(* ota_persistent_finish writes one more block when the response ends,     *)
(* whether the image was complete or not.                                  *)
FinishDownload ==
  /\ pc = "receive" /\ next > 0
  /\ \E b \in Stored(stream) : ota' = [ota EXCEPT ![next] = b]
  /\ next' = 0
  /\ ready' = TRUE
  /\ pc' = "leave"
  /\ StateOverwritten \/ UNCHANGED upg
  /\ UNCHANGED <<app, stream, precheckOk>>

(* A response shorter than a block is written without a precheck, with what*)
(* an earlier attempt, a refused one too, left in the buffer.  An empty one*)
(* does not end the thread.                                                *)
ShortResponse ==
  /\ pc = "receive" /\ next = 0
  /\ \E b \in Images \cup {Junk} : ota' = [ota EXCEPT ![0] = b]
  /\ ready' = TRUE
  /\ pc' \in {"receive", "leave"}
  /\ UNCHANGED <<app, upg, next, stream, precheckOk>>

(* An error of the connection is retried once an image has been accepted   *)
(* for download, and a response without a body always is.                  *)
Retry(i) ==
  /\ pc = "receive"
  /\ precheckOk \/ next = 0
  /\ Attempt(i)
  /\ UNCHANGED <<partitions, upg, precheckOk, ready>>

(* The server closes the connection within the body, or the connection     *)
(* fails before an image was accepted for download.                        *)
PeerCloses ==
  /\ pc = "receive"
  /\ pc' = "leave"
  /\ UNCHANGED <<partitions, upg, ram>>

(* The end of the thread; the two flags keep the values earlier attempts   *)
(* and earlier downloads gave them.                                        *)
Acceptable == precheckOk /\ ready /\ OtaOk

Leave ==
  /\ pc = "leave"
  /\ pc' = IF Acceptable THEN "accept" ELSE "run"
  /\ UNCHANGED <<partitions, upg, ram>>

Accept ==  \* update_ota_state
  /\ pc = "accept"
  /\ upg' = "downloadOk"
  /\ pc' = "reboot"
  /\ UNCHANGED <<partitions, ram>>

Reboot ==
  /\ pc = "reboot"
  /\ pc' = "agent"
  /\ NoRam
  /\ UNCHANGED <<partitions, upg>>

Download ==
  \/ \E i \in Images : StartDownload(i) \/ Retry(i)
  \/ RefuseFirst \/ ReceiveBlock \/ FinishDownload \/ ShortResponse \/ PeerCloses

PowerLoss ==
  /\ pc # "off"
  /\ pc' = "off"
  /\ NoRam
  /\ UNCHANGED <<partitions, upg>>

Next == PowerOn \/ Agent \/ Download \/ Leave \/ Accept \/ Reboot \/ PowerLoss

Spec == Init /\ [][Next]_vars

(* The boot loader runs by itself, and so does the thread that has a       *)
(* complete download: nothing is assumed of the network or of the power.   *)
Fairness == WF_vars(Agent) /\ WF_vars(Leave \/ Accept \/ Reboot)

FairSpec == Spec /\ Fairness

-----------------------------------------------------------------------------
(* Properties.                                                             *)

(* Whenever the power goes, the next boot finds a complete application, or *)
(* an upgrade state and a complete image of a supported kind that make it  *)
(* restore one; and a boot that comes to nothing is always that of an      *)
(* archive whose checksums are right and which does not unpack.  That one  *)
(* takes the application with it at every boot.  No power loss, restore    *)
(* cut short, failed, refused or short download ends so.                   *)
Restorable == upg = "downloadOk" /\ OtaOk /\ Kind[ota[0]] # "diff"

LostOnlyToArchive ==
  /\ AppOk \/ Restorable
  /\ pc = "stuck" => Restorable /\ Unpacked[ota[0]] = Junk

(* The upgrade is all or nothing: the image a boot ends with is the old    *)
(* one until a complete download is accepted and the new one from then on, *)
(* and neither a boot, nor a restore cut short, nor a failed download      *)
(* changes it or runs an incomplete image.                                 *)
Installed ==
  IF upg = "downloadOk" /\ OtaOk THEN Unpacked[ota[0]] ELSE app[0]

Running == IF AppOk THEN app[0] ELSE Junk

Abstract == INSTANCE AtomicUpgrade WITH
  Images <- Originals, Broken <- Junk, Nothing <- Nothing,
  installed <- Installed,
  running <- IF pc \in RunSteps THEN Running ELSE Nothing

UpgradeIsAtomic == Abstract!Spec

(* An accepted upgrade happens: an archive that unpacks is running at last *)
(* if the power stays on, wherever the restore is resumed.                 *)
UpgradeCompletes ==
  \A i \in Originals :
    (pc \notin RunSteps /\ Installed = i /\ upg = "downloadOk" /\ OtaOk)
      ~> (pc = "off" \/ (pc = "run" /\ Running = i))
=============================================================================
