-------------------------------- MODULE Nvds --------------------------------
(***************************************************************************)
(* The non-volatile data store (components/fs/nvds/ln_nvds.c): two sectors *)
(* that hold the same fields and a third one whose flag names the valid    *)
(* sector.  A write copies the valid sector to the other one with one      *)
(* field replaced, then moves the flag.  The code takes no lock: a task    *)
(* may read while another one writes, and power may be lost between any    *)
(* two flash operations or during one.                                     *)
(*                                                                         *)
(* Abstractions.  A field is copied in one step (the code copies bytes, in *)
(* the same order).  A flash operation power cuts short leaves Torn fields *)
(* or a flag that is neither marker.  One task writes at a time, as the    *)
(* callers of the setters do: the boot loader, the factory test and the    *)
(* upgrade thread before it reboots.                                       *)
(***************************************************************************)
EXTENDS Integers

CONSTANTS
  NumFields,    \* the fields of a sector, in the order of their offsets
  Values,       \* what a write can store in a field
  VersionText,  \* NV0_NVDS_VERSION_STR
  Blank,        \* an erased field
  Torn,         \* a field whose erase or program was cut short
  NoCall        \* no write in progress

Sectors == {1, 2}
Fields == 1 .. NumFields
Version == 1
Contents == Values \cup {Blank, Torn}

ASSUME NvdsAssumption ==
  /\ NumFields \in Nat \ {0}
  /\ VersionText \in Values
  /\ Blank \notin Values /\ Torn \notin Values /\ Blank # Torn
  /\ NoCall \notin [field : Fields, value : Values]

VARIABLES
  data,    \* the fields of the two sectors
  magic,   \* whether a sector bears NVDS_SECT_MAGIC_CODE
  flag,    \* the valid sector, or 0 when the flag is neither marker
  pc,      \* where the task that uses the store stands in ln_nvds.c
  dest,    \* the sector being written
  next,    \* the field the copy loops have come to
  call,    \* the arguments of ln_nvds_write, or NoCall
  reader,  \* a second task inside ln_nvds_read: where it stands, the sector
           \* it has chosen and the field it reads
  current, \* observer: the values its field has had since it began to read
  overlaps \* observer: the writes that ran meanwhile, up to 2

flash == <<data, magic, flag>>
writer == <<pc, dest, next, call>>
reading == <<reader, current, overlaps>>
vars == <<flash, writer, reading>>

WriteSteps == {"erase", "magic", "copy", "eraseFlag", "setFlag"}
WipeSteps == {"wipe1", "wipe2", "wipeFlag"}

TypeOK ==
  /\ data \in [Sectors -> [Fields -> Contents]]
  /\ magic \in [Sectors -> BOOLEAN]
  /\ flag \in {0, 1, 2}
  /\ pc \in {"off", "init", "idle"} \cup WipeSteps \cup WriteSteps
  /\ dest \in Sectors
  /\ next \in 1 .. NumFields + 1
  /\ call \in [field : Fields, value : Values] \cup {NoCall}
  /\ reader \in [at : {"out", "isSect1", "isSect2", "default", "read"},
                 sector : Sectors, field : Fields]
  /\ current \in SUBSET Contents
  /\ overlaps \in 0 .. 2

NoReader == [at |-> "out", sector |-> 2, field |-> Version]

Init ==  \* the erased flash of a new device
  /\ data = [s \in Sectors |-> [f \in Fields |-> Blank]]
  /\ magic = [s \in Sectors |-> FALSE]
  /\ flag = 0
  /\ pc = "off" /\ dest = 1 /\ next = 1 /\ call = NoCall
  /\ reader = NoReader /\ current = {} /\ overlaps = 0

-----------------------------------------------------------------------------
(* Where a read finds the fields: the flag decides, and the second sector  *)
(* is the default of a flag that is neither marker.                        *)

Readable == flag # 0 \/ magic[2]

ValidSect == IF flag = 1 THEN 1 ELSE 2

Value(f) == data[ValidSect][f]

OtherNext(s) == s + 1  \* wrong variant: right for the first sector only
Other(s) == 3 - s

(* ln_nvds_write begins by choosing the sector that is not valid.          *)
StartWrite(f, v) ==
  /\ pc' = "erase"
  /\ dest' = Other(ValidSect)
  /\ next' = 1
  /\ call' = [field |-> f, value |-> v]

PowerOn ==
  /\ pc = "off"
  /\ pc' = "init"
  /\ UNCHANGED <<flash, dest, next, call, reading>>

(* ln_nvds_init: a readable store is taken as it is, any other is erased   *)
(* and gets its version by an ordinary write.                              *)
InitFound ==
  /\ pc = "init" /\ Readable
  /\ pc' = "idle"
  /\ UNCHANGED <<flash, dest, next, call, reading>>

InitWipe ==
  /\ pc = "init" /\ ~Readable
  /\ pc' = "wipe1"
  /\ UNCHANGED <<flash, dest, next, call, reading>>

EraseSector(s) ==
  /\ data' = [data EXCEPT ![s] = [f \in Fields |-> Blank]]
  /\ magic' = [magic EXCEPT ![s] = FALSE]
  /\ UNCHANGED flag

WipeSector1 ==
  /\ pc = "wipe1"
  /\ EraseSector(1)
  /\ pc' = "wipe2"
  /\ UNCHANGED <<dest, next, call, reading>>

WipeSector2 ==
  /\ pc = "wipe2"
  /\ EraseSector(2)
  /\ pc' = "wipeFlag"
  /\ UNCHANGED <<dest, next, call, reading>>

WipeFlag ==
  /\ pc = "wipeFlag"
  /\ flag' = 0
  /\ StartWrite(Version, VersionText)
  /\ UNCHANGED <<data, magic, reading>>

(* The setters (ln_nvds_set_ota_upg_state and the others) write only when  *)
(* the value read differs from the new one.                                *)
Overlap == overlaps' = IF reader.at = "out" THEN 0 ELSE IF overlaps < 2 THEN overlaps + 1 ELSE 2

(* The values the reader's field has while it reads, this step included.   *)
Seen == current' = IF reader.at = "out" THEN {} ELSE current \cup {Value(reader.field)'}

Set(f, v) ==
  /\ pc = "idle"
  /\ ~(Readable /\ Value(f) = v)
  /\ StartWrite(f, v)
  /\ Overlap
  /\ UNCHANGED <<flash, reader, current>>

-----------------------------------------------------------------------------
(* ln_nvds_write, one flash operation after the other.                     *)

EraseDest ==
  /\ pc = "erase"
  /\ EraseSector(dest)
  /\ pc' = "magic"
  /\ UNCHANGED <<dest, next, call, reading>>

SetMagic ==
  /\ pc = "magic"
  /\ magic' = [magic EXCEPT ![dest] = TRUE]
  /\ pc' = "copy"
  /\ UNCHANGED <<data, flag, dest, next, call, reading>>

CopiedSkipping(f) ==  \* wrong variant: the loop after the field starts one field late
  IF f = call.field THEN call.value
  ELSE IF f = call.field + 1 THEN Blank ELSE data[Other(dest)][f]

(* What the loops before and after the field, and the program of the field *)
(* itself, leave in field f of the new sector.                             *)
Copied(f) == IF f = call.field THEN call.value ELSE data[Other(dest)][f]

CopyField ==
  /\ pc = "copy" /\ next <= NumFields
  /\ data' = [data EXCEPT ![dest][next] = Copied(next)]
  /\ next' = next + 1
  /\ pc' = IF next = NumFields THEN "eraseFlag" ELSE "copy"
  /\ UNCHANGED <<magic, flag, dest, call, reading>>

EraseFlag ==
  /\ pc = "eraseFlag"
  /\ flag' = 0
  /\ pc' = "setFlag"
  /\ UNCHANGED <<data, magic, dest, next, call, reader, overlaps>>
  /\ Seen

SetFlag ==
  /\ pc = "setFlag"
  /\ flag' = dest
  /\ pc' = "idle" /\ call' = NoCall
  /\ UNCHANGED <<data, magic, dest, next, reader, overlaps>>
  /\ Seen

-----------------------------------------------------------------------------
(* A second task inside ln_nvds_read; the flag is read again for the       *)
(* second comparison, and the fields after the sector is chosen.           *)

ReadBegin(f) ==
  /\ pc \in {"idle"} \cup WriteSteps /\ Readable
  /\ reader.at = "out"
  /\ reader' = [NoReader EXCEPT !.at = "isSect1", !.field = f]
  /\ current' = {Value(f)}
  /\ overlaps' = IF pc = "idle" THEN 0 ELSE 1
  /\ UNCHANGED <<flash, writer>>

Goto(at, sector) ==
  /\ reader' = [reader EXCEPT !.at = at, !.sector = sector]
  /\ UNCHANGED <<flash, writer, current, overlaps>>

IsSect1ByDefault ==  \* wrong variant: the first sector is the default
  reader.at = "isSect1" /\ Goto(IF flag # 2 THEN "read" ELSE "isSect2", 1)

IsSect1 == reader.at = "isSect1" /\ Goto(IF flag = 1 THEN "read" ELSE "isSect2", 1)

IsSect2 == reader.at = "isSect2" /\ Goto(IF flag = 2 THEN "read" ELSE "default", 2)

ReadReturns ==
  /\ reader' = NoReader /\ current' = {} /\ overlaps' = 0
  /\ UNCHANGED <<flash, writer>>

(* The default sector: ln_nvds_read fails when it bears no magic code.     *)
IsDefault ==
  /\ reader.at = "default"
  /\ IF magic[2] THEN Goto("read", 2) ELSE ReadReturns

ReadFields == reader.at = "read" /\ ReadReturns

Read == (\E f \in Fields : ReadBegin(f)) \/ IsSect1 \/ IsSect2 \/ IsDefault \/ ReadFields

-----------------------------------------------------------------------------
(* Power goes between two flash operations or during one.  Neither marker  *)
(* of the flag can turn into the other: erasing only sets bits, programming *)
(* only clears them.                                                       *)

TearSector(s) ==
  /\ data' = [data EXCEPT ![s] = [f \in Fields |-> Torn]]
  /\ magic' \in {magic, [magic EXCEPT ![s] = FALSE]}
  /\ UNCHANGED flag

Tear ==
  \/ pc = "wipe1" /\ TearSector(1)
  \/ pc = "wipe2" /\ TearSector(2)
  \/ pc = "erase" /\ TearSector(dest)
  \/ pc = "copy" /\ data' = [data EXCEPT ![dest][next] = Torn] /\ UNCHANGED <<magic, flag>>
  \/ pc \in {"wipeFlag", "eraseFlag", "setFlag"} /\ flag' = 0 /\ UNCHANGED <<data, magic>>

PowerLoss ==
  /\ pc # "off"
  /\ Tear \/ UNCHANGED flash
  /\ pc' = "off" /\ dest' = 1 /\ next' = 1 /\ call' = NoCall
  /\ reader' = NoReader /\ current' = {} /\ overlaps' = 0

Boot == PowerOn \/ InitFound \/ InitWipe \/ WipeSector1 \/ WipeSector2 \/ WipeFlag

Write == EraseDest \/ SetMagic \/ CopyField \/ EraseFlag \/ SetFlag

Next == Boot \/ (\E f \in Fields, v \in Values : Set(f, v)) \/ Write \/ Read \/ PowerLoss

Spec == Init /\ [][Next]_vars

-----------------------------------------------------------------------------
(* Properties.                                                             *)

(* A write is atomic with respect to power loss and durable when it        *)
(* returns: whichever flash operation is cut short, what ln_nvds_read      *)
(* returns afterwards is the whole record with the old field or with the   *)
(* new one, no other field ever changes, and ln_nvds_init reformats only a *)
(* store that was never formatted.                                         *)
Copying == {"erase", "magic", "copy", "eraseFlag"}

Uncommitted == pc \in Copying \/ (pc = "setFlag" /\ dest = 1)

Abstract == INSTANCE AtomicNvds WITH
  record <- IF Readable THEN data[ValidSect] ELSE [f \in {} |-> Blank],
  call <- IF Readable /\ Uncommitted THEN call ELSE NoCall,
  powered <- pc # "off"

WritesAreAtomic == Abstract!Spec

(* A read that overlaps at most one write succeeds and returns a value its *)
(* field had while it ran, although it takes no lock and reads the flag    *)
(* twice: the sector it chose is not the one being written.                *)
ReadsCurrent ==
  overlaps <= 1 =>
    /\ reader.at = "default" => magic[2]
    /\ reader.at = "read" => data[reader.sector][reader.field] \in current
=============================================================================
