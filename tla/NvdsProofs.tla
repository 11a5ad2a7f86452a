----------------------------- MODULE NvdsProofs -----------------------------
(***************************************************************************)
(* Proofs about Nvds, for any number of fields and any values: writes are  *)
(* atomic under power loss, and a read that overlaps one write is correct. *)
(***************************************************************************)
EXTENDS Nvds, TLAPS

USE DEF Sectors, Fields, Version, Contents, WriteSteps, WipeSteps, Copying

Complete(s) == magic[s] /\ data[s] \in [Fields -> Contents \ {Torn}]

(* Where the flash stands in each phase of ln_nvds.c: the sector a read    *)
(* finds is complete, the one being written is the other one and holds the *)
(* copy made so far, and an unreadable store is being formatted.           *)
PhaseInv ==
  /\ Readable => Complete(ValidSect)
  /\ pc = "idle" => Readable
  /\ pc \in WipeSteps => ~Readable
  /\ call = NoCall <=> pc \notin WriteSteps
  /\ pc \in Copying => dest = Other(ValidSect)
  /\ pc \in {"erase", "magic"} => next = 1
  /\ pc = "copy" => next <= NumFields
  /\ pc \in {"eraseFlag", "setFlag"} => next = NumFields + 1
  /\ pc \in {"copy", "eraseFlag", "setFlag"} =>
       magic[dest] /\ \A f \in Fields : f < next => data[dest][f] = Copied(f)
  /\ pc = "setFlag" => flag = 0
  /\ pc = "wipeFlag" \/ (pc \in WriteSteps /\ ~Readable) => \A f \in Fields : data[2][f] = Blank
  /\ pc \in WriteSteps /\ ~Readable => call = [field |-> Version, value |-> VersionText]

IInv == TypeOK /\ PhaseInv

LEMMA InitIInv == NvdsAssumption /\ Init => IInv
  BY DEF NvdsAssumption, Init, IInv, TypeOK, PhaseInv, NoReader, Readable, ValidSect

LEMMA GotoType ==
  ASSUME TypeOK, NEW at \in {"read", "isSect2", "default"}, NEW s \in Sectors, Goto(at, s)
  PROVE  reader' \in [at : {"out", "isSect1", "isSect2", "default", "read"},
                       sector : Sectors, field : Fields]
  BY DEF TypeOK, Goto

LEMMA SeenType ==
  ASSUME TypeOK, Seen, reader' = reader, data' = data, flag' \in {0, 1, 2}
  PROVE  current' \in SUBSET Contents
<1>1. Value(reader.field)' \in Contents
  BY DEF TypeOK, Value, ValidSect
<1>2. QED
  BY <1>1 DEF TypeOK, Seen

(* What the steps that leave the flash and the writer alone keep.          *)
LEMMA ReadKeepsIInv ==
  ASSUME NvdsAssumption, IInv, Read
  PROVE  IInv'
<1> USE DEF NvdsAssumption, IInv
<1>1. UNCHANGED <<flash, writer>>
  BY DEF Read, ReadBegin, IsSect1, IsSect2, IsDefault, ReadFields, ReadReturns, Goto
<1>2. PhaseInv'
  BY <1>1 DEF PhaseInv, Complete, Readable, ValidSect, Other, Copied, flash, writer
<1>3. TypeOK'
  <2>1. ASSUME NEW f \in Fields, ReadBegin(f)
        PROVE  TypeOK'
    <3>1. reader' = [at |-> "isSect1", sector |-> 2, field |-> f]
      BY <2>1 DEF ReadBegin, NoReader
    <3>2. Value(f) \in Contents
      BY DEF TypeOK, Value, ValidSect
    <3>3. QED
      BY <1>1, <2>1, <3>1, <3>2 DEF TypeOK, ReadBegin, flash, writer
  <2>2. CASE IsSect1 \/ IsSect2
    BY <1>1, <2>2, GotoType DEF TypeOK, IsSect1, IsSect2, Goto, flash, writer
  <2>3. CASE IsDefault \/ ReadFields
    BY <1>1, <2>3, GotoType DEF TypeOK, IsDefault, ReadFields, ReadReturns, Goto, NoReader, flash, writer
  <2>4. QED
    BY <2>1, <2>2, <2>3 DEF Read
<1>4. QED
  BY <1>2, <1>3

LEMMA BootKeepsIInv ==
  ASSUME NvdsAssumption, IInv, Boot
  PROVE  IInv'
<1> USE DEF NvdsAssumption, IInv, TypeOK, flash, reading
<1>1. CASE PowerOn
  BY <1>1 DEF PowerOn, PhaseInv, Complete, Readable, ValidSect, Other, Copied
<1>2. CASE InitFound
  BY <1>2 DEF InitFound, PhaseInv, Complete, Readable, ValidSect, Other, Copied
<1>3. CASE InitWipe
  BY <1>3 DEF InitWipe, PhaseInv, Complete, Readable, ValidSect, Other, Copied
<1>4. CASE WipeSector1
  BY <1>4 DEF WipeSector1, EraseSector, PhaseInv, Complete, Readable, ValidSect, Other, Copied
<1>5. CASE WipeSector2
  BY <1>5 DEF WipeSector2, EraseSector, PhaseInv, Complete, Readable, ValidSect, Other, Copied
<1>6. CASE WipeFlag
  BY <1>6 DEF WipeFlag, StartWrite, PhaseInv, Complete, Readable, ValidSect, Other, Copied
<1>7. QED
  BY <1>1, <1>2, <1>3, <1>4, <1>5, <1>6 DEF Boot

LEMMA SetKeepsIInv ==
  ASSUME NvdsAssumption, IInv, NEW f \in Fields, NEW v \in Values, Set(f, v)
  PROVE  IInv'
<1> USE DEF NvdsAssumption, IInv, TypeOK
<1>1. TypeOK'
  BY DEF Set, StartWrite, Overlap, Other, ValidSect, flash
<1>2. PhaseInv'
  BY DEF Set, StartWrite, Overlap, PhaseInv, Complete, Readable, ValidSect, Other, Copied, flash
<1>3. QED
  BY <1>1, <1>2

(* What the copy loops write is a value or a blank, never a torn field.    *)
LEMMA CopiedType ==
  ASSUME NvdsAssumption, IInv, pc \in Copying, NEW f \in Fields
  PROVE  /\ Copied(f) \in Contents
         /\ Readable \/ pc \in {"copy", "eraseFlag"} => Copied(f) \in Contents \ {Torn}
<1> USE DEF NvdsAssumption, IInv, TypeOK
<1>1. call \in [field : Fields, value : Values] /\ Other(dest) = ValidSect
  BY DEF PhaseInv, Other, ValidSect
<1>2. CASE Readable
  BY <1>1, <1>2 DEF PhaseInv, Complete, Copied, Other
<1>3. CASE ~Readable
  BY <1>1, <1>3 DEF PhaseInv, Readable, ValidSect, Copied, Other
<1>4. QED
  BY <1>2, <1>3

(* Before it is named by the flag, the new sector is complete.             *)
LEMMA CopiedData ==
  ASSUME NvdsAssumption, IInv, pc \in {"eraseFlag", "setFlag"}
  PROVE  magic[dest] /\ data[dest] \in [Fields -> Contents \ {Torn}]
<1> USE DEF NvdsAssumption, IInv
<1>1. magic[dest] /\ \A f \in Fields : data[dest][f] = Copied(f)
  BY DEF TypeOK, PhaseInv
<1>2. \A f \in Fields : Copied(f) \in Contents \ {Torn}
  <2>1. CASE pc = "eraseFlag"
    BY <2>1, CopiedType
  <2>2. CASE pc = "setFlag"
    BY <2>2 DEF TypeOK, PhaseInv, Complete, Readable, ValidSect, Copied, Other
  <2>3. QED
    BY <2>1, <2>2
<1>3. data[dest] \in [Fields -> Contents]
  BY DEF TypeOK
<1>4. \A f \in Fields : data[dest][f] \in Contents \ {Torn}
  BY <1>1, <1>2
<1>5. QED
  BY <1>1, <1>3, <1>4

LEMMA WriteKeepsIInv ==
  ASSUME NvdsAssumption, IInv, Write
  PROVE  IInv'
<1> USE DEF NvdsAssumption, IInv
<1>1. CASE EraseDest
  <2>1. TypeOK'
    BY <1>1 DEF EraseDest, EraseSector, TypeOK, reading
  <2>2. PhaseInv'
    BY <1>1 DEF EraseDest, EraseSector, TypeOK, PhaseInv, Complete, Readable, ValidSect, Other, Copied
  <2>3. QED
    BY <2>1, <2>2
<1>2. CASE SetMagic
  <2>1. TypeOK'
    BY <1>2 DEF SetMagic, TypeOK, reading
  <2>2. PhaseInv'
    BY <1>2 DEF SetMagic, TypeOK, PhaseInv, Complete, Readable, ValidSect, Other, Copied
  <2>3. QED
    BY <2>1, <2>2
<1>3. CASE CopyField
  <2>1. next \in Fields /\ Copied(next) \in Contents
    BY <1>3, CopiedType DEF CopyField, TypeOK
  <2>2. TypeOK'
    <3>1. data' \in [Sectors -> [Fields -> Contents]]
      BY <1>3, <2>1 DEF CopyField, TypeOK
    <3>2. next' \in 1 .. NumFields + 1 /\ pc' \in WriteSteps
      BY <1>3, <2>1 DEF CopyField, TypeOK
    <3>3. QED
      BY <1>3, <3>1, <3>2 DEF CopyField, TypeOK, reading
  <2>3. PhaseInv'
    BY <1>3, <2>1 DEF CopyField, TypeOK, PhaseInv, Complete, Readable, ValidSect, Other, Copied
  <2>4. QED
    BY <2>2, <2>3
<1>4. CASE EraseFlag
  <2>1. TypeOK'
    <3>1. current' \in SUBSET Contents
      BY <1>4, SeenType DEF EraseFlag
    <3>2. QED
      BY <1>4, <3>1 DEF EraseFlag, TypeOK
  <2>2. data[dest] \in [Fields -> Contents \ {Torn}]
    BY <1>4, CopiedData DEF EraseFlag
  <2>3. PhaseInv'
    BY <1>4, <2>2 DEF EraseFlag, TypeOK, PhaseInv, Complete, Readable, ValidSect, Other, Copied
  <2>4. QED
    BY <2>1, <2>3
<1>5. CASE SetFlag
  <2>1. TypeOK'
    <3>1. current' \in SUBSET Contents
      BY <1>5, SeenType DEF SetFlag, TypeOK
    <3>2. QED
      BY <1>5, <3>1 DEF SetFlag, TypeOK
  <2>2. data[dest] \in [Fields -> Contents \ {Torn}]  /\ magic[dest]
    BY <1>5, CopiedData DEF SetFlag
  <2>3. PhaseInv'
    BY <1>5, <2>2 DEF SetFlag, TypeOK, PhaseInv, Complete, Readable, ValidSect
  <2>4. QED
    BY <2>1, <2>3
<1>6. QED
  BY <1>1, <1>2, <1>3, <1>4, <1>5 DEF Write

LEMMA TearSectorType ==
  ASSUME TypeOK, NEW s \in Sectors, TearSector(s)
  PROVE  /\ data' \in [Sectors -> [Fields -> Contents]] /\ data'[Other(s)] = data[Other(s)]
         /\ magic' \in [Sectors -> BOOLEAN] /\ magic'[Other(s)] = magic[Other(s)]
         /\ magic'[s] => magic[s]
<1>1. [f \in Fields |-> Torn] \in [Fields -> Contents]
  OBVIOUS
<1>2. Other(s) \in Sectors /\ Other(s) # s
  BY DEF Other
<1>3. data' \in [Sectors -> [Fields -> Contents]] /\ data'[Other(s)] = data[Other(s)]
  BY <1>1, <1>2 DEF TypeOK, TearSector
<1>4. magic' = magic \/ magic' = [magic EXCEPT ![s] = FALSE]
  BY DEF TearSector
<1>5. /\ magic' \in [Sectors -> BOOLEAN] /\ magic'[Other(s)] = magic[Other(s)]
      /\ magic'[s] => magic[s]
  BY <1>2, <1>4 DEF TypeOK
<1>6. QED
  BY <1>3, <1>5

(* A torn operation spares the sector a read finds: it is on the other     *)
(* sector, or on the flag, whose erase reveals the sector just completed.  *)
LEMMA TearSparesValid ==
  ASSUME NvdsAssumption, IInv, Tear
  PROVE  /\ data' \in [Sectors -> [Fields -> Contents]]
         /\ magic' \in [Sectors -> BOOLEAN]
         /\ flag' \in {0, 1, 2}
         /\ Readable' => Complete(ValidSect)'
<1> USE DEF NvdsAssumption, IInv
<1>1. CASE pc \in {"wipe1", "wipe2"}
  <2>1. PICK s \in Sectors : TearSector(s)
    BY <1>1 DEF Tear
  <2>2. ~Readable'
    BY <1>1, <2>1, TearSectorType DEF TearSector, PhaseInv, Readable, Other
  <2>3. QED
    BY <2>1, <2>2, TearSectorType DEF TypeOK, TearSector
<1>2. CASE pc = "erase"
  <2>1. TearSector(dest) /\ dest \in Sectors /\ dest = Other(ValidSect)
    BY <1>2 DEF Tear, TypeOK, PhaseInv
  <2>2. Readable' => Readable
    BY <2>1, TearSectorType DEF TearSector, Readable, Other, ValidSect
  <2>3. Other(dest) = ValidSect /\ ValidSect' = ValidSect
    BY <2>1 DEF TearSector, Other, ValidSect
  <2>4. data'[ValidSect] = data[ValidSect] /\ magic'[ValidSect] = magic[ValidSect]
    BY <2>1, <2>3, TearSectorType
  <2>5. QED
    BY <2>1, <2>2, <2>3, <2>4, TearSectorType DEF TypeOK, TearSector, PhaseInv, Complete
<1>3. CASE pc = "copy"
  <2>1. next \in Fields /\ data' = [data EXCEPT ![dest][next] = Torn] /\ UNCHANGED <<magic, flag>>
    BY <1>3 DEF Tear, TypeOK, PhaseInv
  <2>2. dest # ValidSect /\ ValidSect \in Sectors
    BY <1>3 DEF PhaseInv, Other, ValidSect
  <2>3. data' \in [Sectors -> [Fields -> Contents]]
    BY <2>1 DEF TypeOK
  <2>4. data'[ValidSect] = data[ValidSect]
    BY <2>1, <2>2 DEF TypeOK
  <2>5. QED
    BY <2>1, <2>3, <2>4 DEF TypeOK, PhaseInv, Complete, Readable, ValidSect
<1>4. CASE pc \in {"wipeFlag", "eraseFlag", "setFlag"}
  <2>1. flag' = 0 /\ UNCHANGED <<data, magic>>
    BY <1>4 DEF Tear
  <2>2. CASE pc = "eraseFlag"
    <3>1. magic[dest] /\ data[dest] \in [Fields -> Contents \ {Torn}]
      BY <2>2, CopiedData
    <3>2. QED
      BY <2>1, <2>2, <3>1 DEF TypeOK, PhaseInv, Complete, Readable, ValidSect, Other
  <2>3. CASE pc \in {"wipeFlag", "setFlag"}
    BY <2>1, <2>3 DEF TypeOK, PhaseInv, Complete, Readable, ValidSect
  <2>4. QED
    BY <1>4, <2>2, <2>3
<1>5. QED
  BY <1>1, <1>2, <1>3, <1>4 DEF Tear

LEMMA PowerLossKeepsIInv ==
  ASSUME NvdsAssumption, IInv, PowerLoss
  PROVE  IInv'
<1> USE DEF NvdsAssumption, IInv
<1>1. /\ data' \in [Sectors -> [Fields -> Contents]]
      /\ magic' \in [Sectors -> BOOLEAN]
      /\ flag' \in {0, 1, 2}
      /\ Readable' => Complete(ValidSect)'
  <2>1. CASE UNCHANGED flash
    BY <2>1 DEF TypeOK, PhaseInv, Complete, Readable, ValidSect, flash
  <2>2. QED
    BY <2>1, TearSparesValid DEF PowerLoss
<1>2. TypeOK'
  BY <1>1 DEF PowerLoss, NoReader, TypeOK
<1>3. PhaseInv'
  BY <1>1 DEF PowerLoss, PhaseInv
<1>4. QED
  BY <1>2, <1>3

(* The states of the store are well typed, and the sector a read finds is  *)
(* complete in every phase of a write.                                     *)
THEOREM Invariance == Spec => []IInv
<1> USE NvdsAssumption
<1>1. Init => IInv
  BY InitIInv
<1>2. IInv /\ [Next]_vars => IInv'
  <2> SUFFICES ASSUME IInv, [Next]_vars
               PROVE  IInv'
    OBVIOUS
  <2>1. CASE Next
    BY <2>1, ReadKeepsIInv, BootKeepsIInv, SetKeepsIInv, WriteKeepsIInv, PowerLossKeepsIInv DEF Next
  <2>2. CASE UNCHANGED vars
    BY <2>2 DEF vars, flash, writer, reading, IInv, TypeOK, PhaseInv, Complete, Readable,
       ValidSect, Other, Copied
  <2>3. QED
    BY <2>1, <2>2
<1>3. QED
  BY <1>1, <1>2, PTL DEF Spec

THEOREM TypeCorrect == Spec => []TypeOK
<1>1. IInv => TypeOK
  BY DEF IInv
<1>2. QED
  BY <1>1, Invariance, PTL

-----------------------------------------------------------------------------
(* Reads.  A reader that has seen the flag has chosen a sector; the write  *)
(* it overlaps goes to the other one until it commits, and the value of    *)
(* the chosen sector is one the field had when the read began or later.    *)
Chosen == IF reader.at = "read" THEN reader.sector ELSE 2

ReaderInv ==
  reader.at # "out" =>
    /\ Readable /\ pc \in {"idle"} \cup WriteSteps
    /\ Value(reader.field) \in current
    /\ overlaps = 0 => pc = "idle"
    /\ reader.at # "isSect1" /\ overlaps <= 1 =>
         /\ magic[Chosen] /\ data[Chosen][reader.field] \in current
         /\ pc \in Copying => dest # Chosen
         /\ overlaps = 0 => Chosen = ValidSect

LEMMA ReadKeepsReaderInv ==
  ASSUME NvdsAssumption, IInv, ReaderInv, Read
  PROVE  ReaderInv'
<1> USE DEF NvdsAssumption, IInv, TypeOK, flash, writer
<1>1. ASSUME NEW f \in Fields, ReadBegin(f)
      PROVE  ReaderInv'
  <2>1. reader' = [at |-> "isSect1", sector |-> 2, field |-> f]
    BY <1>1 DEF ReadBegin, NoReader
  <2>2. QED
    BY <1>1, <2>1 DEF ReadBegin, ReaderInv, Readable, Value, ValidSect
<1>2. CASE IsSect1
  <2>1. reader' = [reader EXCEPT !.at = IF flag = 1 THEN "read" ELSE "isSect2", !.sector = 1]
    BY <1>2 DEF IsSect1, Goto
  <2>2. Chosen' = ValidSect
    BY <2>1 DEF Chosen, ValidSect
  <2>3. magic[ValidSect] /\ (pc \in Copying => dest # ValidSect)
    BY <1>2 DEF IsSect1, ReaderInv, PhaseInv, Complete, Other, ValidSect
  <2>4. QED
    BY <1>2, <2>1, <2>2, <2>3 DEF IsSect1, Goto, ReaderInv, Readable, Value, ValidSect
<1>3. CASE IsSect2
  <2>1. reader' = [reader EXCEPT !.at = IF flag = 2 THEN "read" ELSE "default", !.sector = 2]
    BY <1>3 DEF IsSect2, Goto
  <2>2. Chosen' = Chosen
    BY <1>3, <2>1 DEF IsSect2, Chosen
  <2>3. QED
    BY <1>3, <2>1, <2>2 DEF IsSect2, Goto, ReaderInv, Readable, Value, ValidSect
<1>4. CASE IsDefault /\ magic[2]
  <2>1. reader' = [reader EXCEPT !.at = "read", !.sector = 2]
    BY <1>4 DEF IsDefault, Goto
  <2>2. Chosen' = Chosen
    BY <1>4, <2>1 DEF IsDefault, Chosen
  <2>3. QED
    BY <1>4, <2>1, <2>2 DEF IsDefault, Goto, ReaderInv, Readable, Value, ValidSect
<1>5. CASE (IsDefault /\ ~magic[2]) \/ ReadFields
  BY <1>5 DEF IsDefault, ReadFields, ReadReturns, NoReader, ReaderInv
<1>6. QED
  BY <1>1, <1>2, <1>3, <1>4, <1>5 DEF Read

(* Until a write commits it changes neither what a read finds nor the      *)
(* sector a reader has chosen.                                             *)
LEMMA WriterKeepsReaderInv ==
  ASSUME NvdsAssumption, IInv, ReaderInv,
         Boot \/ (\E f \in Fields, v \in Values : Set(f, v)) \/ Write
  PROVE  ReaderInv'
<1> USE DEF NvdsAssumption, IInv
<1>0. SUFFICES ASSUME reader.at # "out", reader' = reader
               PROVE  ReaderInv'
  BY DEF Boot, PowerOn, InitFound, InitWipe, WipeSector1, WipeSector2, WipeFlag, Set, Write, EraseDest,
     SetMagic, CopyField, EraseFlag, SetFlag, ReaderInv, reading
<1> DEFINE field == reader.field
<1>a. field \in Fields /\ Chosen' = Chosen /\ Chosen \in Sectors
  BY <1>0 DEF TypeOK, Chosen
<1>1. CASE Boot
  BY <1>0, <1>1 DEF Boot, PowerOn, InitFound, InitWipe, WipeSector1, WipeSector2, WipeFlag, ReaderInv
<1>2. ASSUME NEW f \in Fields, NEW v \in Values, Set(f, v)
      PROVE  ReaderInv'
  <2>1. UNCHANGED <<flash, current>> /\ dest' = Other(ValidSect) /\ pc' = "erase" /\ pc = "idle"
    BY <1>2 DEF Set, StartWrite
  <2>2. overlaps' # 0 /\ (overlaps' <= 1 => overlaps = 0)
    BY <1>0, <1>2 DEF Set, Overlap, TypeOK
  <2>3. QED
    BY <1>0, <1>a, <2>1, <2>2 DEF ReaderInv, Readable, Value, ValidSect, Other, flash
<1>3. CASE EraseDest
  <2>1. ValidSect' = ValidSect /\ dest # ValidSect /\ dest \in Sectors /\ ValidSect \in Sectors
    BY <1>3 DEF EraseDest, EraseSector, PhaseInv, TypeOK, Other, ValidSect
  <2>2. \A s \in Sectors : s # dest => data'[s] = data[s] /\ magic'[s] = magic[s]
    BY <1>3 DEF EraseDest, EraseSector, TypeOK
  <2>3. Readable'
    BY <1>0, <1>3, <2>1, <2>2 DEF EraseDest, EraseSector, ReaderInv, Readable, ValidSect
  <2>4. QED
    BY <1>0, <1>3, <1>a, <2>1, <2>2, <2>3 DEF EraseDest, ReaderInv, Value, reading
<1>4. CASE SetMagic
  <2>1. magic'[1] = magic[1] \/ magic'[1]
    BY <1>4 DEF SetMagic, TypeOK
  <2>2. magic'[2] = magic[2] \/ magic'[2]
    BY <1>4 DEF SetMagic, TypeOK
  <2>3. QED
    BY <1>0, <1>4, <1>a, <2>1, <2>2 DEF SetMagic, ReaderInv, Readable, Value, ValidSect, reading
<1>5. CASE CopyField
  <2>1. ValidSect' = ValidSect /\ dest # ValidSect /\ dest \in Sectors /\ ValidSect \in Sectors
    BY <1>5 DEF CopyField, PhaseInv, TypeOK, Other, ValidSect
  <2>2. \A s \in Sectors : s # dest => data'[s] = data[s]
    BY <1>5 DEF CopyField, TypeOK
  <2>3. QED
    BY <1>0, <1>5, <1>a, <2>1, <2>2 DEF CopyField, ReaderInv, Readable, Value, reading
<1>6. CASE EraseFlag
  <2>1. current' = current \cup {Value(field)'}
    BY <1>0, <1>6 DEF EraseFlag, Seen
  <2>2. magic[2]
    <3>1. CASE dest = 2
      BY <1>6, <3>1 DEF EraseFlag, PhaseInv
    <3>2. CASE dest = 1
      BY <1>0, <1>6, <3>2 DEF EraseFlag, PhaseInv, ReaderInv, Complete, ValidSect, Other
    <3>3. QED
      BY <3>1, <3>2 DEF TypeOK
  <2>3. QED
    BY <1>0, <1>6, <1>a, <2>1, <2>2 DEF EraseFlag, ReaderInv, Readable
<1>7. CASE SetFlag
  <2>1. current' = current \cup {Value(field)'}
    BY <1>0, <1>7 DEF SetFlag, Seen
  <2>2. Readable'
    BY <1>7 DEF SetFlag, TypeOK, Readable
  <2>3. overlaps # 0
    BY <1>0, <1>7 DEF SetFlag, ReaderInv
  <2>4. QED
    BY <1>0, <1>7, <1>a, <2>1, <2>2, <2>3 DEF SetFlag, ReaderInv
<1>8. QED
  BY <1>1, <1>2, <1>3, <1>4, <1>5, <1>6, <1>7 DEF Write

(* A read that overlaps at most one write succeeds, and returns a value    *)
(* its field had while it ran.                                             *)
THEOREM ReadsAreCurrent == Spec => []ReadsCurrent
<1> USE NvdsAssumption
<1>1. Init => ReaderInv
  BY DEF Init, NoReader, ReaderInv
<1>2. IInv /\ ReaderInv /\ [Next]_vars => ReaderInv'
  <2> SUFFICES ASSUME IInv, ReaderInv, [Next]_vars
               PROVE  ReaderInv'
    OBVIOUS
  <2>1. CASE PowerLoss
    BY <2>1 DEF PowerLoss, NoReader, ReaderInv
  <2>2. CASE UNCHANGED vars
    BY <2>2 DEF vars, flash, writer, reading, ReaderInv, Chosen, Readable, Value, ValidSect
  <2>3. QED
    BY <2>1, <2>2, ReadKeepsReaderInv, WriterKeepsReaderInv DEF Next
<1>3. ReaderInv => ReadsCurrent
  BY DEF ReaderInv, ReadsCurrent, Chosen
<1>4. QED
  BY <1>1, <1>2, <1>3, Invariance, PTL DEF Spec

-----------------------------------------------------------------------------
(* Refinement.  A write to the second sector commits when the flag is      *)
(* erased, because the second sector is the default; a write to the first  *)
(* one commits when the flag is set.  Every other step is a stutter.       *)
None == [f \in {} |-> Blank]

Record == IF Readable THEN data[ValidSect] ELSE None

Call == IF Readable /\ Uncommitted THEN call ELSE NoCall

LEMMA RecordType ==
  ASSUME NvdsAssumption, IInv, Readable
  PROVE  Record = data[ValidSect] /\ Record \in [Fields -> Contents] /\ Record # None
<1>1. Record = data[ValidSect] /\ Record \in [Fields -> Contents]
  BY DEF Record, IInv, TypeOK, ValidSect
<1>2. Version \in Fields /\ DOMAIN Record = Fields /\ DOMAIN None = {}
  BY <1>1 DEF NvdsAssumption, None
<1>3. QED
  BY <1>1, <1>2

(* The sector the copy leaves behind is the record with the field replaced. *)
LEMMA CopiedRecord ==
  ASSUME NvdsAssumption, IInv, pc \in {"eraseFlag", "setFlag"}, Readable, Uncommitted
  PROVE  data[dest] = [Record EXCEPT ![call.field] = call.value]
<1> USE DEF NvdsAssumption, IInv
<1>1. Other(dest) = ValidSect
  BY DEF PhaseInv, Uncommitted, Other, ValidSect, TypeOK
<1>2. data[dest] \in [Fields -> Contents] /\ Record = data[Other(dest)] /\ Record \in [Fields -> Contents]
  BY <1>1, RecordType DEF TypeOK
<1>3. \A f \in Fields : data[dest][f] = IF f = call.field THEN call.value ELSE Record[f]
  BY <1>2 DEF PhaseInv, Copied, TypeOK
<1>4. QED
  BY <1>2, <1>3

LEMMA EraseFlagRefines ==
  ASSUME NvdsAssumption, IInv, EraseFlag
  PROVE  Abstract!Next \/ UNCHANGED Abstract!vars
<1> USE DEF NvdsAssumption, IInv
<1>1. pc = "eraseFlag" /\ pc' = "setFlag" /\ flag' = 0 /\ UNCHANGED <<data, magic, dest, call>>
  BY DEF EraseFlag
<1>2. CASE ~Readable
  BY <1>1, <1>2 DEF Abstract!vars, Readable, PhaseInv
<1>3. CASE Readable /\ dest = 1
  <2>1. ValidSect = 2 /\ magic[2]
    BY <1>1, <1>3 DEF PhaseInv, Complete, Other, ValidSect
  <2>2. QED
    BY <1>1, <1>3, <2>1 DEF Abstract!vars, Readable, ValidSect, Uncommitted
<1>4. CASE Readable /\ dest = 2
  <2>1. magic[2] /\ Uncommitted /\ ~Uncommitted' /\ call # NoCall
    BY <1>1, <1>4 DEF PhaseInv, Uncommitted
  <2>2. Record' = [Record EXCEPT ![call.field] = call.value]
    BY <1>1, <1>4, <2>1, CopiedRecord DEF Record, Readable, ValidSect
  <2>3. Call = call /\ Call' = NoCall
    BY <1>4, <2>1 DEF Call
  <2>4. Abstract!Commit
    BY <1>1, <2>1, <2>2, <2>3 DEF Abstract!Commit, Abstract!Written, Record, Call, None
  <2>5. QED
    BY <2>4 DEF Abstract!Next
<1>5. QED
  BY <1>2, <1>3, <1>4 DEF TypeOK

LEMMA SetFlagRefines ==
  ASSUME NvdsAssumption, IInv, SetFlag
  PROVE  Abstract!Next \/ UNCHANGED Abstract!vars
<1> USE DEF NvdsAssumption, IInv
<1>1. pc = "setFlag" /\ pc' = "idle" /\ flag = 0 /\ flag' = dest /\ UNCHANGED <<data, magic, dest>>
  BY DEF SetFlag, PhaseInv
<1>2. Readable' /\ ValidSect' = dest /\ ~Uncommitted' /\ call # NoCall /\ dest \in {1, 2}
  BY <1>1 DEF Readable, ValidSect, Uncommitted, TypeOK, PhaseInv
<1>3. CASE ~Readable
  <2>1. dest = 1
    BY <1>1, <1>3 DEF PhaseInv, Readable, TypeOK
  <2>2. data[1] \in [Fields -> Contents]
    BY DEF TypeOK
  <2>3. \A f \in Fields : data[1][f] = IF f = Version THEN VersionText ELSE Blank
    BY <1>1, <1>3, <2>1 DEF PhaseInv, Copied, Other, TypeOK
  <2>4. data[1] = [f \in Fields |-> IF f = Version THEN VersionText ELSE Blank]
    BY <2>2, <2>3
  <2>5. Abstract!Format
    BY <1>1, <1>2, <1>3, <2>1, <2>4 DEF Abstract!Format, Abstract!Formatted, Abstract!Unformatted
  <2>6. QED
    BY <2>5 DEF Abstract!Next
<1>4. CASE Readable /\ dest = 1
  <2>1. Uncommitted
    BY <1>1, <1>4 DEF Uncommitted
  <2>2. Record' = [Record EXCEPT ![call.field] = call.value]
    BY <1>1, <1>2, <1>4, <2>1, CopiedRecord DEF Record
  <2>3. Call = call /\ Call' = NoCall
    BY <1>2, <1>4, <2>1 DEF Call
  <2>4. Abstract!Commit
    BY <1>1, <1>2, <2>2, <2>3 DEF Abstract!Commit, Abstract!Written, Record, Call, None
  <2>5. QED
    BY <2>4 DEF Abstract!Next
<1>5. CASE Readable /\ dest = 2
  BY <1>1, <1>2, <1>5 DEF Abstract!vars, ValidSect, Uncommitted
<1>6. QED
  BY <1>2, <1>3, <1>4, <1>5

LEMMA PowerLossRefines ==
  ASSUME NvdsAssumption, IInv, PowerLoss
  PROVE  Abstract!Next \/ UNCHANGED Abstract!vars
<1> USE DEF NvdsAssumption, IInv
<1>1. pc # "off" /\ pc' = "off" /\ Call' = NoCall /\ (Tear \/ UNCHANGED flash)
  BY DEF PowerLoss, Call
<1>2. SUFFICES Record' = Record \/ (Call # NoCall /\ Record' = [Record EXCEPT ![Call.field] = Call.value])
  BY <1>1 DEF Abstract!Next, Abstract!PowerLoss, Abstract!Written, Record, Call, None
<1>3. CASE UNCHANGED flash
  BY <1>3 DEF Record, Readable, ValidSect, flash
<1>4. CASE Tear /\ pc \in {"wipe1", "wipe2", "wipeFlag"}
  <2>1. ~Readable
    BY <1>4 DEF PhaseInv
  <2>2. ~Readable'
    <3>1. CASE pc = "wipeFlag"
      BY <1>4, <2>1, <3>1 DEF Tear, Readable
    <3>2. CASE pc \in {"wipe1", "wipe2"}
      BY <1>4, <2>1, <3>2, TearSectorType DEF Tear, TearSector, Readable, Other
    <3>3. QED
      BY <1>4, <3>1, <3>2
  <2>3. QED
    BY <2>1, <2>2 DEF Record, None
<1>5. CASE Tear /\ pc \in {"erase", "copy"}
  <2>1. dest = Other(ValidSect) /\ dest \in Sectors /\ UNCHANGED flag
    BY <1>5 DEF Tear, TearSector, PhaseInv, TypeOK
  <2>2. ValidSect \in Sectors /\ Other(dest) = ValidSect /\ ValidSect # dest
    BY <2>1 DEF ValidSect, Other
  <2>3. data'[ValidSect] = data[ValidSect] /\ magic'[ValidSect] = magic[ValidSect]
    <3>1. CASE pc = "erase"
      BY <1>5, <2>1, <2>2, <3>1, TearSectorType DEF Tear
    <3>2. CASE pc = "copy"
      BY <1>5, <2>1, <2>2, <3>2 DEF Tear, TypeOK
    <3>3. QED
      BY <1>5, <3>1, <3>2
  <2>4. QED
    BY <2>1, <2>3 DEF Record, Readable, ValidSect, None
<1>6. CASE Tear /\ pc = "setFlag"
  BY <1>6 DEF Tear, PhaseInv, Record, Readable, ValidSect, None
<1>7. CASE Tear /\ pc = "eraseFlag"
  <2>1. flag' = 0 /\ UNCHANGED <<data, magic>>
    BY <1>7 DEF Tear
  <2>2. CASE ~Readable
    BY <2>1, <2>2 DEF Record, Readable, None
  <2>3. CASE Readable /\ dest = 1
    BY <1>7, <2>1, <2>3 DEF PhaseInv, Complete, Other, Record, Readable, ValidSect
  <2>4. CASE Readable /\ dest = 2
    <3>1. magic[2] /\ Call = call /\ call # NoCall
      BY <1>7, <2>4 DEF PhaseInv, Call, Uncommitted
    <3>2. Record' = data[2]
      BY <2>1, <3>1 DEF Record, Readable, ValidSect
    <3>3. QED
      BY <1>7, <2>4, <3>1, <3>2, CopiedRecord DEF Uncommitted
  <2>5. QED
    BY <2>2, <2>3, <2>4 DEF TypeOK
<1>8. QED
  BY <1>1, <1>3, <1>4, <1>5, <1>6, <1>7 DEF Tear

LEMMA StepRefines ==
  ASSUME NvdsAssumption, IInv,
         Boot \/ Read \/ EraseDest \/ SetMagic \/ CopyField
           \/ \E f \in Fields, v \in Values : Set(f, v)
  PROVE  Abstract!Next \/ UNCHANGED Abstract!vars
<1> USE DEF NvdsAssumption, IInv
<1>1. CASE PowerOn
  BY <1>1 DEF PowerOn, Abstract!Next, Abstract!PowerOn, Readable, ValidSect, Uncommitted, flash
<1>2. CASE InitFound \/ InitWipe
  BY <1>2 DEF InitFound, InitWipe, Abstract!vars, Readable, ValidSect, Uncommitted, flash
<1>3. CASE WipeSector1 \/ WipeSector2 \/ WipeFlag
  <2>1. ~Readable /\ ~Readable' /\ pc # "off" /\ pc' # "off"
    BY <1>3 DEF WipeSector1, WipeSector2, WipeFlag, StartWrite, EraseSector, PhaseInv, Readable, TypeOK
  <2>2. QED
    BY <2>1 DEF Abstract!vars
<1>4. ASSUME NEW f \in Fields, NEW v \in Values, Set(f, v)
      PROVE  Abstract!Next
  <2>1. pc = "idle" /\ pc' = "erase" /\ call' = [field |-> f, value |-> v] /\ UNCHANGED flash
    BY <1>4 DEF Set, StartWrite
  <2>2. Readable /\ Record # None /\ Record' = Record
    BY <2>1, RecordType DEF PhaseInv, Record, Readable, ValidSect, flash
  <2>3. Call = NoCall /\ Call' = [field |-> f, value |-> v]
    BY <2>1, <2>2 DEF Call, Uncommitted, Readable, flash
  <2>4. Abstract!Begin(f, v)
    BY <2>1, <2>2, <2>3 DEF Abstract!Begin, Abstract!Unformatted, Record, Call, None
  <2>5. QED
    BY <2>4 DEF Abstract!Next
<1>5. CASE Read
  <2>1. UNCHANGED <<flash, writer>>
    BY <1>5 DEF Read, ReadBegin, IsSect1, IsSect2, IsDefault, ReadFields, ReadReturns, Goto
  <2>2. QED
    BY <2>1 DEF Abstract!vars, Readable, ValidSect, Uncommitted, flash, writer
<1>6. CASE EraseDest \/ SetMagic \/ CopyField
  <2>1. UNCHANGED <<flag, dest, call>> /\ pc \in Copying /\ pc' \in Copying
    BY <1>6 DEF EraseDest, EraseSector, SetMagic, CopyField
  <2>2. ValidSect' = ValidSect /\ dest # ValidSect /\ dest \in Sectors /\ ValidSect \in Sectors
    BY <2>1 DEF PhaseInv, TypeOK, Other, ValidSect
  <2>3. \A s \in Sectors : s # dest => data'[s] = data[s] /\ magic'[s] = magic[s]
    BY <1>6, <2>1 DEF EraseDest, EraseSector, SetMagic, CopyField, TypeOK
  <2>4. Readable' = Readable
    <3>1. CASE flag # 0
      BY <2>1, <3>1 DEF Readable
    <3>2. CASE flag = 0
      BY <2>1, <2>2, <2>3, <3>2 DEF Readable, ValidSect
    <3>3. QED
      BY <3>1, <3>2
  <2>5. QED
    BY <2>1, <2>2, <2>3, <2>4 DEF Abstract!vars, Uncommitted
<1>7. QED
  BY <1>1, <1>2, <1>3, <1>4, <1>5, <1>6 DEF Boot

(* A write is atomic with respect to power loss and durable when it        *)
(* returns: the two sectors and their flag implement a record whose fields *)
(* are replaced at once.                                                   *)
THEOREM AtomicWrites == Spec => WritesAreAtomic
<1> USE NvdsAssumption
<1>1. Init => Abstract!Init
  BY DEF Init, Abstract!Init, Abstract!Unformatted, Readable
<1>2. IInv /\ [Next]_vars => [Abstract!Next]_(Abstract!vars)
  <2> SUFFICES ASSUME IInv, [Next]_vars
               PROVE  Abstract!Next \/ UNCHANGED Abstract!vars
    OBVIOUS
  <2>1. CASE Next
    BY <2>1, StepRefines, EraseFlagRefines, SetFlagRefines, PowerLossRefines DEF Next, Write
  <2>2. CASE UNCHANGED vars
    BY <2>2 DEF vars, flash, writer, reading, Abstract!vars, Readable, ValidSect, Uncommitted
  <2>3. QED
    BY <2>1, <2>2
<1>3. QED
  BY <1>1, <1>2, Invariance, PTL DEF Spec, WritesAreAtomic, Abstract!Spec
=============================================================================
