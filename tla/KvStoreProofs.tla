---------------------------- MODULE KvStoreProofs ----------------------------
(***************************************************************************)
(* Theorems about KvStore, for every number of blocks, slots, keys and     *)
(* values: type correctness, the block table, the tags by which a boot     *)
(* finds an interrupted collection, and the reasons for which a set or a   *)
(* delete fails.                                                           *)
(***************************************************************************)
EXTENDS KvStore, FiniteSetTheorems, WellFoundedInduction, TLAPS

-----------------------------------------------------------------------------
(* The inductive invariant.                                                *)

BlockType == [magic : BOOLEAN, src : BOOLEAN, dst : BOOLEAN, done : BOOLEAN, items : Seq(Item)]
EntryType == [fresh : BOOLEAN, inuse : BOOLEAN, dirty : BOOLEAN, free : 0 .. Slots]
TableType == [blk : [Blocks -> EntryType], numFresh : Int, numInuse : 0 .. CounterSize - 1]
OpType == [key : Keys \cup {NoValue}, val : Values \cup {NoValue}, pos : {0} \cup Positions, item : Item]
GcType == [src : {0} \cup Blocks, dst : {0} \cup Blocks, next : 1 .. Slots + 1,
           for : {"none", "search", "locate", "init"}]
ScanType == [blk : 1 .. NumBlocks + 1, slot : 0 .. Slots + 1, srcs : SUBSET Blocks,
             dsts : SUBSET Blocks, fresh : {0} \cup Blocks]

WriteSteps == {"writeMagic", "writeBody"}
GcSteps == {"markSrc", "markDst", "copy", "formatSrc", "markDone"}
Steps == {"off", "scan", "formatDst", "locate", "rescued", "idle", "search", "fix", "writeHeader", "discard"}
           \cup WriteSteps \cup GcSteps

Typed ==
  /\ flash \in [Blocks -> BlockType]
  /\ \A b \in Blocks : Used(b) <= Slots
  /\ mgr \in TableType
  /\ workspace \in {0} \cup Blocks
  /\ pc \in Steps
  /\ op \in OpType /\ gc \in GcType /\ scan \in ScanType
  /\ result \in {"none", "ok", "failed"}

FreshIn(m) == {b \in Blocks : m.blk[b].fresh}
InuseIn(m) == {b \in Blocks : m.blk[b].inuse}
Counted(m) == m.numFresh = Cardinality(FreshIn(m))

(* The blocks a boot has not looked at, or a collection has taken from the *)
(* table: their entries do not describe them.                              *)
Unlisted ==
  CASE pc = "off" -> Blocks
    [] pc = "scan" -> {b \in Blocks : b >= scan.blk} \cup scan.srcs \cup scan.dsts
    [] pc = "formatDst" -> {gc.src, gc.dst}
    [] pc \in {"markDst", "copy"} /\ gc.for = "init" -> {gc.src}
    [] pc = "formatSrc" -> {gc.src}
    [] OTHER -> {}

(* The block being written or copied to, ahead of its entry by this much.  *)
Filling(b) == (pc \in WriteSteps /\ b = workspace) \/ (pc \in {"copy", "formatSrc", "markDone"} /\ b = gc.dst)
Ahead(b) ==
  IF b # workspace THEN 0
  ELSE CASE pc = "writeMagic" -> 1 [] pc = "writeBody" -> SizeOf(op.val) [] OTHER -> 0

Describes(e, b) ==
  /\ Used(b) + e.free = Slots
  /\ e.fresh => Used(b) = 0
  /\ e.inuse <=> ~e.fresh /\ e.free > 0
  /\ e.dirty => ~e.fresh
  /\ Garbage(b) # {} => e.dirty

EntryOK(b) ==
  LET e == mgr.blk[b] IN
  /\ Used(b) + e.free = Slots + Ahead(b)
  /\ e.fresh => Used(b) = 0 \/ Filling(b)
  /\ e.inuse <=> ~e.fresh /\ e.free > 0
  /\ e.dirty => ~e.fresh
  /\ Garbage(b) # {} => e.dirty

TableInv ==
  /\ Counted(mgr)
  /\ \A b \in Blocks \ Unlisted : EntryOK(b)
  /\ pc \in {"scan", "formatDst"} => \A b \in Unlisted : ~mgr.blk[b].fresh /\ ~mgr.blk[b].inuse
  /\ pc = "off" => \A b \in Blocks : mgr.blk[b] = NoFlags

(* The tags a collection leaves behind.                                    *)
SrcBlocks == {b \in Blocks : IsSrc(b)}
DstBlocks == {b \in Blocks : IsDstNotDone(b)}

Mendable ==
  /\ \A b, c \in SrcBlocks : b = c
  /\ \A b, c \in DstBlocks : b = c
  /\ SrcBlocks \cap DstBlocks = {}
  /\ DstBlocks # {} => SrcBlocks # {}
  /\ SrcBlocks # {} /\ DstBlocks = {} => \E b \in Blocks \ SrcBlocks : Used(b) = 0

TagsInv ==
  /\ \A b \in Blocks : ~flash[b].magic => flash[b] = Erased /\ b \in Unlisted
  /\ pc \in {"off", "scan"} => Mendable
  /\ pc \in {"formatDst", "markDst", "copy"} => SrcBlocks = {gc.src}
  /\ pc \in {"formatDst", "markDst"} => DstBlocks = {}
  /\ pc \in {"copy", "formatSrc", "markDone"} => DstBlocks \subseteq {gc.dst} /\ flash[gc.dst].dst
  /\ pc \in {"formatSrc", "markDone"} => SrcBlocks = {}
  /\ pc \notin {"off", "scan", "formatDst", "markDst", "copy", "formatSrc", "markDone"} =>
       SrcBlocks = {} /\ DstBlocks = {}

ScanInv ==
  /\ pc # "scan" => scan = NoScan
  /\ pc = "scan" =>
       /\ scan.srcs = {b \in SrcBlocks : b < scan.blk}
       /\ scan.dsts = {b \in DstBlocks : b < scan.blk}
       /\ scan.fresh # 0 => scan.fresh < scan.blk /\ mgr.blk[scan.fresh].fresh
       /\ \A b \in Blocks \ Unlisted : Used(b) = 0 => mgr.blk[b].fresh /\ scan.fresh # 0
       /\ scan.slot # 0 =>
            /\ scan.blk \in Blocks \ (SrcBlocks \cup DstBlocks) /\ flash[scan.blk].magic
            /\ \A s \in Garbage(scan.blk) : s < scan.slot => mgr.blk[scan.blk].dirty

(* The live items of the block being collected that are already copied.    *)
CopiedSoFar ==
  \A s \in 1 .. Used(gc.src) : s < gc.next /\ flash[gc.src].items[s].state = "live" =>
    \E t \in 1 .. Used(gc.dst) : flash[gc.dst].items[t] = flash[gc.src].items[s]

GcInv ==
  /\ pc \in GcSteps \cup {"formatDst"} =>
       /\ gc.src \in Blocks /\ gc.dst \in Blocks /\ gc.src # gc.dst
       /\ gc.for # "none" /\ (pc = "formatDst" => gc.for = "init")
  /\ pc \in GcSteps => mgr.blk[gc.dst].fresh
  /\ pc \in {"markSrc", "markDst", "formatDst"} => gc.next = 1 /\ Used(gc.dst) = 0
  /\ pc = "formatDst" => flash[gc.dst] = Erased
  /\ pc = "copy" => Used(gc.dst) < gc.next /\ CopiedSoFar
  /\ pc \in GcSteps => gc.for # "init" \/ pc # "markSrc"
  /\ pc \in GcSteps /\ gc.for # "init" /\ pc \in {"markSrc", "markDst", "copy"} => ~mgr.blk[gc.src].fresh
  /\ pc = "formatSrc" => flash[gc.src] = Erased
  /\ (pc \in {"markSrc", "markDst", "copy"} /\ gc.for # "search") \/ pc = "formatSrc" => ~mgr.blk[gc.src].inuse

(* The call being served.                                                  *)
InCall == pc \in {"search", "fix", "writeHeader", "writeMagic", "writeBody", "discard"}
            \/ (pc \in GcSteps /\ gc.for = "search")

WithValue(b, s) ==
  /\ flash[b].items[s].state = "live"
  /\ flash[b].items[s].key = op.item.key /\ flash[b].items[s].val = op.item.val

ReplacedIsThere ==
  \E b \in Blocks : \E s \in 1 .. Used(b) :
    WithValue(b, s) /\ (~mgr.blk[b].fresh \/ (pc \in GcSteps /\ b = gc.dst))

OpInv ==
  /\ pc # "idle" => result = "none"
  /\ InCall /\ pc # "discard" => op.key \in Keys /\ op.val \in Values
  /\ ~InCall => op = NoOp
  /\ (pc \in {"search", "fix"} \/ (pc \in GcSteps /\ gc.for = "search")) /\ op.pos # 0 => ReplacedIsThere
  /\ pc \in {"writeHeader", "writeMagic", "writeBody", "discard"} /\ op.pos # 0 =>
       op.pos \in Written /\ ~mgr.blk[BlockOf(op.pos)].fresh
  /\ pc = "discard" => op.pos # 0

WriteInv ==
  /\ pc \in {"fix", "writeHeader", "writeMagic", "writeBody"} =>
       workspace \in Blocks /\ mgr.blk[workspace].free >= SizeOf(op.val)
  /\ pc = "writeMagic" => flash[workspace].items[Used(workspace)] = Broken("torn")
  /\ pc = "writeBody" =>
       /\ flash[workspace].items[Used(workspace) - SizeOf(op.val) + 1] = Broken("partial")
       /\ SizeOf(op.val) = 2 => flash[workspace].items[Used(workspace)] = Broken("rest")

(* A boot counts the blocks in use; later the count may drift.             *)
Booting == pc \in {"off", "scan", "formatDst", "locate", "rescued"}
             \/ (pc \in GcSteps /\ gc.for \in {"init", "locate"})

SpareInv ==
  /\ Booting => mgr.numInuse = Cardinality(InuseIn(mgr)) /\ workspace = 0
  /\ ~Booting /\ workspace = 0 => FreshIn(mgr) = {} /\ InuseIn(mgr) = {}

IInv == Typed /\ TableInv /\ TagsInv /\ ScanInv /\ GcInv /\ OpInv /\ WriteInv /\ SpareInv
-----------------------------------------------------------------------------
(* The smallest element of a set of numbers, and the largest one.          *)
LEMMA LeastNat ==
  ASSUME NEW T \in SUBSET Nat, T # {}
  PROVE  \E x \in T : \A y \in T : x <= y
<1> DEFINE R == OpToRel(<, Nat)
<1>1. IsWellFoundedOn(R, Nat)
  BY NatLessThanWellFounded
<1>2. \A y \in T : \A x \in T : y < x => <<y, x>> \in R
  BY DEF OpToRel
<1> HIDE DEF R
<1>3. PICK x \in T : \A y \in T : ~(<<y, x>> \in R)
  BY <1>1, WFMin
<1>4. \A y \in T : ~(y < x)
  BY <1>2, <1>3
<1>5. \A y \in T : x <= y
  <2> TAKE y \in T
  <2>1. x \in Nat /\ y \in Nat
    OBVIOUS
  <2>2. QED
    BY <1>4, <2>1
<1>6. QED
  BY <1>3, <1>5

LEMMA MinNat ==
  ASSUME NEW T \in SUBSET Nat, T # {}
  PROVE  Min(T) \in T /\ Min(T) \in Nat /\ \A y \in T : Min(T) <= y
<1>1. \E x \in T : \A y \in T : x <= y
  BY LeastNat
<1>2. Min(T) \in T /\ \A y \in T : Min(T) <= y
  BY <1>1, Zenon DEF Min
<1>3. \A y \in T : y \in Nat
  OBVIOUS
<1>4. QED
  BY <1>2, <1>3, Zenon

LEMMA MaxNat ==
  ASSUME NEW n \in Nat, NEW T \in SUBSET (0..n), T # {}
  PROVE  Max(T) \in T /\ Max(T) \in Nat /\ \A y \in T : Max(T) >= y
<1> DEFINE D == {n - y : y \in T}
<1>1. D \in SUBSET Nat /\ D # {}
  <2>1. PICK y \in T : TRUE
    OBVIOUS
  <2>2. n - y \in D
    BY <2>1
  <2>3. D \in SUBSET Nat
    OBVIOUS
  <2>4. QED
    BY <2>2, <2>3
<1>2. PICK d \in D : \A e \in D : d <= e
  BY <1>1, LeastNat
<1>3. PICK x \in T : d = n - x
  BY <1>2
<1>4. \A y \in T : x >= y
  <2> TAKE y \in T
  <2>1. n - y \in D /\ x \in 0..n /\ y \in 0..n
    OBVIOUS
  <2>2. n - x <= n - y
    BY <1>2, <1>3, <2>1
  <2>3. QED
    BY <2>1, <2>2
<1>5. \E z \in T : \A y \in T : z >= y
  BY <1>4
<1>6. Max(T) \in T /\ \A y \in T : Max(T) >= y
  BY <1>5, Zenon DEF Max
<1>7. \A y \in T : y \in Nat
  OBVIOUS
<1>8. QED
  BY <1>6, <1>7, Zenon

(* Positions.                                                              *)
LEMMA Division ==
  ASSUME NEW n \in Nat \ {0}, NEW k \in Nat, NEW r \in 0 .. n - 1
  PROVE  (k * n + r) \div n = k /\ (k * n + r) % n = r
OBVIOUS

LEMMA Quotient ==
  ASSUME NEW n \in Nat \ {0}, NEW p \in Nat
  PROVE  p \div n \in Nat /\ p % n \in 0 .. n - 1 /\ p = (p \div n) * n + (p % n)
<1>1. p \div n \in Nat
  OBVIOUS
<1>2. p % n \in 0 .. n - 1
  OBVIOUS
<1>3. p = (p \div n) * n + (p % n)
  OBVIOUS
<1>4. QED
  BY <1>1, <1>2, <1>3

LEMMA QuotientBound ==
  ASSUME NEW n \in Nat \ {0}, NEW m \in Nat, NEW p \in Nat, p < m * n
  PROVE  p \div n < m
OBVIOUS

LEMMA PosFacts ==
  ASSUME NEW b \in Blocks, NEW s \in 1 .. Slots
  PROVE  PosOf(b, s) \in Positions /\ BlockOf(PosOf(b, s)) = b /\ SlotOf(PosOf(b, s)) = s
<1> DEFINE k == b - 1
           r == s - 1
<1>1. /\ Slots \in Nat \ {0} /\ NumBlocks \in Nat /\ k \in Nat /\ k < NumBlocks /\ r \in 0 .. Slots - 1
      /\ b = k + 1 /\ s = r + 1
  BY KvAssumption DEF KvAssumption, Blocks
<1> HIDE DEF k, r
<1>2. (k * Slots + r) \div Slots = k /\ (k * Slots + r) % Slots = r
  BY <1>1, Division
<1>3. k * Slots \in Nat /\ k * Slots + r < NumBlocks * Slots
  BY <1>1
<1>4. PosOf(b, s) = k * Slots + r + 1 /\ PosOf(b, s) - 1 = k * Slots + r
  BY <1>1, <1>3 DEF PosOf
<1>5. PosOf(b, s) \in Positions
  BY <1>1, <1>3, <1>4 DEF Positions
<1>6. QED
  BY <1>1, <1>2, <1>4, <1>5 DEF BlockOf, SlotOf

LEMMA PosInverse ==
  ASSUME NEW p \in Positions
  PROVE  BlockOf(p) \in Blocks /\ SlotOf(p) \in 1 .. Slots /\ p = PosOf(BlockOf(p), SlotOf(p))
<1> DEFINE n == p - 1
<1>1. Slots \in Nat \ {0} /\ NumBlocks \in Nat /\ n \in Nat /\ n < NumBlocks * Slots /\ p = n + 1
  BY KvAssumption DEF KvAssumption, Positions
<1> HIDE DEF n
<1>2. n \div Slots \in Nat /\ n % Slots \in 0 .. Slots - 1 /\ n = (n \div Slots) * Slots + (n % Slots)
  BY <1>1, Quotient, Zenon
<1>3. n \div Slots < NumBlocks
  BY <1>1, QuotientBound
<1>4. BlockOf(p) = n \div Slots + 1 /\ SlotOf(p) = (n % Slots) + 1
  BY <1>1 DEF BlockOf, SlotOf
<1>5. BlockOf(p) \in Blocks /\ SlotOf(p) \in 1 .. Slots
  BY <1>1, <1>2, <1>3, <1>4 DEF Blocks
<1>6. BlockOf(p) - 1 = n \div Slots /\ SlotOf(p) = (n % Slots) + 1
  BY <1>2, <1>4
<1>7. p = PosOf(BlockOf(p), SlotOf(p))
  <2>1. PosOf(BlockOf(p), SlotOf(p)) = (n \div Slots) * Slots + ((n % Slots) + 1)
    BY <1>6 DEF PosOf
  <2>2. (n \div Slots) * Slots \in Int /\ n % Slots \in Int
    BY <1>1, <1>2
  <2>3. QED
    BY <1>1, <1>2, <2>1, <2>2
<1>8. QED
  BY <1>5, <1>7

-----------------------------------------------------------------------------
(* The operators of the block table.                                       *)
LEMMA BlocksFinite ==
  ASSUME NEW T \in SUBSET Blocks
  PROVE  IsFiniteSet(T) /\ Cardinality(T) \in 0 .. NumBlocks
<1>1. NumBlocks \in Nat \ {0}
  BY KvAssumption DEF KvAssumption
<1>2. IsFiniteSet(Blocks) /\ Cardinality(Blocks) = NumBlocks
  BY <1>1, FS_Interval DEF Blocks
<1>3. IsFiniteSet(T) /\ Cardinality(T) \in Nat /\ Cardinality(T) <= NumBlocks
  BY <1>2, FS_Subset, FS_CardinalityType
<1>4. QED
  BY <1>1, <1>3

LEMMA FreshCount ==
  ASSUME NEW m \in TableType
  PROVE  /\ IsFiniteSet(FreshIn(m)) /\ Cardinality(FreshIn(m)) \in 0 .. NumBlocks
         /\ IsFiniteSet(InuseIn(m)) /\ Cardinality(InuseIn(m)) \in 0 .. NumBlocks
BY BlocksFinite DEF FreshIn, InuseIn

(* What every operator keeps: the type of the table, the entries of the    *)
(* other blocks, and the count of the fresh blocks.                        *)
Changes(n, m, b) ==
  /\ n \in TableType
  /\ \A c \in Blocks \ {b} : n.blk[c] = m.blk[c]
  /\ Counted(m) => Counted(n)

Fields(e, fresh, inuse, dirty, free) ==
  (e.fresh <=> fresh) /\ (e.inuse <=> inuse) /\ (e.dirty <=> dirty) /\ e.free = free

InuseCounted(m) == m.numInuse = Cardinality(InuseIn(m))

LEMMA PutEntry ==
  ASSUME NEW m \in TableType, NEW b \in Blocks, NEW e \in EntryType
  PROVE  /\ [m EXCEPT !.blk[b] = e] \in TableType
         /\ [m EXCEPT !.blk[b] = e].blk = [m.blk EXCEPT ![b] = e]
         /\ [m EXCEPT !.blk[b] = e].numFresh = m.numFresh
         /\ [m EXCEPT !.blk[b] = e].numInuse = m.numInuse
BY DEF TableType

LEMMA PutNumFresh ==
  ASSUME NEW m \in TableType, NEW x \in Int
  PROVE  /\ [m EXCEPT !.numFresh = x] \in TableType
         /\ [m EXCEPT !.numFresh = x].blk = m.blk
         /\ [m EXCEPT !.numFresh = x].numFresh = x
         /\ [m EXCEPT !.numFresh = x].numInuse = m.numInuse
BY DEF TableType

LEMMA PutNumInuse ==
  ASSUME NEW m \in TableType, NEW x \in 0 .. CounterSize - 1
  PROVE  /\ [m EXCEPT !.numInuse = x] \in TableType
         /\ [m EXCEPT !.numInuse = x].blk = m.blk
         /\ [m EXCEPT !.numInuse = x].numFresh = m.numFresh
         /\ [m EXCEPT !.numInuse = x].numInuse = x
BY DEF TableType

(* One entry replaced by another one: the two sets and their sizes.        *)
LEMMA EntryReplaced ==
  ASSUME NEW m \in TableType, NEW n \in TableType, NEW b \in Blocks, NEW e \in EntryType,
         n.blk = [m.blk EXCEPT ![b] = e]
  PROVE  /\ n.blk[b] = e /\ \A c \in Blocks \ {b} : n.blk[c] = m.blk[c]
         /\ Cardinality(FreshIn(n)) = CASE e.fresh /\ ~m.blk[b].fresh -> Cardinality(FreshIn(m)) + 1
                                        [] ~e.fresh /\ m.blk[b].fresh -> Cardinality(FreshIn(m)) - 1
                                        [] OTHER -> Cardinality(FreshIn(m))
         /\ Cardinality(InuseIn(n)) = CASE e.inuse /\ ~m.blk[b].inuse -> Cardinality(InuseIn(m)) + 1
                                        [] ~e.inuse /\ m.blk[b].inuse -> Cardinality(InuseIn(m)) - 1
                                        [] OTHER -> Cardinality(InuseIn(m))
<1>1. m.blk \in [Blocks -> EntryType]
  BY DEF TableType
<1>2. n.blk[b] = e /\ \A c \in Blocks \ {b} : n.blk[c] = m.blk[c]
  BY <1>1
<1>3. FreshIn(n) = IF e.fresh THEN FreshIn(m) \cup {b} ELSE FreshIn(m) \ {b}
  BY <1>2 DEF FreshIn
<1>4. InuseIn(n) = IF e.inuse THEN InuseIn(m) \cup {b} ELSE InuseIn(m) \ {b}
  BY <1>2 DEF InuseIn
<1>5. (b \in FreshIn(m) <=> m.blk[b].fresh) /\ (b \in InuseIn(m) <=> m.blk[b].inuse)
  BY DEF FreshIn, InuseIn
<1>6. /\ IsFiniteSet(FreshIn(m)) /\ Cardinality(FreshIn(m)) \in Nat
      /\ IsFiniteSet(InuseIn(m)) /\ Cardinality(InuseIn(m)) \in Nat
  BY FreshCount
<1>7. ASSUME NEW T, IsFiniteSet(T), Cardinality(T) \in Nat
      PROVE  /\ Cardinality(T \cup {b}) = IF b \in T THEN Cardinality(T) ELSE Cardinality(T) + 1
             /\ Cardinality(T \ {b}) = IF b \in T THEN Cardinality(T) - 1 ELSE Cardinality(T)
  BY <1>7, FS_AddElement, FS_RemoveElement
<1>8. /\ Cardinality(FreshIn(m) \cup {b}) = IF b \in FreshIn(m) THEN Cardinality(FreshIn(m)) ELSE Cardinality(FreshIn(m)) + 1
      /\ Cardinality(FreshIn(m) \ {b}) = IF b \in FreshIn(m) THEN Cardinality(FreshIn(m)) - 1 ELSE Cardinality(FreshIn(m))
  BY <1>6, <1>7
<1>9. /\ Cardinality(InuseIn(m) \cup {b}) = IF b \in InuseIn(m) THEN Cardinality(InuseIn(m)) ELSE Cardinality(InuseIn(m)) + 1
      /\ Cardinality(InuseIn(m) \ {b}) = IF b \in InuseIn(m) THEN Cardinality(InuseIn(m)) - 1 ELSE Cardinality(InuseIn(m))
  BY <1>6, <1>7
<1>10. e.fresh \in BOOLEAN /\ e.inuse \in BOOLEAN /\ m.blk[b].fresh \in BOOLEAN /\ m.blk[b].inuse \in BOOLEAN
  BY <1>1 DEF EntryType
<1>11. QED
  BY <1>2, <1>3, <1>4, <1>5, <1>8, <1>9, <1>10

LEMMA Remainder ==
  ASSUME NEW n \in Nat \ {0}, NEW x \in Int
  PROVE  x % n \in 0 .. n - 1 /\ (x \in 0 .. n - 1 => x % n = x)
OBVIOUS

LEMMA SetFreshFacts ==
  ASSUME NEW m \in TableType, NEW b \in Blocks
  PROVE  LET n == SetFresh(m, b) IN
         /\ Changes(n, m, b) /\ Fields(n.blk[b], TRUE, FALSE, FALSE, Slots)
         /\ n.numInuse = m.numInuse
         /\ InuseCounted(m) /\ ~m.blk[b].inuse => InuseCounted(n)
<1> DEFINE n == SetFresh(m, b)
           e == [fresh |-> TRUE, inuse |-> FALSE, dirty |-> FALSE, free |-> Slots]
           x == IF m.blk[b].fresh THEN m.numFresh ELSE m.numFresh + 1
           n1 == [m EXCEPT !.numFresh = x]
<1>1. m.blk \in [Blocks -> EntryType] /\ m.numFresh \in Int
  BY DEF TableType
<1>2. e \in EntryType
  BY KvAssumption DEF EntryType, KvAssumption
<1>3. n = [n1 EXCEPT !.blk[b] = e]
  BY Zenon DEF SetFresh
<1>4. x \in Int
  BY <1>1
<1>5. n1 \in TableType /\ n1.blk = m.blk /\ n1.numFresh = x /\ n1.numInuse = m.numInuse
  <2> HIDE DEF x
  <2>1. QED
    BY <1>4, PutNumFresh
<1>6. /\ n \in TableType /\ n.blk = [m.blk EXCEPT ![b] = e]
      /\ n.numFresh = x /\ n.numInuse = m.numInuse
  <2> HIDE DEF n, n1, e, x
  <2>1. QED
    BY <1>2, <1>3, <1>5, PutEntry
<1>7. e.fresh = TRUE /\ e.inuse = FALSE /\ e.dirty = FALSE /\ e.free = Slots
  OBVIOUS
<1> HIDE DEF n, n1, e
<1>8. /\ n.blk[b] = e /\ \A c \in Blocks \ {b} : n.blk[c] = m.blk[c]
      /\ Cardinality(FreshIn(n)) = IF m.blk[b].fresh THEN Cardinality(FreshIn(m)) ELSE Cardinality(FreshIn(m)) + 1
      /\ ~m.blk[b].inuse => Cardinality(InuseIn(n)) = Cardinality(InuseIn(m))
  BY <1>1, <1>2, <1>6, <1>7, EntryReplaced DEF EntryType
<1>9. QED
  BY <1>6, <1>7, <1>8 DEF Changes, Fields, Counted, InuseCounted, n

LEMMA ResetFreshFacts ==
  ASSUME NEW m \in TableType, NEW b \in Blocks
  PROVE  LET n == ResetFresh(m, b) IN
         /\ Changes(n, m, b)
         /\ Fields(n.blk[b], FALSE, m.blk[b].inuse, m.blk[b].dirty, m.blk[b].free)
         /\ n.numInuse = m.numInuse
         /\ InuseCounted(m) => InuseCounted(n)
<1> DEFINE n == ResetFresh(m, b)
           e == [m.blk[b] EXCEPT !.fresh = FALSE]
           x == IF m.blk[b].fresh THEN m.numFresh - 1 ELSE m.numFresh
           n1 == [m EXCEPT !.numFresh = x]
<1>1. m.blk \in [Blocks -> EntryType] /\ m.numFresh \in Int
  BY DEF TableType
<1>2. e \in EntryType /\ Fields(e, FALSE, m.blk[b].inuse, m.blk[b].dirty, m.blk[b].free)
  BY <1>1 DEF EntryType, Fields
<1>3. n = [n1 EXCEPT !.blk[b].fresh = FALSE]
  BY Zenon DEF ResetFresh
<1>4. x \in Int
  BY <1>1
<1>5. n1 \in TableType /\ n1.blk = m.blk /\ n1.numFresh = x /\ n1.numInuse = m.numInuse
  <2> HIDE DEF x
  <2>1. QED
    BY <1>4, PutNumFresh
<1>6. n = [n1 EXCEPT !.blk[b] = e]
  <2> HIDE DEF n, n1
  <2>1. n = [n1 EXCEPT !.blk[b] = [n1.blk[b] EXCEPT !.fresh = FALSE]]
    BY <1>3, Zenon
  <2>2. QED
    BY <2>1, <1>5, Zenon
<1>7. /\ n \in TableType /\ n.blk = [m.blk EXCEPT ![b] = e]
      /\ n.numFresh = x /\ n.numInuse = m.numInuse
  <2> HIDE DEF n, n1, e, x
  <2>1. QED
    BY <1>2, <1>6, <1>5, PutEntry
<1> HIDE DEF n, n1, e
<1>8. /\ n.blk[b] = e /\ \A c \in Blocks \ {b} : n.blk[c] = m.blk[c]
      /\ Cardinality(FreshIn(n)) = IF m.blk[b].fresh THEN Cardinality(FreshIn(m)) - 1 ELSE Cardinality(FreshIn(m))
      /\ Cardinality(InuseIn(n)) = Cardinality(InuseIn(m))
  BY <1>1, <1>2, <1>7, EntryReplaced DEF Fields, EntryType
<1>9. QED
  BY <1>2, <1>7, <1>8 DEF Changes, Counted, InuseCounted, n

LEMMA SetInuseFacts ==
  ASSUME NEW m \in TableType, NEW b \in Blocks
  PROVE  LET n == SetInuse(m, b) IN
         /\ Changes(n, m, b)
         /\ Fields(n.blk[b], m.blk[b].fresh, TRUE, m.blk[b].dirty, m.blk[b].free)
         /\ InuseCounted(m) => InuseCounted(n)
<1> DEFINE n == SetInuse(m, b)
           e == [m.blk[b] EXCEPT !.inuse = TRUE]
           x == IF m.blk[b].inuse THEN m.numInuse ELSE (m.numInuse + 1) % CounterSize
           n1 == [m EXCEPT !.numInuse = x]
<1>1. /\ m.blk \in [Blocks -> EntryType] /\ m.numInuse \in 0 .. CounterSize - 1
      /\ CounterSize \in Nat \ {0} /\ NumBlocks \in Nat /\ NumBlocks < CounterSize
  BY KvAssumption DEF TableType, KvAssumption
<1>2. e \in EntryType /\ Fields(e, m.blk[b].fresh, TRUE, m.blk[b].dirty, m.blk[b].free)
  BY <1>1 DEF EntryType, Fields
<1>3. n = [n1 EXCEPT !.blk[b].inuse = TRUE]
  BY Zenon DEF SetInuse
<1>4. x \in 0 .. CounterSize - 1
  <2>1. CounterSize \in Nat \ {0} /\ m.numInuse + 1 \in Int
    BY <1>1
  <2>2. (m.numInuse + 1) % CounterSize \in 0 .. CounterSize - 1
    BY <2>1, Remainder, Zenon
  <2>3. QED
    BY <1>1, <2>2
<1>5. n1 \in TableType /\ n1.blk = m.blk /\ n1.numFresh = m.numFresh /\ n1.numInuse = x
  <2> HIDE DEF x
  <2>1. QED
    BY <1>4, PutNumInuse
<1>6. n = [n1 EXCEPT !.blk[b] = e]
  <2> HIDE DEF n, n1
  <2>1. n = [n1 EXCEPT !.blk[b] = [n1.blk[b] EXCEPT !.inuse = TRUE]]
    BY <1>3, Zenon
  <2>2. QED
    BY <2>1, <1>5, Zenon
<1>7. /\ n \in TableType /\ n.blk = [m.blk EXCEPT ![b] = e]
      /\ n.numFresh = m.numFresh /\ n.numInuse = x
  <2> HIDE DEF n, n1, e, x
  <2>1. QED
    BY <1>2, <1>6, <1>5, PutEntry
<1> HIDE DEF n, n1, e
<1>8. /\ n.blk[b] = e /\ \A c \in Blocks \ {b} : n.blk[c] = m.blk[c]
      /\ Cardinality(FreshIn(n)) = Cardinality(FreshIn(m))
      /\ Cardinality(InuseIn(n)) = IF m.blk[b].inuse THEN Cardinality(InuseIn(m)) ELSE Cardinality(InuseIn(m)) + 1
  BY <1>1, <1>2, <1>7, EntryReplaced DEF Fields, EntryType
<1>9. Cardinality(InuseIn(n)) \in 0 .. NumBlocks /\ Cardinality(InuseIn(m)) \in 0 .. NumBlocks
  BY <1>7, FreshCount
<1>10. InuseCounted(m) => InuseCounted(n)
  <2>1. CASE m.blk[b].inuse
    BY <1>7, <1>8, <2>1 DEF InuseCounted, x
  <2>2. CASE ~m.blk[b].inuse
    <3>1. SUFFICES ASSUME InuseCounted(m) PROVE InuseCounted(n)
      OBVIOUS
    <3>2. m.numInuse + 1 = Cardinality(InuseIn(n)) /\ m.numInuse + 1 \in 0 .. CounterSize - 1
      BY <1>1, <1>8, <1>9, <2>2, <3>1 DEF InuseCounted
    <3>3. CounterSize \in Nat \ {0} /\ m.numInuse + 1 \in Int
      BY <1>1
    <3>4. (m.numInuse + 1) % CounterSize = m.numInuse + 1
      BY <3>2, <3>3, Remainder, Zenon
    <3>5. QED
      BY <1>7, <2>2, <3>2, <3>4 DEF InuseCounted, x
  <2>3. QED
    BY <2>1, <2>2
<1>11. QED
  BY <1>2, <1>7, <1>8, <1>10 DEF Changes, Counted, n

LEMMA ResetInuseFacts ==
  ASSUME NEW m \in TableType, NEW b \in Blocks
  PROVE  LET n == ResetInuse(m, b) IN
         /\ Changes(n, m, b)
         /\ Fields(n.blk[b], m.blk[b].fresh, FALSE, m.blk[b].dirty, m.blk[b].free)
         /\ InuseCounted(m) => InuseCounted(n)
<1> DEFINE n == ResetInuse(m, b)
           e == [m.blk[b] EXCEPT !.inuse = FALSE]
           x == IF m.blk[b].inuse THEN (m.numInuse - 1) % CounterSize ELSE m.numInuse
           n1 == [m EXCEPT !.numInuse = x]
<1>1. /\ m.blk \in [Blocks -> EntryType] /\ m.numInuse \in 0 .. CounterSize - 1
      /\ CounterSize \in Nat \ {0} /\ NumBlocks \in Nat /\ NumBlocks < CounterSize
  BY KvAssumption DEF TableType, KvAssumption
<1>2. e \in EntryType /\ Fields(e, m.blk[b].fresh, FALSE, m.blk[b].dirty, m.blk[b].free)
  BY <1>1 DEF EntryType, Fields
<1>3. n = [n1 EXCEPT !.blk[b].inuse = FALSE]
  BY Zenon DEF ResetInuse
<1>4. x \in 0 .. CounterSize - 1
  <2>1. CounterSize \in Nat \ {0} /\ m.numInuse - 1 \in Int
    BY <1>1
  <2>2. (m.numInuse - 1) % CounterSize \in 0 .. CounterSize - 1
    BY <2>1, Remainder, Zenon
  <2>3. QED
    BY <1>1, <2>2
<1>5. n1 \in TableType /\ n1.blk = m.blk /\ n1.numFresh = m.numFresh /\ n1.numInuse = x
  <2> HIDE DEF x
  <2>1. QED
    BY <1>4, PutNumInuse
<1>6. n = [n1 EXCEPT !.blk[b] = e]
  <2> HIDE DEF n, n1
  <2>1. n = [n1 EXCEPT !.blk[b] = [n1.blk[b] EXCEPT !.inuse = FALSE]]
    BY <1>3, Zenon
  <2>2. QED
    BY <2>1, <1>5, Zenon
<1>7. /\ n \in TableType /\ n.blk = [m.blk EXCEPT ![b] = e]
      /\ n.numFresh = m.numFresh /\ n.numInuse = x
  <2> HIDE DEF n, n1, e, x
  <2>1. QED
    BY <1>2, <1>6, <1>5, PutEntry
<1> HIDE DEF n, n1, e
<1>8. /\ n.blk[b] = e /\ \A c \in Blocks \ {b} : n.blk[c] = m.blk[c]
      /\ Cardinality(FreshIn(n)) = Cardinality(FreshIn(m))
      /\ Cardinality(InuseIn(n)) = IF m.blk[b].inuse THEN Cardinality(InuseIn(m)) - 1 ELSE Cardinality(InuseIn(m))
  BY <1>1, <1>2, <1>7, EntryReplaced DEF Fields, EntryType
<1>9. Cardinality(InuseIn(n)) \in 0 .. NumBlocks /\ Cardinality(InuseIn(m)) \in 0 .. NumBlocks
  BY <1>7, FreshCount
<1>10. InuseCounted(m) => InuseCounted(n)
  <2>1. CASE ~m.blk[b].inuse
    BY <1>7, <1>8, <2>1 DEF InuseCounted, x
  <2>2. CASE m.blk[b].inuse
    <3>1. SUFFICES ASSUME InuseCounted(m) PROVE InuseCounted(n)
      OBVIOUS
    <3>2. m.numInuse - 1 = Cardinality(InuseIn(n)) /\ m.numInuse - 1 \in 0 .. CounterSize - 1
      BY <1>1, <1>8, <1>9, <2>2, <3>1 DEF InuseCounted
    <3>3. CounterSize \in Nat \ {0} /\ m.numInuse - 1 \in Int
      BY <1>1
    <3>4. (m.numInuse - 1) % CounterSize = m.numInuse - 1
      BY <3>2, <3>3, Remainder, Zenon
    <3>5. QED
      BY <1>7, <2>2, <3>2, <3>4 DEF InuseCounted, x
  <2>3. QED
    BY <2>1, <2>2
<1>11. QED
  BY <1>2, <1>7, <1>8, <1>10 DEF Changes, Counted, n

LEMMA SetDirtyFacts ==
  ASSUME NEW m \in TableType, NEW b \in Blocks
  PROVE  LET n == SetDirty(m, b) IN
         /\ Changes(n, m, b)
         /\ Fields(n.blk[b], m.blk[b].fresh, m.blk[b].inuse, TRUE, m.blk[b].free)
         /\ n.numInuse = m.numInuse
         /\ InuseCounted(m) => InuseCounted(n)
<1> DEFINE n == SetDirty(m, b)
           e == [m.blk[b] EXCEPT !.dirty = TRUE]
<1>1. m.blk \in [Blocks -> EntryType]
  BY DEF TableType
<1>2. e \in EntryType /\ Fields(e, m.blk[b].fresh, m.blk[b].inuse, TRUE, m.blk[b].free)
  BY <1>1 DEF EntryType, Fields
<1>3. n = [m EXCEPT !.blk[b] = e]
  BY Zenon DEF SetDirty
<1>4. /\ n \in TableType /\ n.blk = [m.blk EXCEPT ![b] = e]
      /\ n.numFresh = m.numFresh /\ n.numInuse = m.numInuse
  <2> HIDE DEF n, e
  <2>1. QED
    BY <1>2, <1>3, PutEntry
<1> HIDE DEF n, e
<1>5. /\ n.blk[b] = e /\ \A c \in Blocks \ {b} : n.blk[c] = m.blk[c]
      /\ Cardinality(FreshIn(n)) = Cardinality(FreshIn(m))
      /\ Cardinality(InuseIn(n)) = Cardinality(InuseIn(m))
  BY <1>1, <1>2, <1>4, EntryReplaced DEF Fields, EntryType
<1>6. QED
  BY <1>2, <1>4, <1>5 DEF Changes, Counted, InuseCounted, n

LEMMA SetFreeFacts ==
  ASSUME NEW m \in TableType, NEW b \in Blocks, NEW f \in 0 .. Slots
  PROVE  LET n == SetFree(m, b, f) IN
         /\ Changes(n, m, b)
         /\ Fields(n.blk[b], m.blk[b].fresh, m.blk[b].inuse, m.blk[b].dirty, f)
         /\ n.numInuse = m.numInuse
         /\ InuseCounted(m) => InuseCounted(n)
<1> DEFINE n == SetFree(m, b, f)
           e == [m.blk[b] EXCEPT !.free = f]
<1>1. m.blk \in [Blocks -> EntryType]
  BY DEF TableType
<1>2. e \in EntryType /\ Fields(e, m.blk[b].fresh, m.blk[b].inuse, m.blk[b].dirty, f)
  BY <1>1 DEF EntryType, Fields
<1>3. n = [m EXCEPT !.blk[b] = e]
  BY Zenon DEF SetFree
<1>4. /\ n \in TableType /\ n.blk = [m.blk EXCEPT ![b] = e]
      /\ n.numFresh = m.numFresh /\ n.numInuse = m.numInuse
  <2> HIDE DEF n, e
  <2>1. QED
    BY <1>2, <1>3, PutEntry
<1> HIDE DEF n, e
<1>5. /\ n.blk[b] = e /\ \A c \in Blocks \ {b} : n.blk[c] = m.blk[c]
      /\ Cardinality(FreshIn(n)) = Cardinality(FreshIn(m))
      /\ Cardinality(InuseIn(n)) = Cardinality(InuseIn(m))
  BY <1>1, <1>2, <1>4, EntryReplaced DEF Fields, EntryType
<1>6. QED
  BY <1>2, <1>4, <1>5 DEF Changes, Counted, InuseCounted, n

LEMMA ChangesTwice ==
  ASSUME NEW m, NEW n, NEW o, NEW b, Changes(n, m, b), Changes(o, n, b)
  PROVE  Changes(o, m, b)
BY DEF Changes

(* What a complete walk of a block makes of the entry of the block.        *)
LEMMA WalkEndFacts ==
  ASSUME NEW m \in TableType, NEW b \in Blocks, Used(b) \in 0 .. Slots
  PROVE  LET n == WalkEnd(m, b) IN
         /\ Changes(n, m, b)
         /\ (n.blk[b].fresh <=> (m.blk[b].fresh \/ Used(b) = 0))
         /\ (n.blk[b].inuse <=> (Used(b) \in 1 .. Slots - 1))
         /\ (n.blk[b].dirty <=> (m.blk[b].dirty /\ Used(b) # 0))
         /\ n.blk[b].free = Slots - Used(b)
         /\ InuseCounted(m) /\ (Used(b) = 0 => ~m.blk[b].inuse) => InuseCounted(n)
<1> DEFINE n == WalkEnd(m, b)
<1>0. Slots \in Nat \ {0} /\ m.blk[b] \in EntryType
  BY KvAssumption DEF KvAssumption, TableType
<1>1. CASE Used(b) = 0
  <2>1. n = SetFresh(m, b)
    BY <1>0, <1>1 DEF WalkEnd
  <2>2. /\ Changes(n, m, b) /\ Fields(n.blk[b], TRUE, FALSE, FALSE, Slots)
        /\ InuseCounted(m) /\ ~m.blk[b].inuse => InuseCounted(n)
    BY <2>1, SetFreshFacts
  <2> HIDE DEF n
  <2>3. QED
    BY <1>0, <1>1, <2>2 DEF Fields, n
<1>2. CASE Used(b) = Slots
  <2> DEFINE n1 == SetFree(m, b, 0)
  <2>1. 0 \in 0 .. Slots
    BY <1>0
  <2>2. n = ResetInuse(n1, b)
    BY <1>0, <1>2 DEF WalkEnd
  <2>3. /\ Changes(n1, m, b) /\ Fields(n1.blk[b], m.blk[b].fresh, m.blk[b].inuse, m.blk[b].dirty, 0)
        /\ InuseCounted(m) => InuseCounted(n1)
    BY <2>1, SetFreeFacts
  <2>4. n1 \in TableType
    BY <2>3 DEF Changes
  <2> HIDE DEF n, n1
  <2>5. /\ Changes(n, n1, b) /\ Fields(n.blk[b], n1.blk[b].fresh, FALSE, n1.blk[b].dirty, n1.blk[b].free)
        /\ InuseCounted(n1) => InuseCounted(n)
    BY <2>2, <2>4, ResetInuseFacts
  <2>6. Changes(n, m, b)
    BY <2>3, <2>5, ChangesTwice
  <2>7. Fields(n.blk[b], m.blk[b].fresh, FALSE, m.blk[b].dirty, 0)
    BY <2>3, <2>5 DEF Fields
  <2>8. m.blk[b].fresh \in BOOLEAN /\ m.blk[b].dirty \in BOOLEAN
    BY <1>0 DEF EntryType
  <2>9. QED
    BY <1>0, <1>2, <2>3, <2>5, <2>6, <2>7, <2>8 DEF Fields, n
<1>3. CASE Used(b) \in 1 .. Slots - 1
  <2> DEFINE f == Slots - Used(b)
             n1 == SetFree(m, b, f)
  <2>1. f \in 0 .. Slots
    BY <1>0, <1>3
  <2>2. n = SetInuse(n1, b)
    BY <1>0, <1>3 DEF WalkEnd
  <2>3. /\ Changes(n1, m, b) /\ Fields(n1.blk[b], m.blk[b].fresh, m.blk[b].inuse, m.blk[b].dirty, f)
        /\ InuseCounted(m) => InuseCounted(n1)
    BY <2>1, SetFreeFacts
  <2>4. n1 \in TableType
    BY <2>3 DEF Changes
  <2> HIDE DEF n, n1
  <2>5. /\ Changes(n, n1, b) /\ Fields(n.blk[b], n1.blk[b].fresh, TRUE, n1.blk[b].dirty, n1.blk[b].free)
        /\ InuseCounted(n1) => InuseCounted(n)
    BY <2>2, <2>4, SetInuseFacts
  <2>6. Changes(n, m, b)
    BY <2>3, <2>5, ChangesTwice
  <2>7. Fields(n.blk[b], m.blk[b].fresh, TRUE, m.blk[b].dirty, f)
    BY <2>3, <2>5 DEF Fields
  <2>8. m.blk[b].fresh \in BOOLEAN /\ m.blk[b].dirty \in BOOLEAN
    BY <1>0 DEF EntryType
  <2>9. QED
    BY <1>0, <1>3, <2>3, <2>5, <2>6, <2>7, <2>8 DEF Fields, n
<1>4. QED
  BY <1>0, <1>1, <1>2, <1>3

LEMMA WalkedFacts ==
  ASSUME NEW m \in TableType, NEW b \in Blocks, Used(b) \in 0 .. Slots
  PROVE  LET n == Walked(m, b) IN
         /\ Changes(n, m, b)
         /\ (n.blk[b].fresh <=> (m.blk[b].fresh \/ Used(b) = 0))
         /\ (n.blk[b].inuse <=> (Used(b) \in 1 .. Slots - 1))
         /\ (n.blk[b].dirty <=> ((m.blk[b].dirty \/ Garbage(b) # {}) /\ Used(b) # 0))
         /\ n.blk[b].free = Slots - Used(b)
         /\ InuseCounted(m) /\ (Used(b) = 0 => ~m.blk[b].inuse) => InuseCounted(n)
<1> DEFINE n1 == IF Garbage(b) # {} THEN SetDirty(m, b) ELSE m
           n == WalkEnd(n1, b)
<1>1. Walked(m, b) = n
  BY DEF Walked
<1>2. /\ Changes(n1, m, b) /\ (InuseCounted(m) => InuseCounted(n1))
      /\ (n1.blk[b].fresh <=> m.blk[b].fresh) /\ (n1.blk[b].inuse <=> m.blk[b].inuse)
      /\ (n1.blk[b].dirty <=> (m.blk[b].dirty \/ Garbage(b) # {}))
  <2>1. CASE Garbage(b) # {}
    <3>1. n1 = SetDirty(m, b)
      BY <2>1
    <3>2. /\ Changes(n1, m, b) /\ (InuseCounted(m) => InuseCounted(n1))
          /\ Fields(n1.blk[b], m.blk[b].fresh, m.blk[b].inuse, TRUE, m.blk[b].free)
      BY <3>1, SetDirtyFacts
    <3> HIDE DEF n1
    <3>3. QED
      BY <2>1, <3>2 DEF Fields
  <2>2. CASE Garbage(b) = {}
    <3>1. n1 = m
      BY <2>2
    <3>2. m.blk[b].dirty \in BOOLEAN
      BY DEF TableType, EntryType
    <3> HIDE DEF n1
    <3>3. QED
      BY <2>2, <3>1, <3>2 DEF Changes
  <2>3. QED
    BY <2>1, <2>2
<1>3. n1 \in TableType
  BY <1>2 DEF Changes
<1> HIDE DEF n1
<1>4. /\ Changes(n, n1, b)
      /\ (n.blk[b].fresh <=> (n1.blk[b].fresh \/ Used(b) = 0))
      /\ (n.blk[b].inuse <=> (Used(b) \in 1 .. Slots - 1))
      /\ (n.blk[b].dirty <=> (n1.blk[b].dirty /\ Used(b) # 0))
      /\ n.blk[b].free = Slots - Used(b)
      /\ InuseCounted(n1) /\ (Used(b) = 0 => ~n1.blk[b].inuse) => InuseCounted(n)
  BY <1>3, WalkEndFacts
<1> HIDE DEF n
<1>5. Changes(n, m, b)
  BY <1>2, <1>4, ChangesTwice
<1>6. QED
  BY <1>1, <1>2, <1>4, <1>5

(* What the walk of a search makes of a table that describes the flash.    *)
LEMMA WalkUpToFacts ==
  ASSUME NEW p, mgr \in TableType, Counted(mgr),
         \A b \in Blocks : Used(b) \in Nat /\ Describes(mgr.blk[b], b)
  PROVE  LET n == WalkUpTo(p) IN
         /\ n \in TableType /\ Counted(n)
         /\ \A b \in Blocks : Describes(n.blk[b], b)
         /\ FreshIn(n) \subseteq FreshIn(mgr) \cup InuseIn(mgr) /\ InuseIn(n) \subseteq InuseIn(mgr)
<1> DEFINE passed == {b \in Blocks : ~mgr.blk[b].fresh /\ (p = 0 \/ b < BlockOf(p))}
           emptied == {b \in passed : Used(b) = 0}
           opened == {b \in passed : Used(b) \in 1 .. Slots - 1 /\ ~mgr.blk[b].inuse}
           filled == {b \in passed : Used(b) = Slots /\ mgr.blk[b].inuse}
           garbageBefore(b) == p # 0 /\ b = BlockOf(p) /\ \E s \in Garbage(b) : s < SlotOf(p)
           e(b) == IF b \in passed THEN Walked(mgr, b).blk[b]
                   ELSE IF garbageBefore(b) THEN SetDirty(mgr, b).blk[b]
                   ELSE mgr.blk[b]
           f == mgr.numFresh + Cardinality(emptied)
           u == (mgr.numInuse + Cardinality(opened) - Cardinality(filled)) % CounterSize
           n == WalkUpTo(p)
<1>1. n = [blk |-> [b \in Blocks |-> e(b)], numFresh |-> f, numInuse |-> u]
  BY Zenon DEF WalkUpTo
<1>2. /\ Slots \in Nat \ {0} /\ CounterSize \in Nat \ {0} /\ NumBlocks \in Nat
      /\ mgr.blk \in [Blocks -> EntryType] /\ mgr.numFresh \in Int /\ mgr.numInuse \in Int
  BY KvAssumption DEF KvAssumption, TableType
<1>3. \A b \in Blocks : Used(b) \in 0 .. Slots
  BY <1>2 DEF Describes, EntryType
<1>4. ASSUME NEW b \in Blocks
      PROVE  /\ e(b) \in EntryType /\ Describes(e(b), b)
             /\ e(b).fresh <=> mgr.blk[b].fresh \/ b \in emptied
  <2>1. CASE b \in passed
    <3> DEFINE m == Walked(mgr, b)
    <3>1. /\ Changes(m, mgr, b)
          /\ (m.blk[b].fresh <=> (mgr.blk[b].fresh \/ Used(b) = 0))
          /\ (m.blk[b].inuse <=> (Used(b) \in 1 .. Slots - 1))
          /\ (m.blk[b].dirty <=> ((mgr.blk[b].dirty \/ Garbage(b) # {}) /\ Used(b) # 0))
          /\ m.blk[b].free = Slots - Used(b)
      BY <1>3, WalkedFacts
    <3>2. e(b) = m.blk[b]
      BY <2>1
    <3> HIDE DEF m, e
    <3>3. e(b) \in EntryType
      BY <3>1, <3>2 DEF Changes, TableType
    <3>4. Describes(e(b), b)
      <4>1. Used(b) = 0 => Garbage(b) = {}
        BY DEF Garbage
      <4>2. ~mgr.blk[b].fresh
        BY <2>1
      <4>3. QED
        BY <1>2, <1>3, <3>1, <3>2, <4>1, <4>2 DEF Describes
    <3>5. QED
      BY <2>1, <3>1, <3>2, <3>3, <3>4
  <2>2. CASE b \notin passed /\ garbageBefore(b)
    <3> DEFINE m == SetDirty(mgr, b)
    <3>1. Changes(m, mgr, b) /\ Fields(m.blk[b], mgr.blk[b].fresh, mgr.blk[b].inuse, TRUE, mgr.blk[b].free)
      BY SetDirtyFacts
    <3>2. e(b) = m.blk[b]
      BY <2>2
    <3>3. Garbage(b) # {}
      BY <2>2
    <3>4. ~(b \in emptied)
      BY <2>2
    <3> HIDE DEF m, e, emptied
    <3>5. QED
      BY <3>1, <3>2, <3>3, <3>4 DEF Changes, TableType, Fields, Describes
  <2>3. CASE b \notin passed /\ ~garbageBefore(b)
    <3>1. e(b) = mgr.blk[b]
      BY <2>3
    <3>2. ~(b \in emptied)
      BY <2>3
    <3> HIDE DEF e, emptied
    <3>3. QED
      BY <1>2, <3>1, <3>2
  <2>4. QED
    BY <2>1, <2>2, <2>3
<1>5. emptied \in SUBSET Blocks /\ opened \in SUBSET Blocks /\ filled \in SUBSET Blocks
  OBVIOUS
<1>6. f \in Int
  BY <1>2, <1>5, BlocksFinite
<1>7. u \in 0 .. CounterSize - 1
  <2> DEFINE x == mgr.numInuse + Cardinality(opened) - Cardinality(filled)
  <2>1. x \in Int
    BY <1>2, <1>5, BlocksFinite
  <2> HIDE DEF x
  <2>2. x % CounterSize \in 0 .. CounterSize - 1
    BY <1>2, <2>1, Remainder, Zenon
  <2>3. QED
    BY <2>2 DEF x
<1>8. n \in TableType /\ n.numFresh = f /\ \A b \in Blocks : n.blk[b] = e(b)
  <2> HIDE DEF n, e, f, u
  <2>1. QED
    BY <1>1, <1>4, <1>6, <1>7 DEF TableType
<1>9. Counted(n)
  <2>1. FreshIn(n) = FreshIn(mgr) \cup emptied
    <3> HIDE DEF n, e
    <3>1. QED
      BY <1>4, <1>8 DEF FreshIn
  <2>2. FreshIn(mgr) \cap emptied = {}
    BY DEF FreshIn
  <2>3. /\ IsFiniteSet(FreshIn(mgr)) /\ Cardinality(FreshIn(mgr)) \in Nat
        /\ IsFiniteSet(emptied) /\ Cardinality(emptied) \in Nat
    BY <1>5, BlocksFinite DEF FreshIn
  <2> HIDE DEF emptied, n
  <2>4. Cardinality(FreshIn(n)) = Cardinality(FreshIn(mgr)) + Cardinality(emptied)
    <3>1. Cardinality(FreshIn(mgr) \cap emptied) = 0
      BY <2>2, FS_EmptySet
    <3>2. Cardinality(FreshIn(mgr) \cup emptied)
            = Cardinality(FreshIn(mgr)) + Cardinality(emptied) - Cardinality(FreshIn(mgr) \cap emptied)
      BY <2>3, FS_Union
    <3>3. QED
      BY <2>1, <2>3, <3>1, <3>2
  <2>5. QED
    BY <1>8, <2>4 DEF Counted
<1>10. FreshIn(n) \subseteq FreshIn(mgr) \cup InuseIn(mgr)
  <2>1. ASSUME NEW b \in emptied
        PROVE  mgr.blk[b].inuse
    <3>1. b \in Blocks /\ ~mgr.blk[b].fresh /\ Used(b) = 0
      OBVIOUS
    <3> HIDE DEF n, e, emptied
    <3>2. mgr.blk[b].free \in 0 .. Slots
      BY <1>2, <3>1 DEF EntryType
    <3>3. QED
      BY <1>2, <3>1, <3>2 DEF Describes
  <2>2. emptied \in SUBSET Blocks
    OBVIOUS
  <2> HIDE DEF n, e, emptied
  <2>3. QED
    BY <1>4, <1>8, <2>1, <2>2 DEF FreshIn, InuseIn
<1>11. InuseIn(n) \subseteq InuseIn(mgr)
  <2> HIDE DEF n, e
  <2>1. ASSUME NEW b \in Blocks, n.blk[b].inuse
        PROVE  mgr.blk[b].inuse
    <3>1. e(b).inuse /\ e(b) \in EntryType /\ Describes(e(b), b) /\ ~(mgr.blk[b].fresh /\ ~e(b).fresh)
      BY <1>4, <1>8, <2>1
    <3>2. e(b).free \in 0 .. Slots /\ mgr.blk[b].free \in 0 .. Slots
      BY <1>2, <3>1 DEF EntryType
    <3>3. QED
      BY <1>2, <3>1, <3>2 DEF Describes
  <2>2. QED
    BY <2>1 DEF InuseIn
<1>12. QED
  BY <1>4, <1>8, <1>9, <1>10, <1>11

-----------------------------------------------------------------------------
(* Items.                                                                  *)
LEMMA AfterFacts ==
  ASSUME NEW b \in Blocks, NEW s \in 1 .. Used(b), Used(b) \in Nat
  PROVE  /\ After(b, s) \in s + 1 .. Used(b) + 1
         /\ \A t \in s + 1 .. After(b, s) - 1 : flash[b].items[t].state = "rest"
<1> DEFINE T == {t \in Starts(b) : t > s} \cup {Used(b) + 1}
<1>1. T \in SUBSET Nat /\ T # {} /\ \A t \in T : t > s
  BY DEF Starts
<1>2. After(b, s) = Min(T)
  BY DEF After
<1>3. Used(b) + 1 \in T
  OBVIOUS
<1>4. \A t \in 1 .. Used(b) : t > s /\ flash[b].items[t].state # "rest" => t \in T
  BY DEF Starts
<1> HIDE DEF T
<1>5. Min(T) \in T /\ Min(T) \in Nat /\ \A t \in T : Min(T) <= t
  BY <1>1, MinNat
<1>6. After(b, s) \in s + 1 .. Used(b) + 1
  BY <1>1, <1>2, <1>3, <1>5
<1>7. ASSUME NEW t \in s + 1 .. After(b, s) - 1
      PROVE  flash[b].items[t].state = "rest"
  <2>1. t \in 1 .. Used(b) /\ t > s /\ t < After(b, s)
    BY <1>6, <1>7
  <2>2. ~(t \in T)
    BY <1>2, <1>5, <2>1
  <2>3. QED
    BY <1>4, <2>1, <2>2
<1>8. QED
  BY <1>6, <1>7

LEMMA UnitsFacts ==
  ASSUME flash \in [Blocks -> BlockType], NEW b \in Blocks, NEW s \in 1 .. Used(b)
  PROVE  /\ Units(b, s) \in Seq(Item) /\ Len(Units(b, s)) = After(b, s) - s
         /\ After(b, s) \in s + 1 .. Used(b) + 1
         /\ \A i \in 1 .. Len(Units(b, s)) : Units(b, s)[i] = flash[b].items[s + i - 1]
         /\ \A i \in 2 .. Len(Units(b, s)) : Units(b, s)[i].state = "rest"
         /\ Head(Units(b, s)) = flash[b].items[s]
<1> DEFINE it == flash[b].items
           e == After(b, s) - 1
           u == Units(b, s)
<1>1. it \in Seq(Item) /\ Used(b) = Len(it) /\ Used(b) \in Nat
  BY DEF BlockType, Used
<1>2. /\ After(b, s) \in s + 1 .. Used(b) + 1
      /\ \A t \in s + 1 .. After(b, s) - 1 : it[t].state = "rest"
  BY <1>1, AfterFacts
<1>3. u = SubSeq(it, s, e)
  BY DEF Units
<1>4. e \in s .. Len(it) /\ s \in 1 .. Len(it)
  BY <1>1, <1>2
<1> HIDE DEF it, e, u
<1>5. u \in Seq(Item) /\ Len(u) = e - s + 1 /\ \A i \in 1 .. Len(u) : u[i] = it[s + i - 1]
  BY <1>1, <1>3, <1>4
<1>6. Len(u) = After(b, s) - s /\ Len(u) >= 1
  BY <1>2, <1>4, <1>5 DEF e
<1>7. \A i \in 2 .. Len(u) : u[i].state = "rest"
  <2> TAKE i \in 2 .. Len(u)
  <2>1. u[i] = it[s + i - 1] /\ s + i - 1 \in s + 1 .. After(b, s) - 1
    BY <1>2, <1>5, <1>6
  <2>2. QED
    BY <1>2, <2>1
<1>8. Head(u) = it[s]
  <2>1. Head(u) = u[1] /\ u[1] = it[s + 1 - 1] /\ s + 1 - 1 = s
    BY <1>5, <1>6
  <2>2. QED
    BY <2>1
<1>9. QED
  BY <1>2, <1>5, <1>6, <1>7, <1>8 DEF it, u

(* The last item of a block: the units behind its first one are "rest".    *)
LEMMA LastStart ==
  ASSUME NEW b \in Blocks, Used(b) \in Nat, NEW k \in 1 .. Used(b),
         flash[b].items[k].state # "rest",
         \A t \in k + 1 .. Used(b) : flash[b].items[t].state = "rest"
  PROVE  LastOf(b) = PosOf(b, k)
<1>1. Starts(b) \in SUBSET (0 .. Used(b)) /\ k \in Starts(b) /\ \A t \in Starts(b) : t <= k
  BY DEF Starts
<1> DEFINE T == Starts(b)
<1> HIDE DEF T
<1>2. Max(T) \in T /\ Max(T) \in Nat /\ \A t \in T : Max(T) >= t
  <2>1. T # {} /\ T \in SUBSET (0 .. Used(b))
    BY <1>1 DEF T
  <2>2. QED
    BY <2>1, MaxNat
<1>3. Max(T) = k
  BY <1>1, <1>2 DEF T
<1>4. QED
  BY <1>3 DEF LastOf, T

(* An item put in the place of another one.                                *)
SameTags(x, y) == x.magic = y.magic /\ x.src = y.src /\ x.dst = y.dst /\ x.done = y.done

LEMMA PutFacts ==
  ASSUME flash \in [Blocks -> BlockType], NEW b \in Blocks, NEW s \in 1 .. Used(b), Used(b) <= Slots,
         NEW it \in Item
  PROVE  LET g == Put(PosOf(b, s), it) IN
         /\ g \in [Blocks -> BlockType]
         /\ \A c \in Blocks \ {b} : g[c] = flash[c]
         /\ SameTags(g[b], flash[b]) /\ Len(g[b].items) = Used(b)
         /\ g[b].items[s] = it /\ \A t \in 1 .. Used(b) : t # s => g[b].items[t] = flash[b].items[t]
<1> DEFINE g == Put(PosOf(b, s), it)
           seq == [flash[b].items EXCEPT ![s] = it]
           blk == [flash[b] EXCEPT !.items = seq]
<1>1. flash[b].items \in Seq(Item) /\ Used(b) = Len(flash[b].items) /\ Used(b) \in Nat /\ flash[b] \in BlockType
  BY DEF BlockType, Used
<1>2. s \in 1 .. Slots
  BY <1>1, KvAssumption DEF KvAssumption
<1>3. BlockOf(PosOf(b, s)) = b /\ SlotOf(PosOf(b, s)) = s
  BY <1>2, PosFacts
<1>4. g = [flash EXCEPT ![b].items[s] = it]
  BY <1>3, Zenon DEF Put
<1>5. g = [flash EXCEPT ![b] = blk]
  BY <1>4, Zenon
<1>6. /\ seq \in Seq(Item) /\ Len(seq) = Used(b) /\ seq[s] = it
      /\ \A t \in 1 .. Used(b) : t # s => seq[t] = flash[b].items[t]
  BY <1>1
<1>7. blk \in BlockType /\ SameTags(blk, flash[b]) /\ blk.items = seq
  <2> HIDE DEF seq
  <2>1. QED
    BY <1>1, <1>6 DEF BlockType, SameTags
<1> HIDE DEF g, blk, seq
<1>8. g \in [Blocks -> BlockType] /\ g[b] = blk /\ \A c \in Blocks \ {b} : g[c] = flash[c]
  BY <1>5, <1>7
<1>9. QED
  BY <1>6, <1>7, <1>8 DEF g

LEMMA Numbers ==
  /\ NumBlocks \in Nat /\ NumBlocks > 1 /\ Slots \in Nat /\ Slots > 0
  /\ Blocks \subseteq Nat /\ ~(0 \in Blocks) /\ Positions \subseteq Nat /\ ~(0 \in Positions)
<1>1. NumBlocks \in Nat /\ NumBlocks > 1 /\ Slots \in Nat /\ Slots > 0
  BY KvAssumption DEF KvAssumption
<1>2. Blocks \subseteq Nat /\ ~(0 \in Blocks)
  BY <1>1 DEF Blocks
<1> DEFINE n == NumBlocks * Slots
<1>3. n \in Int
  BY <1>1
<1> HIDE DEF n
<1>4. 1 .. n \subseteq Nat /\ ~(0 \in 1 .. n)
  BY <1>3
<1>5. QED
  BY <1>1, <1>2, <1>4 DEF Positions, n

LEMMA FirstOfFacts ==
  ASSUME NEW T \in SUBSET Nat
  PROVE  (T = {} => FirstOf(T) = 0) /\ (T # {} => FirstOf(T) \in T)
<1>1. CASE T = {}
  BY <1>1 DEF FirstOf
<1>2. CASE T # {}
  BY <1>2, MinNat DEF FirstOf
<1>3. QED
  BY <1>1, <1>2

LEMMA FindFacts ==
  ASSUME NEW T \in SUBSET Positions
  PROVE  /\ FirstMatch(T) # 0 => FirstMatch(T) \in T /\ ~mgr.blk[BlockOf(FirstMatch(T))].fresh
         /\ FirstMatch(T) = 0 => \A p \in T : mgr.blk[BlockOf(p)].fresh
<1> DEFINE M == {p \in T : ~mgr.blk[BlockOf(p)].fresh}
<1>1. M \in SUBSET Nat /\ ~(0 \in M)
  BY Numbers
<1>2. (M = {} => FirstOf(M) = 0) /\ (M # {} => FirstOf(M) \in M)
  <2> HIDE DEF M
  <2>1. QED
    BY <1>1, FirstOfFacts
<1>3. FirstMatch(T) = FirstOf(M)
  BY DEF FirstMatch
<1>4. QED
  BY <1>1, <1>2, <1>3

LEMMA RingFacts ==
  ASSUME NEW T \in SUBSET Blocks, workspace \in {0} \cup Blocks
  PROVE  /\ NextInRing(T) # 0 => NextInRing(T) \in T \ {workspace}
         /\ NextInRing(T) = 0 => T \subseteq {workspace}
<1> DEFINE behind == {b \in T : b > workspace}
           before == {b \in T : b < workspace}
           R == IF behind # {} THEN behind ELSE before
<1>1. R \in SUBSET Nat /\ ~(0 \in R)
  BY Numbers
<1>2. (R = {} => FirstOf(R) = 0) /\ (R # {} => FirstOf(R) \in R)
  <2> HIDE DEF R
  <2>1. QED
    BY <1>1, FirstOfFacts
<1>3. NextInRing(T) = FirstOf(R)
  BY DEF NextInRing
<1>4. R \subseteq T \ {workspace} /\ (R = {} => T \subseteq {workspace})
  BY KvAssumption DEF Blocks, KvAssumption
<1>5. QED
  <2> HIDE DEF R
  <2>1. QED
    BY <1>1, <1>2, <1>3, <1>4

-----------------------------------------------------------------------------
(* Steps that leave the flash alone.                                       *)
LEMMA FlashSame ==
  ASSUME flash' = flash
  PROVE  /\ \A b \in Blocks : Used(b)' = Used(b) /\ Garbage(b)' = Garbage(b)
         /\ SrcBlocks' = SrcBlocks /\ DstBlocks' = DstBlocks
BY DEF Used, Garbage, SrcBlocks, DstBlocks, IsSrc, IsDstNotDone

LEMMA PowerOnKeeps ==
  ASSUME IInv, PowerOn
  PROVE  IInv'
<1>1. /\ Typed /\ TableInv /\ TagsInv /\ ScanInv /\ GcInv /\ OpInv /\ WriteInv /\ SpareInv
      /\ pc = "off" /\ pc' = "scan" /\ UNCHANGED <<flash, mgr, workspace, op, gc, scan, result>>
  BY DEF IInv, PowerOn
<1>2. scan = NoScan /\ NoScan.blk = 1 /\ NoScan.slot = 0 /\ NoScan.srcs = {} /\ NoScan.dsts = {} /\ NoScan.fresh = 0
  BY <1>1 DEF ScanInv, NoScan
<1>3. Typed'
  BY <1>1 DEF Typed, Steps, Used
<1>4. Unlisted = Blocks /\ Unlisted' = Blocks
  BY <1>1, <1>2 DEF Unlisted, Blocks
<1>5. TableInv'
  BY <1>1, <1>4 DEF TableInv, NoFlags, Counted, FreshIn
<1>6. TagsInv'
  BY <1>1, <1>4, FlashSame DEF TagsInv, Mendable
<1>7. ScanInv'
  <2>1. (\A b \in Blocks : ~(b < 1)) /\ SrcBlocks \subseteq Blocks /\ DstBlocks \subseteq Blocks
    BY Numbers DEF SrcBlocks, DstBlocks
  <2>2. SrcBlocks' = SrcBlocks /\ DstBlocks' = DstBlocks
    BY <1>1, FlashSame
  <2>3. QED
    BY <1>1, <1>2, <1>4, <2>1, <2>2 DEF ScanInv
<1>8. GcInv'
  BY <1>1 DEF GcInv, GcSteps
<1>9. OpInv'
  BY <1>1 DEF OpInv, GcSteps, InCall
<1>10. WriteInv'
  BY <1>1 DEF WriteInv
<1>11. SpareInv'
  BY <1>1 DEF SpareInv, Booting, InuseIn, FreshIn
<1>12. QED
  BY <1>3, <1>5, <1>6, <1>7, <1>8, <1>9, <1>10, <1>11 DEF IInv

LEMMA TableFacts ==
  ASSUME Typed, TableInv, NEW b \in Blocks, b \notin Unlisted
  PROVE  EntryOK(b) /\ mgr.blk[b] \in EntryType /\ Used(b) \in 0 .. Slots
<1>1. EntryOK(b) /\ mgr.blk[b] \in EntryType /\ Used(b) <= Slots
  BY DEF Typed, TableInv, TableType
<1>2. flash[b].items \in Seq(Item)
  BY DEF Typed, BlockType
<1>3. QED
  BY <1>1, <1>2 DEF Used

LEMMA SetsOfTable ==
  ASSUME Typed, TableInv
  PROVE  /\ FreshBlocks = FreshIn(mgr) /\ InuseBlocks = InuseIn(mgr)
         /\ FreshBlocks \subseteq Blocks /\ InuseBlocks \subseteq Blocks /\ DirtyBlocks \subseteq Blocks
         /\ mgr.numFresh \in Nat /\ mgr.numInuse \in Nat
         /\ mgr.numFresh = 0 <=> FreshBlocks = {}
         /\ InuseCounted(mgr) => (mgr.numInuse = 0 <=> InuseBlocks = {})
<1>1. /\ FreshBlocks = FreshIn(mgr) /\ InuseBlocks = InuseIn(mgr)
      /\ FreshBlocks \subseteq Blocks /\ InuseBlocks \subseteq Blocks /\ DirtyBlocks \subseteq Blocks
  BY DEF FreshBlocks, InuseBlocks, FreshIn, InuseIn, DirtyBlocks
<1>2. IsFiniteSet(FreshIn(mgr)) /\ IsFiniteSet(InuseIn(mgr)) /\ Cardinality(FreshIn(mgr)) \in Nat
  BY FreshCount DEF Typed
<1>3. (Cardinality(FreshIn(mgr)) = 0 <=> FreshIn(mgr) = {}) /\ (Cardinality(InuseIn(mgr)) = 0 <=> InuseIn(mgr) = {})
  BY <1>2, FS_EmptySet
<1>4. mgr.numInuse \in Nat
  BY KvAssumption DEF Typed, TableType, KvAssumption
<1>5. QED
  BY <1>1, <1>2, <1>3, <1>4 DEF TableInv, Counted, InuseCounted

GcFor(src, dst, for) == [NoGc EXCEPT !.src = src, !.dst = dst, !.for = for]

LEMMA StartedGc ==
  ASSUME NEW src \in Blocks, NEW dst \in Blocks, NEW for \in {"search", "locate", "init"}
  PROVE  /\ GcFor(src, dst, for) \in GcType
         /\ GcFor(src, dst, for).src = src /\ GcFor(src, dst, for).dst = dst
         /\ GcFor(src, dst, for).next = 1 /\ GcFor(src, dst, for).for = for
<1> DEFINE g1 == [NoGc EXCEPT !.src = src]
           g2 == [g1 EXCEPT !.dst = dst]
           g == [g2 EXCEPT !.for = for]
<1>1. g1 = [src |-> src, dst |-> 0, next |-> 1, for |-> "none"]
  BY DEF NoGc
<1>2. g2 = [src |-> src, dst |-> dst, next |-> 1, for |-> "none"]
  <2> HIDE DEF g1
  <2>1. QED
    BY <1>1
<1>3. g = [src |-> src, dst |-> dst, next |-> 1, for |-> for]
  <2> HIDE DEF g2
  <2>1. QED
    BY <1>2
<1>4. GcFor(src, dst, for) = g
  BY Zenon DEF GcFor
<1>5. 1 \in 1 .. Slots + 1
  BY Numbers
<1> HIDE DEF g
<1>6. g \in GcType /\ g.src = src /\ g.dst = dst /\ g.next = 1 /\ g.for = for
  BY <1>3, <1>5 DEF GcType
<1>7. QED
  BY <1>4, <1>6

LEMMA RescueGcKeeps ==
  ASSUME IInv, RescueGc
  PROVE  IInv'
<1>1. /\ Typed /\ TableInv /\ TagsInv /\ ScanInv /\ GcInv /\ OpInv /\ WriteInv /\ SpareInv
      /\ pc = "locate" /\ pc' = "markSrc" /\ UNCHANGED <<flash, mgr, workspace, op, scan, result>>
      /\ NeedsRescue
  BY DEF IInv, RescueGc, StartGc
<1>2. Unlisted = {} /\ Unlisted' = {}
  BY <1>1 DEF Unlisted
<1>3. FirstOf(DirtyBlocks) \in DirtyBlocks /\ FirstOf(FreshBlocks) \in FreshBlocks
  <2>1. mgr.numFresh = 1 /\ DirtyBlocks # {}
    BY <1>1 DEF NeedsRescue
  <2>2. FreshBlocks # {} /\ FreshBlocks \subseteq Blocks /\ DirtyBlocks \subseteq Blocks
    BY <1>1, <2>1, SetsOfTable
  <2>3. FreshBlocks \in SUBSET Nat /\ DirtyBlocks \in SUBSET Nat
    BY <2>2, Numbers
  <2>4. QED
    BY <2>1, <2>2, <2>3, FirstOfFacts
<1>4. /\ gc' \in GcType /\ gc'.src \in Blocks /\ gc'.dst \in Blocks /\ gc'.next = 1 /\ gc'.for = "locate"
      /\ mgr.blk[gc'.src].dirty /\ mgr.blk[gc'.dst].fresh
  <2>1. FirstOf(DirtyBlocks) \in Blocks /\ FirstOf(FreshBlocks) \in Blocks
    BY <1>1, <1>3, SetsOfTable
  <2>2. /\ gc' \in GcType /\ gc'.src = FirstOf(DirtyBlocks) /\ gc'.dst = FirstOf(FreshBlocks)
        /\ gc'.next = 1 /\ gc'.for = "locate"
    <3>1. gc' = GcFor(FirstOf(DirtyBlocks), FirstOf(FreshBlocks), "locate")
      BY Zenon DEF RescueGc, StartGc, GcFor
    <3>2. QED
      BY <2>1, <3>1, StartedGc
  <2>3. QED
    BY <1>3, <2>1, <2>2 DEF DirtyBlocks, FreshBlocks
<1>5. /\ EntryOK(gc'.src) /\ EntryOK(gc'.dst)
      /\ ~mgr.blk[gc'.src].fresh /\ Used(gc'.dst) = 0 /\ gc'.src # gc'.dst
  <2>1. EntryOK(gc'.src) /\ EntryOK(gc'.dst)
    BY <1>1, <1>2, <1>4, TableFacts
  <2>2. QED
    BY <1>1, <1>4, <2>1 DEF EntryOK, Filling, WriteSteps
<1>6. Typed'
  BY <1>1, <1>4 DEF Typed, Steps, GcSteps, Used
<1>7. TableInv'
  <2>1. \A b \in Blocks : EntryOK(b)'
    BY <1>1, <1>2, FlashSame DEF TableInv, EntryOK, Filling, Ahead, WriteSteps
  <2>2. QED
    BY <1>1, <1>2, <2>1 DEF TableInv, Counted, FreshIn
<1>8. TagsInv'
  BY <1>1, <1>2, FlashSame DEF TagsInv
<1>9. ScanInv'
  BY <1>1 DEF ScanInv
<1>10. GcInv'
  <2>1. Used(gc.dst)' = 0
    BY <1>1, <1>4, <1>5 DEF Used
  <2>2. ~mgr.blk[gc'.src].inuse
    <3>1. InuseBlocks = {}
      BY <1>1, SetsOfTable DEF SpareInv, Booting, InuseCounted, NeedsRescue
    <3>2. QED
      BY <1>4, <3>1 DEF InuseBlocks
  <2>3. QED
    BY <1>1, <1>4, <1>5, <2>1, <2>2 DEF GcInv, GcSteps
<1>11. OpInv'
  BY <1>1, <1>4 DEF OpInv, GcSteps, InCall
<1>12. WriteInv'
  BY <1>1 DEF WriteInv
<1>13. SpareInv'
  BY <1>1, <1>4 DEF SpareInv, Booting, InuseIn, FreshIn, GcSteps
<1>14. QED
  BY <1>6, <1>7, <1>8, <1>9, <1>10, <1>11, <1>12, <1>13 DEF IInv

LEMMA LocateWorkspaceKeeps ==
  ASSUME IInv, LocateWorkspace
  PROVE  IInv'
<1>1. /\ Typed /\ TableInv /\ TagsInv /\ ScanInv /\ GcInv /\ OpInv /\ WriteInv /\ SpareInv
      /\ pc \in {"locate", "rescued"} /\ pc' = "idle" /\ UNCHANGED <<flash, mgr, op, gc, scan, result>>
      /\ workspace' = IF mgr.numInuse = 0 THEN FirstOf(FreshBlocks) ELSE FirstOf(InuseBlocks)
  BY DEF IInv, LocateWorkspace
<1>2. Unlisted = {} /\ Unlisted' = {}
  BY <1>1 DEF Unlisted
<1>3. FreshBlocks \in SUBSET Nat /\ InuseBlocks \in SUBSET Nat /\ FreshBlocks \subseteq Blocks /\ InuseBlocks \subseteq Blocks
  BY <1>1, SetsOfTable, Numbers
<1>4. /\ FirstOf(FreshBlocks) \in {0} \cup FreshBlocks /\ (FirstOf(FreshBlocks) = 0 => FreshBlocks = {})
      /\ FirstOf(InuseBlocks) \in {0} \cup InuseBlocks /\ (FirstOf(InuseBlocks) = 0 => InuseBlocks = {})
  BY <1>3, FirstOfFacts, Numbers
<1>5. workspace' \in {0} \cup Blocks
  BY <1>1, <1>3, <1>4
<1>6. workspace' = 0 => FreshBlocks = {} /\ InuseBlocks = {}
  <2>1. InuseCounted(mgr)
    BY <1>1 DEF SpareInv, Booting, InuseCounted
  <2>2. mgr.numInuse = 0 <=> InuseBlocks = {}
    BY <1>1, <2>1, SetsOfTable
  <2>3. QED
    BY <1>1, <1>4, <2>2
<1>7. Typed'
  BY <1>1, <1>5 DEF Typed, Steps, Used
<1>8. TableInv'
  <2>1. \A b \in Blocks : EntryOK(b)'
    BY <1>1, <1>2, FlashSame DEF TableInv, EntryOK, Filling, Ahead, WriteSteps
  <2>2. QED
    BY <1>1, <1>2, <2>1 DEF TableInv, Counted, FreshIn
<1>9. TagsInv'
  BY <1>1, <1>2, FlashSame DEF TagsInv
<1>10. ScanInv'
  BY <1>1 DEF ScanInv
<1>11. GcInv'
  BY <1>1 DEF GcInv, GcSteps
<1>12. OpInv'
  BY <1>1 DEF OpInv, GcSteps, InCall
<1>13. WriteInv'
  BY <1>1 DEF WriteInv
<1>14. SpareInv'
  BY <1>1, <1>6 DEF SpareInv, Booting, InuseIn, FreshIn, GcSteps, FreshBlocks, InuseBlocks
<1>15. QED
  BY <1>7, <1>8, <1>9, <1>10, <1>11, <1>12, <1>13, <1>14 DEF IInv

LEMMA SizeFacts ==
  ASSUME NEW v
  PROVE  SizeOf(v) \in 1 .. 2 /\ SizeOf(v) <= Slots
BY KvAssumption DEF SizeOf, KvAssumption

(* A search round that fails leaves the table alone.                       *)
LEMMA SearchFailsKeeps ==
  ASSUME IInv, SearchFails
  PROVE  IInv'
<1>1. /\ Typed /\ TableInv /\ TagsInv /\ ScanInv /\ GcInv /\ OpInv /\ WriteInv /\ SpareInv
      /\ pc = "search" /\ pc' = "idle" /\ UNCHANGED <<flash, mgr, workspace, gc, scan>>
      /\ op' = NoOp /\ result' = "failed"
  BY DEF IInv, SearchFails, Return
<1>2. Unlisted = {} /\ Unlisted' = {}
  BY <1>1 DEF Unlisted
<1>3. Typed'
  <2>1. NoOp \in OpType
    BY DEF NoOp, OpType, Item, Broken
  <2>2. QED
    BY <1>1, <2>1 DEF Typed, Steps, Used
<1>4. TableInv'
  <2>1. \A b \in Blocks : EntryOK(b)'
    BY <1>1, <1>2, FlashSame DEF TableInv, EntryOK, Filling, Ahead, WriteSteps
  <2>2. QED
    BY <1>1, <1>2, <2>1 DEF TableInv, Counted, FreshIn
<1>5. TagsInv'
  BY <1>1, <1>2, FlashSame DEF TagsInv
<1>6. ScanInv'
  BY <1>1 DEF ScanInv
<1>7. GcInv'
  BY <1>1 DEF GcInv, GcSteps
<1>8. OpInv'
  BY <1>1 DEF OpInv, GcSteps, InCall
<1>9. WriteInv'
  BY <1>1 DEF WriteInv
<1>10. SpareInv'
  BY <1>1 DEF SpareInv, Booting, InuseIn, FreshIn, GcSteps
<1>11. QED
  BY <1>3, <1>4, <1>5, <1>6, <1>7, <1>8, <1>9, <1>10 DEF IInv

(* The search settles on a block that has room for the item.               *)
LEMMA UseBlockKeeps ==
  ASSUME IInv, pc = "search", NEW b \in Blocks, mgr.blk[b].free >= SizeOf(op.val),
         workspace' = b, pc' = "fix", UNCHANGED <<flash, mgr, op, gc, scan, result>>
  PROVE  IInv'
<1>1. Typed /\ TableInv /\ TagsInv /\ ScanInv /\ GcInv /\ OpInv /\ WriteInv /\ SpareInv
  BY DEF IInv
<1>2. Unlisted = {} /\ Unlisted' = {}
  BY DEF Unlisted
<1>3. Typed'
  BY <1>1 DEF Typed, Steps, Used
<1>4. TableInv'
  <2>1. \A c \in Blocks : EntryOK(c)'
    BY <1>1, <1>2, FlashSame DEF TableInv, EntryOK, Filling, Ahead, WriteSteps
  <2>2. QED
    BY <1>1, <1>2, <2>1 DEF TableInv, Counted, FreshIn
<1>5. TagsInv'
  BY <1>1, <1>2, FlashSame DEF TagsInv
<1>6. ScanInv'
  BY <1>1 DEF ScanInv
<1>7. GcInv'
  BY <1>1 DEF GcInv, GcSteps
<1>8. OpInv'
  <2>1. ReplacedIsThere => ReplacedIsThere'
    BY DEF ReplacedIsThere, WithValue, GcSteps, Used
  <2>2. QED
    BY <1>1, <2>1 DEF OpInv, GcSteps, InCall
<1>9. WriteInv'
  BY <1>1 DEF WriteInv
<1>10. SpareInv'
  BY <1>1, Numbers DEF SpareInv, Booting, GcSteps
<1>11. QED
  BY <1>3, <1>4, <1>5, <1>6, <1>7, <1>8, <1>9, <1>10 DEF IInv

(* The workspace the search found too full is not fresh: an item fits in   *)
(* every fresh block.                                                      *)
LEMMA FullWorkspace ==
  ASSUME IInv, NoneInuse
  PROVE  /\ pc = "search" /\ Unlisted = {}
         /\ \A b \in FreshBlocks : b \in Blocks /\ mgr.blk[b].free >= SizeOf(op.val) /\ b # workspace
<1>1. Typed /\ TableInv /\ pc = "search" /\ workspace \in {0} \cup Blocks /\ ~WorkspaceFits /\ workspace # 0
  BY DEF IInv, NoneInuse, Searching, Typed
<1>2. Unlisted = {}
  BY <1>1 DEF Unlisted
<1>3. ASSUME NEW b \in FreshBlocks
      PROVE  b \in Blocks /\ mgr.blk[b].free >= SizeOf(op.val)
  <2>1. b \in Blocks /\ mgr.blk[b].fresh
    BY DEF FreshBlocks
  <2>2. EntryOK(b) /\ mgr.blk[b].free \in 0 .. Slots
    BY <1>1, <1>2, <2>1, TableFacts DEF EntryType
  <2>3. Used(b) = 0 /\ Ahead(b) = 0
    BY <1>1, <2>1, <2>2 DEF EntryOK, Filling, Ahead, WriteSteps
  <2>4. mgr.blk[b].free = Slots
    BY <2>2, <2>3, Numbers DEF EntryOK
  <2>5. QED
    BY <2>1, <2>4, SizeFacts
<1>4. QED
  BY <1>1, <1>2, <1>3 DEF WorkspaceFits

LEMMA UseWorkspaceKeeps ==
  ASSUME IInv, UseWorkspace
  PROVE  IInv'
<1>1. workspace \in Blocks
  BY DEF IInv, Typed, UseWorkspace, Searching
<1>2. /\ pc = "search" /\ mgr.blk[workspace].free >= SizeOf(op.val)
      /\ workspace' = workspace /\ pc' = "fix" /\ UNCHANGED <<flash, mgr, op, gc, scan, result>>
  BY DEF UseWorkspace, UseBlock, Searching, WorkspaceFits
<1>3. QED
  BY <1>1, <1>2, UseBlockKeeps

LEMMA UseInuseKeeps ==
  ASSUME IInv, UseInuse
  PROVE  IInv'
<1>1. NextInRing(Roomy) \in Roomy /\ Roomy \subseteq Blocks
  <2>1. Roomy \in SUBSET Blocks /\ workspace \in {0} \cup Blocks
    BY DEF IInv, Typed, Roomy, InuseBlocks
  <2>2. QED
    BY <2>1, RingFacts DEF UseInuse
<1>2. /\ pc = "search" /\ mgr.blk[NextInRing(Roomy)].free >= SizeOf(op.val)
      /\ workspace' = NextInRing(Roomy) /\ pc' = "fix" /\ UNCHANGED <<flash, mgr, op, gc, scan, result>>
  BY <1>1 DEF UseInuse, UseBlock, Searching, Roomy
<1>3. QED
  BY <1>1, <1>2, UseBlockKeeps

LEMMA UseFreshKeeps ==
  ASSUME IInv, UseFresh
  PROVE  IInv'
<1>1. Typed /\ TableInv /\ NoneInuse /\ workspace \in {0} \cup Blocks /\ mgr.numFresh >= 1
  <2>1. Typed /\ TableInv /\ mgr.numFresh \in Nat
    BY SetsOfTable DEF IInv
  <2>2. QED
    BY <2>1 DEF Typed, UseFresh
<1>2. /\ pc = "search"
      /\ \A b \in FreshBlocks : b \in Blocks /\ mgr.blk[b].free >= SizeOf(op.val) /\ b # workspace
  BY <1>1, FullWorkspace
<1>3. FreshBlocks # {} /\ FreshBlocks \in SUBSET Blocks
  BY <1>1, SetsOfTable
<1>4. NextInRing(FreshBlocks) \in FreshBlocks
  BY <1>1, <1>2, <1>3, RingFacts
<1>5. workspace' = NextInRing(FreshBlocks) /\ pc' = "fix" /\ UNCHANGED <<flash, mgr, op, gc, scan, result>>
  BY DEF UseFresh, UseBlock
<1>6. QED
  BY <1>2, <1>4, <1>5, UseBlockKeeps

LEMMA CollectKeeps ==
  ASSUME IInv, Collect
  PROVE  IInv'
<1>1. /\ Typed /\ TableInv /\ TagsInv /\ ScanInv /\ GcInv /\ OpInv /\ WriteInv /\ SpareInv
      /\ pc = "search" /\ pc' = "markSrc" /\ UNCHANGED <<flash, mgr, workspace, op, scan, result>>
      /\ NextInRing(FreshBlocks) # 0 /\ DirtyBlocks # {}
  BY DEF IInv, Collect, StartGc, NoneInuse, Searching, CanCollect
<1>2. Unlisted = {} /\ Unlisted' = {}
  BY <1>1 DEF Unlisted
<1>3. FirstOf(DirtyBlocks) \in DirtyBlocks /\ NextInRing(FreshBlocks) \in FreshBlocks
  <2>1. FreshBlocks \in SUBSET Blocks /\ DirtyBlocks \subseteq Blocks /\ workspace \in {0} \cup Blocks
    BY <1>1, SetsOfTable DEF Typed
  <2>2. DirtyBlocks \in SUBSET Nat
    BY <2>1, Numbers
  <2>3. QED
    BY <1>1, <2>1, <2>2, FirstOfFacts, RingFacts
<1>4. /\ gc' \in GcType /\ gc'.src \in Blocks /\ gc'.dst \in Blocks /\ gc'.next = 1 /\ gc'.for = "search"
      /\ mgr.blk[gc'.src].dirty /\ mgr.blk[gc'.dst].fresh
  <2>1. FirstOf(DirtyBlocks) \in Blocks /\ NextInRing(FreshBlocks) \in Blocks
    BY <1>1, <1>3, SetsOfTable
  <2>2. /\ gc' \in GcType /\ gc'.src = FirstOf(DirtyBlocks) /\ gc'.dst = NextInRing(FreshBlocks)
        /\ gc'.next = 1 /\ gc'.for = "search"
    <3>1. gc' = GcFor(FirstOf(DirtyBlocks), NextInRing(FreshBlocks), "search")
      BY Zenon DEF Collect, StartGc, GcFor
    <3>2. QED
      BY <2>1, <3>1, StartedGc
  <2>3. QED
    BY <1>3, <2>1, <2>2 DEF DirtyBlocks, FreshBlocks
<1>5. /\ EntryOK(gc'.src) /\ EntryOK(gc'.dst)
      /\ ~mgr.blk[gc'.src].fresh /\ Used(gc'.dst) = 0 /\ gc'.src # gc'.dst
  <2>1. EntryOK(gc'.src) /\ EntryOK(gc'.dst)
    BY <1>1, <1>2, <1>4, TableFacts
  <2>2. QED
    BY <1>1, <1>4, <2>1 DEF EntryOK, Filling, WriteSteps
<1>6. Typed'
  BY <1>1, <1>4 DEF Typed, Steps, GcSteps, Used
<1>7. TableInv'
  <2>1. \A b \in Blocks : EntryOK(b)'
    BY <1>1, <1>2, FlashSame DEF TableInv, EntryOK, Filling, Ahead, WriteSteps
  <2>2. QED
    BY <1>1, <1>2, <2>1 DEF TableInv, Counted, FreshIn
<1>8. TagsInv'
  BY <1>1, <1>2, FlashSame DEF TagsInv
<1>9. ScanInv'
  BY <1>1 DEF ScanInv
<1>10. GcInv'
  <2>1. Used(gc.dst)' = 0
    BY <1>1, <1>4, <1>5 DEF Used
  <2>2. QED
    BY <1>1, <1>4, <1>5, <2>1 DEF GcInv, GcSteps
<1>11. OpInv'
  <2>1. ReplacedIsThere => ReplacedIsThere'
    BY <1>1 DEF ReplacedIsThere, WithValue, GcSteps, Used
  <2>2. QED
    BY <1>1, <1>4, <2>1 DEF OpInv, GcSteps, InCall
<1>12. WriteInv'
  BY <1>1 DEF WriteInv
<1>13. SpareInv'
  BY <1>1, <1>4 DEF SpareInv, Booting, InuseIn, FreshIn, GcSteps
<1>14. QED
  BY <1>6, <1>7, <1>8, <1>9, <1>10, <1>11, <1>12, <1>13 DEF IInv

-----------------------------------------------------------------------------
(* Steps that walk the table while they look for an item.                  *)
LEMMA SlotWritten ==
  ASSUME Typed, NEW b \in Blocks, NEW s \in 1 .. Used(b)
  PROVE  /\ PosOf(b, s) \in Written /\ At(PosOf(b, s)) = flash[b].items[s]
         /\ BlockOf(PosOf(b, s)) = b /\ SlotOf(PosOf(b, s)) = s
<1>1. Used(b) <= Slots /\ Used(b) \in Nat /\ Slots \in Nat
  BY Numbers DEF Typed, Used, BlockType
<1>2. s \in 1 .. Slots
  BY <1>1
<1>3. QED
  BY <1>1, <1>2, PosFacts DEF Written, At

LEMMA WrittenFacts ==
  ASSUME Typed, NEW p \in Written
  PROVE  /\ p \in Positions /\ BlockOf(p) \in Blocks /\ SlotOf(p) \in 1 .. Used(BlockOf(p))
         /\ p = PosOf(BlockOf(p), SlotOf(p)) /\ p # 0
         /\ Used(BlockOf(p)) \in 1 .. Slots /\ At(p) \in Item
<1>1. p \in Positions /\ SlotOf(p) <= Used(BlockOf(p))
  BY DEF Written
<1>2. BlockOf(p) \in Blocks /\ SlotOf(p) \in 1 .. Slots /\ p = PosOf(BlockOf(p), SlotOf(p)) /\ p # 0
  BY <1>1, PosInverse, Numbers
<1>3. /\ flash[BlockOf(p)].items \in Seq(Item) /\ Used(BlockOf(p)) = Len(flash[BlockOf(p)].items)
      /\ Used(BlockOf(p)) <= Slots /\ Slots \in Nat
  BY <1>2, Numbers DEF Typed, BlockType, Used
<1>4. SlotOf(p) \in 1 .. Used(BlockOf(p)) /\ Used(BlockOf(p)) \in 1 .. Slots
  BY <1>1, <1>2, <1>3
<1>5. At(p) \in Item
  BY <1>3, <1>4 DEF At
<1>6. QED
  BY <1>1, <1>2, <1>4, <1>5

LEMMA FindKey ==
  ASSUME Typed, NEW k
  PROVE  /\ Find(k) = 0 \/ Find(k) \in Written
         /\ Find(k) # 0 => At(Find(k)).state = "live" /\ At(Find(k)).key = k
<1>1. Copies(k) \in SUBSET Positions /\ \A p \in Copies(k) : p \in Written /\ At(p).state = "live" /\ At(p).key = k
  BY DEF Copies, Live, Written
<1> DEFINE T == Copies(k)
<1>2. Find(k) = FirstMatch(T)
  BY DEF Find
<1> HIDE DEF T
<1>3. FirstMatch(T) # 0 => FirstMatch(T) \in T
  BY <1>1, FindFacts DEF T
<1>4. QED
  BY <1>1, <1>2, <1>3 DEF T

LEMMA WalkKeepsTable ==
  ASSUME IInv, pc \in {"idle", "fix"}, NEW p, mgr' = WalkUpTo(p),
         pc' \in {"idle", "search", "discard", "writeHeader"},
         UNCHANGED <<flash, workspace, gc, scan>>
  PROVE  /\ mgr' \in TableType /\ TableInv' /\ SpareInv'
         /\ \A b \in Blocks : mgr'.blk[b].free = mgr.blk[b].free /\ (mgr'.blk[b].fresh => Used(b) = 0)
<1>1. Typed /\ TableInv /\ SpareInv /\ mgr \in TableType
  BY DEF IInv, Typed
<1>2. Unlisted = {} /\ Unlisted' = {}
  BY DEF Unlisted
<1>3. ASSUME NEW b \in Blocks
      PROVE  Used(b) \in Nat /\ Describes(mgr.blk[b], b) /\ mgr.blk[b].free \in 0 .. Slots /\ Used(b)' = Used(b)
                /\ Garbage(b)' = Garbage(b)
  <2>1. EntryOK(b) /\ Used(b) \in 0 .. Slots /\ mgr.blk[b] \in EntryType
    BY <1>1, <1>2, TableFacts
  <2>2. ~Filling(b) /\ Ahead(b) = 0
    BY DEF Filling, Ahead, WriteSteps
  <2>3. QED
    BY <2>1, <2>2, Numbers, FlashSame DEF EntryOK, Describes, EntryType
<1> DEFINE n == WalkUpTo(p)
<1>4. /\ n \in TableType /\ Counted(n) /\ \A b \in Blocks : Describes(n.blk[b], b)
      /\ FreshIn(n) \subseteq FreshIn(mgr) \cup InuseIn(mgr) /\ InuseIn(n) \subseteq InuseIn(mgr)
  <2>1. Counted(mgr)
    BY <1>1 DEF TableInv
  <2>2. QED
    BY <1>1, <1>3, <2>1, WalkUpToFacts
<1>5. mgr' = n
  OBVIOUS
<1> HIDE DEF n
<1>6. ASSUME NEW b \in Blocks
      PROVE  EntryOK(b)' /\ mgr'.blk[b].free = mgr.blk[b].free /\ (mgr'.blk[b].fresh => Used(b) = 0)
  <2>1. n.blk[b] \in EntryType
    BY <1>4 DEF TableType
  <2>2. n.blk[b].free = mgr.blk[b].free
    BY <1>3, <1>4, <2>1, Numbers DEF Describes, EntryType
  <2>3. Ahead(b)' = 0
    BY DEF Ahead
  <2>4. Describes(n.blk[b], b)
    BY <1>4
  <2>5. EntryOK(b)'
    BY <1>3, <1>5, <2>3, <2>4, Numbers DEF EntryOK, Describes
  <2>6. QED
    BY <1>5, <2>2, <2>4, <2>5 DEF Describes
<1>7. TableInv'
  <2>1. Counted(mgr)'
    BY <1>4, <1>5 DEF Counted, FreshIn
  <2>2. QED
    BY <1>2, <1>6, <2>1 DEF TableInv
<1>8. SpareInv'
  <2>1. FreshIn(mgr)' = FreshIn(n) /\ InuseIn(mgr)' = InuseIn(n)
    BY <1>5 DEF FreshIn, InuseIn
  <2>2. ~Booting /\ ~Booting'
    BY DEF Booting, GcSteps
  <2>3. QED
    BY <1>1, <1>4, <2>1, <2>2 DEF SpareInv
<1>9. QED
  BY <1>4, <1>5, <1>6, <1>7, <1>8

LEMMA LookUpKeeps ==
  ASSUME IInv, NEW k \in Keys, LookUp(k)
  PROVE  IInv'
<1>1. /\ Typed /\ TableInv /\ TagsInv /\ ScanInv /\ GcInv /\ OpInv /\ WriteInv /\ SpareInv
      /\ pc = "idle" /\ pc' = "idle" /\ UNCHANGED <<flash, workspace, op, gc, scan, result>>
      /\ mgr' = WalkUpTo(Find(k))
  BY DEF IInv, LookUp
<1>2. mgr' \in TableType /\ TableInv' /\ SpareInv'
  BY <1>1, WalkKeepsTable
<1>3. Typed'
  BY <1>1, <1>2 DEF Typed, Steps, Used
<1>4. TagsInv'
  <2>1. Unlisted = {} /\ Unlisted' = {}
    BY <1>1 DEF Unlisted
  <2>2. QED
    BY <1>1, <2>1, FlashSame DEF TagsInv
<1>5. ScanInv'
  BY <1>1 DEF ScanInv
<1>6. GcInv'
  BY <1>1 DEF GcInv, GcSteps
<1>7. OpInv'
  BY <1>1 DEF OpInv, GcSteps, InCall
<1>8. WriteInv'
  BY <1>1 DEF WriteInv
<1>9. QED
  BY <1>2, <1>3, <1>4, <1>5, <1>6, <1>7, <1>8 DEF IInv

(* The call starts: it knows where the item it replaces is.                *)
LEMMA BeginOpKeeps ==
  ASSUME IInv, NEW k \in Keys, NEW v \in Values \cup {NoValue}, BeginOp(k, v),
         \/ pc' = "search" /\ v \in Values
         \/ pc' = "discard" /\ Find(k) # 0
  PROVE  IInv'
<1>0. PICK p : p = Find(k)
  OBVIOUS
<1>1. /\ Typed /\ TableInv /\ TagsInv /\ ScanInv /\ GcInv /\ OpInv /\ WriteInv /\ SpareInv
      /\ pc = "idle" /\ UNCHANGED <<flash, workspace, gc, scan>>
      /\ mgr' = WalkUpTo(p) /\ result' = "none"
      /\ op' = [key |-> k, val |-> v, pos |-> p, item |-> IF p = 0 THEN NoOp.item ELSE At(p)]
  BY <1>0, Zenon DEF IInv, BeginOp
<1>2. /\ p = 0 \/ p \in Written
      /\ p # 0 => At(p).state = "live" /\ At(p).key = k
  BY <1>0, <1>1, FindKey
<1>3. mgr' \in TableType /\ TableInv' /\ SpareInv' /\ \A b \in Blocks : mgr'.blk[b].fresh => Used(b) = 0
  BY <1>1, WalkKeepsTable
<1>4. p # 0 => /\ p \in Positions /\ BlockOf(p) \in Blocks /\ SlotOf(p) \in 1 .. Used(BlockOf(p))
               /\ At(p) \in Item /\ ~mgr'.blk[BlockOf(p)].fresh
  <2>1. SUFFICES ASSUME p # 0
                 PROVE  /\ p \in Positions /\ BlockOf(p) \in Blocks /\ SlotOf(p) \in 1 .. Used(BlockOf(p))
                        /\ At(p) \in Item /\ ~mgr'.blk[BlockOf(p)].fresh
    OBVIOUS
  <2>2. /\ p \in Positions /\ BlockOf(p) \in Blocks /\ SlotOf(p) \in 1 .. Used(BlockOf(p)) /\ At(p) \in Item
        /\ Used(BlockOf(p)) \in 1 .. Slots
    BY <1>1, <1>2, <2>1, WrittenFacts
  <2>3. Used(BlockOf(p)) # 0
    BY <2>2
  <2>4. QED
    BY <1>3, <2>2, <2>3
<1>5. Typed'
  <2>1. NoOp.item \in Item
    BY DEF NoOp, Item, Broken
  <2>2. op' \in OpType
    BY <1>1, <1>4, <2>1 DEF OpType
  <2>3. QED
    BY <1>1, <1>3, <2>2 DEF Typed, Steps, Used
<1>6. TagsInv'
  <2>1. Unlisted = {} /\ Unlisted' = {}
    BY <1>1 DEF Unlisted
  <2>2. QED
    BY <1>1, <2>1, FlashSame DEF TagsInv
<1>7. ScanInv'
  BY <1>1 DEF ScanInv
<1>8. GcInv'
  BY <1>1 DEF GcInv, GcSteps
<1>9. op'.key = k /\ op'.val = v /\ op'.pos = p /\ (p # 0 => op'.item = At(p))
  BY <1>1
<1>10. OpInv'
  <2>1. p # 0 => ReplacedIsThere'
    <3>1. SUFFICES ASSUME p # 0 PROVE ReplacedIsThere'
      OBVIOUS
    <3>2. WithValue(BlockOf(p), SlotOf(p))'
      BY <1>1, <1>2, <1>9, <3>1 DEF WithValue, At
    <3>3. SlotOf(p) \in 1 .. Used(BlockOf(p))'
      BY <1>1, <1>4, <3>1, FlashSame
    <3>4. QED
      BY <1>4, <3>1, <3>2, <3>3 DEF ReplacedIsThere
  <2>2. Written' = Written
    BY <1>1 DEF Written, Used
  <2>3. QED
    BY <1>0, <1>1, <1>2, <1>4, <1>9, <2>1, <2>2 DEF OpInv, GcSteps, InCall
<1>11. WriteInv'
  BY <1>1 DEF WriteInv
<1>12. QED
  BY <1>3, <1>5, <1>6, <1>7, <1>8, <1>10, <1>11 DEF IInv

LEMMA BeginSetKeeps ==
  ASSUME IInv, NEW k \in Keys, NEW v \in Values, BeginSet(k, v)
  PROVE  IInv'
BY BeginOpKeeps DEF BeginSet

LEMMA BeginDelKeeps ==
  ASSUME IInv, NEW k \in Keys, BeginDel(k)
  PROVE  IInv'
BY BeginOpKeeps DEF BeginDel

(* kv_item_fix finds the item that is replaced, wherever a collection      *)
(* moved it to.                                                            *)
LEMMA NewCopyExists ==
  ASSUME Typed, OpInv, pc = "fix", op.pos # 0
  PROVE  /\ NewCopy \in Written /\ ~mgr.blk[BlockOf(NewCopy)].fresh
         /\ At(NewCopy).state = "live" /\ At(NewCopy).key = op.item.key /\ At(NewCopy).val = op.item.val
<1> DEFINE T == {p \in Copies(op.item.key) : At(p).val = op.item.val}
<1>1. /\ T \in SUBSET Positions
      /\ \A p \in T : p \in Written /\ At(p).state = "live" /\ At(p).key = op.item.key /\ At(p).val = op.item.val
  BY DEF Copies, Live, Written
<1>2. NewCopy = FirstMatch(T)
  BY DEF NewCopy
<1>3. \E p \in T : ~mgr.blk[BlockOf(p)].fresh
  <2>a. PICK b \in Blocks : \E s \in 1 .. Used(b) : WithValue(b, s) /\ ~mgr.blk[b].fresh
    BY DEF OpInv, ReplacedIsThere, GcSteps
  <2>1. PICK s \in 1 .. Used(b) : WithValue(b, s) /\ ~mgr.blk[b].fresh
    BY <2>a
  <2>2. PosOf(b, s) \in Written /\ At(PosOf(b, s)) = flash[b].items[s] /\ BlockOf(PosOf(b, s)) = b
    BY SlotWritten
  <2>3. PosOf(b, s) \in T
    BY <2>1, <2>2 DEF WithValue, Copies, Live
  <2>4. QED
    BY <2>1, <2>2, <2>3
<1> HIDE DEF T
<1>4. FirstMatch(T) \in T /\ ~mgr.blk[BlockOf(FirstMatch(T))].fresh
  BY <1>1, <1>3, FindFacts
<1>5. QED
  BY <1>1, <1>2, <1>4

LEMMA FixPrevKeeps ==
  ASSUME IInv, FixPrev
  PROVE  IInv'
<1>1. /\ Typed /\ TableInv /\ TagsInv /\ ScanInv /\ GcInv /\ OpInv /\ WriteInv /\ SpareInv
      /\ pc = "fix" /\ UNCHANGED <<flash, workspace, gc, scan>>
  BY DEF IInv, FixPrev
<1>2. Moved => NewCopy # 0
  <2>1. SUFFICES ASSUME Moved PROVE NewCopy # 0
    OBVIOUS
  <2>2. op.pos # 0
    BY <2>1 DEF Moved
  <2>3. QED
    BY <1>1, <2>2, NewCopyExists, WrittenFacts
<1>3. PICK p : p = IF Moved THEN NewCopy ELSE op.pos
  OBVIOUS
<1>4. /\ pc' = "writeHeader" /\ result' = result
      /\ op' = [op EXCEPT !.pos = p]
      /\ IF Moved THEN mgr' = WalkUpTo(p) ELSE mgr' = mgr
  <2>1. CASE Moved
    BY <1>2, <1>3, <2>1, Zenon DEF FixPrev
  <2>2. CASE ~Moved
    <3>1. pc' = "writeHeader" /\ result' = result /\ op' = op /\ mgr' = mgr /\ p = op.pos
      BY <1>3, <2>2, Zenon DEF FixPrev
    <3>2. [op EXCEPT !.pos = op.pos] = op
      BY <1>1 DEF Typed, OpType
    <3>3. QED
      BY <2>2, <3>1, <3>2
  <2>3. QED
    BY <2>1, <2>2
<1>5. p # 0 => p \in Written /\ ~mgr.blk[BlockOf(p)].fresh
  <2>1. SUFFICES ASSUME p # 0 PROVE p \in Written /\ ~mgr.blk[BlockOf(p)].fresh
    OBVIOUS
  <2>2. CASE Moved
    <3>1. op.pos # 0
      BY <2>2 DEF Moved
    <3>2. QED
      BY <1>1, <1>3, <2>2, <3>1, NewCopyExists
  <2>3. CASE ~Moved
    <3>1. p = op.pos /\ p \in Written
      BY <1>3, <2>1, <2>3 DEF Moved
    <3>2. BlockOf(p) \in Blocks /\ Used(BlockOf(p)) \in 1 .. Slots
      BY <1>1, <3>1, WrittenFacts
    <3>3. Unlisted = {}
      BY <1>1 DEF Unlisted
    <3>4. EntryOK(BlockOf(p)) /\ ~Filling(BlockOf(p))
      BY <1>1, <3>2, <3>3, TableFacts DEF Filling, WriteSteps
    <3>5. Used(BlockOf(p)) # 0
      BY <3>2
    <3>6. QED
      BY <3>1, <3>4, <3>5 DEF EntryOK
  <2>4. QED
    BY <2>2, <2>3
<1>6. /\ mgr' \in TableType /\ TableInv' /\ SpareInv'
      /\ \A b \in Blocks : mgr'.blk[b].free = mgr.blk[b].free
      /\ p # 0 => ~mgr'.blk[BlockOf(p)].fresh
  <2>1. CASE Moved
    <3>1. /\ mgr' \in TableType /\ TableInv' /\ SpareInv'
          /\ \A b \in Blocks : mgr'.blk[b].free = mgr.blk[b].free /\ (mgr'.blk[b].fresh => Used(b) = 0)
      <4>1. mgr' = WalkUpTo(p) /\ pc \in {"idle", "fix"} /\ pc' \in {"idle", "search", "discard", "writeHeader"}
        BY <1>1, <1>4, <2>1
      <4>2. QED
        BY <1>1, <4>1, WalkKeepsTable
    <3>2. p # 0 => BlockOf(p) \in Blocks /\ Used(BlockOf(p)) # 0
      <4>1. p # 0 => BlockOf(p) \in Blocks /\ Used(BlockOf(p)) \in 1 .. Slots
        BY <1>1, <1>5, WrittenFacts
      <4>2. QED
        BY <4>1
    <3>3. QED
      BY <3>1, <3>2
  <2>2. CASE ~Moved
    <3>1. mgr' = mgr /\ Unlisted = {} /\ Unlisted' = {}
      BY <1>1, <1>4, <2>2 DEF Unlisted
    <3>2. \A b \in Blocks : EntryOK(b)'
      BY <1>1, <1>4, <3>1, FlashSame DEF TableInv, EntryOK, Filling, Ahead, WriteSteps
    <3>3. TableInv'
      BY <1>1, <1>4, <3>1, <3>2 DEF TableInv, Counted, FreshIn
    <3>4. SpareInv'
      BY <1>1, <1>4, <3>1 DEF SpareInv, Booting, InuseIn, FreshIn, GcSteps
    <3>5. QED
      BY <1>1, <1>5, <3>1, <3>3, <3>4 DEF Typed
  <2>3. QED
    BY <2>1, <2>2
<1>7. /\ op' \in OpType /\ op'.key = op.key /\ op'.val = op.val /\ op'.pos = p
  <2>1. p \in {0} \cup Positions
    BY <1>5 DEF Written
  <2>2. op \in OpType
    BY <1>1 DEF Typed
  <2>3. QED
    BY <1>4, <2>1, <2>2 DEF OpType
<1>8. Typed'
  BY <1>1, <1>4, <1>6, <1>7 DEF Typed, Steps, Used
<1>9. TagsInv'
  <2>1. Unlisted = {} /\ Unlisted' = {}
    BY <1>1, <1>4 DEF Unlisted
  <2>2. QED
    BY <1>1, <1>4, <2>1, FlashSame DEF TagsInv
<1>10. ScanInv'
  BY <1>1, <1>4 DEF ScanInv
<1>11. GcInv'
  BY <1>1, <1>4 DEF GcInv, GcSteps
<1>12. OpInv'
  <2>1. Written' = Written
    BY <1>1 DEF Written, Used
  <2>2. QED
    BY <1>1, <1>4, <1>5, <1>6, <1>7, <2>1 DEF OpInv, GcSteps, InCall
<1>13. WriteInv'
  <2>1. SizeOf(op.val)' = SizeOf(op.val)
    BY <1>7 DEF SizeOf
  <2>2. QED
    BY <1>1, <1>4, <1>6, <2>1 DEF WriteInv
<1>14. QED
  BY <1>6, <1>8, <1>9, <1>10, <1>11, <1>12, <1>13 DEF IInv

-----------------------------------------------------------------------------
(* The steps of a call that write the flash.                               *)
LEMMA ItemsFacts ==
  ASSUME NEW f \in [Blocks -> BlockType], NEW b \in Blocks, NEW q \in Seq(Item)
  PROVE  /\ [f EXCEPT ![b].items = q] \in [Blocks -> BlockType]
         /\ \A c \in Blocks \ {b} : [f EXCEPT ![b].items = q][c] = f[c]
         /\ SameTags([f EXCEPT ![b].items = q][b], f[b])
         /\ [f EXCEPT ![b].items = q][b].items = q
<1> DEFINE blk == [f[b] EXCEPT !.items = q]
           g == [f EXCEPT ![b].items = q]
<1>1. g = [f EXCEPT ![b] = blk]
  BY Zenon
<1>2. f[b] \in BlockType
  OBVIOUS
<1>3. blk \in BlockType /\ SameTags(blk, f[b]) /\ blk.items = q
  BY <1>2 DEF BlockType, SameTags
<1> HIDE DEF g, blk
<1>4. g \in [Blocks -> BlockType] /\ g[b] = blk /\ \A c \in Blocks \ {b} : g[c] = f[c]
  BY <1>1, <1>3
<1>5. QED
  BY <1>3, <1>4 DEF g

LEMMA TagsSame ==
  ASSUME \A b \in Blocks : SameTags(flash'[b], flash[b])
  PROVE  SrcBlocks' = SrcBlocks /\ DstBlocks' = DstBlocks /\ \A b \in Blocks : flash'[b].magic = flash[b].magic
BY DEF SameTags, SrcBlocks, DstBlocks, IsSrc, IsDstNotDone

(* What a step that writes behind the last item, or over an item of the    *)
(* workspace, keeps.                                                       *)
WritesTo(b) ==
  /\ flash' \in [Blocks -> BlockType]
  /\ \A c \in Blocks \ {b} : flash'[c] = flash[c]
  /\ SameTags(flash'[b], flash[b])
  /\ Used(b)' \in Used(b) .. Slots
  /\ Garbage(b)' = Garbage(b)

LEMMA WriteKeeps ==
  ASSUME IInv, pc \in {"writeHeader", "writeMagic", "writeBody", "discard"},
         pc' \in {"writeMagic", "writeBody", "discard", "idle"},
         UNCHANGED <<workspace, gc, scan>>, NEW b \in Blocks, WritesTo(b)
  PROVE  /\ ScanInv' /\ GcInv' /\ TagsInv' /\ Written \subseteq Written'
         /\ \A c \in Blocks : Used(c)' <= Slots
         /\ \A c \in Blocks \ {b} : Used(c)' = Used(c) /\ Garbage(c)' = Garbage(c)
         /\ Unlisted = {} /\ Unlisted' = {}
<1>1. /\ Typed /\ TableInv /\ TagsInv /\ ScanInv /\ GcInv /\ WriteInv
      /\ Unlisted = {} /\ Unlisted' = {}
  BY DEF IInv, Unlisted
<1>2. \A c \in Blocks \ {b} : Used(c)' = Used(c) /\ Garbage(c)' = Garbage(c)
  BY DEF WritesTo, Used, Garbage
<1>4. ScanInv' /\ GcInv'
  BY <1>1 DEF ScanInv, GcInv, GcSteps
<1>5. TagsInv'
  <2>1. \A c \in Blocks : SameTags(flash'[c], flash[c])
    BY DEF WritesTo, SameTags
  <2>2. SrcBlocks' = SrcBlocks /\ DstBlocks' = DstBlocks /\ \A c \in Blocks : flash'[c].magic
    BY <1>1, <2>1, TagsSame DEF TagsInv
  <2>3. QED
    BY <1>1, <2>2 DEF TagsInv
<1>6. \A c \in Blocks : Used(c)' <= Slots /\ Used(c)' >= Used(c)
  <2>1. \A c \in Blocks : Used(c) \in 0 .. Slots
    BY <1>1, TableFacts
  <2>2. QED
    BY <1>2, <2>1, Numbers DEF WritesTo
<1>7. Written \subseteq Written'
  <2>1. ASSUME NEW p \in Written
        PROVE  p \in Written'
    <3>1. /\ p \in Positions /\ BlockOf(p) \in Blocks /\ SlotOf(p) \in 1 .. Used(BlockOf(p))
          /\ Used(BlockOf(p)) \in 1 .. Slots
      BY <1>1, WrittenFacts
    <3>2. Used(BlockOf(p))' >= Used(BlockOf(p)) /\ Used(BlockOf(p))' \in Int
      BY <1>2, <1>6, <3>1 DEF WritesTo
    <3>3. SlotOf(p) <= Used(BlockOf(p))'
      BY <3>1, <3>2
    <3>4. QED
      BY <3>1, <3>3 DEF Written
  <2>2. QED
    BY <2>1
<1>8. QED
  BY <1>1, <1>2, <1>4, <1>5, <1>6, <1>7

LEMMA WriteHeaderKeeps ==
  ASSUME IInv, WriteHeader
  PROVE  IInv'
<1>1. /\ Typed /\ TableInv /\ TagsInv /\ ScanInv /\ GcInv /\ OpInv /\ WriteInv /\ SpareInv
      /\ pc = "writeHeader" /\ pc' = "writeMagic" /\ UNCHANGED <<mgr, workspace, op, gc, scan, result>>
      /\ workspace \in Blocks
  BY DEF IInv, WriteHeader, WriteInv
<1>w. PICK w \in Blocks : w = workspace
  BY <1>1
<1> DEFINE old == flash[w].items
           q == Append(old, Broken("torn"))
<1>2. old \in Seq(Item) /\ Used(w) = Len(old)
  BY <1>1 DEF Typed, BlockType, Used
<1>3. Broken("torn") \in Item /\ Broken("torn").state = "torn"
  BY DEF Item, Broken
<1>4. /\ q \in Seq(Item) /\ Len(q) = Len(old) + 1 /\ q[Len(q)] = Broken("torn")
      /\ \A i \in 1 .. Len(old) : q[i] = old[i]
  BY <1>2, <1>3
<1>5. flash' = [flash EXCEPT ![w].items = q]
  BY <1>w, Zenon DEF WriteHeader
<1> HIDE DEF q
<1>6. /\ flash' \in [Blocks -> BlockType] /\ \A c \in Blocks \ {w} : flash'[c] = flash[c]
      /\ SameTags(flash'[w], flash[w]) /\ flash'[w].items = q
  BY <1>1, <1>4, <1>5, ItemsFacts DEF Typed
<1>7. Used(w)' = Used(w) + 1
  BY <1>1, <1>2, <1>4, <1>6 DEF Used
<1>8. Garbage(w)' = Garbage(w)
  <2>1. Len(old) \in Nat
    BY <1>2
  <2>2. Garbage(w)' = {s \in 1 .. Len(old) + 1 : q[s].state = "discarded"}
    BY <1>1, <1>2, <1>6, <1>7 DEF Garbage
  <2>3. Garbage(w) = {s \in 1 .. Len(old) : old[s].state = "discarded"}
    BY <1>2 DEF Garbage
  <2>4. q[Len(old) + 1].state # "discarded"
    BY <1>3, <1>4
  <2> HIDE DEF old
  <2>5. QED
    BY <1>4, <2>1, <2>2, <2>3, <2>4
<1>9. EntryOK(w) /\ Ahead(w) = 0 /\ SizeOf(op.val) \in 1 .. 2 /\ mgr.blk[w].free >= SizeOf(op.val)
        /\ Used(w) \in 0 .. Slots /\ mgr.blk[w].free \in 0 .. Slots
  <2>1. EntryOK(w) /\ Used(w) \in 0 .. Slots /\ mgr.blk[w] \in EntryType
    BY <1>1, TableFacts DEF Unlisted
  <2>2. QED
    BY <1>w, <1>1, <2>1, SizeFacts DEF Ahead, WriteInv, EntryType
<1>10. Used(w)' \in Used(w) .. Slots
  BY <1>7, <1>9, Numbers DEF EntryOK
<1>11. WritesTo(w)
  BY <1>6, <1>8, <1>10 DEF WritesTo
<1>12. /\ ScanInv' /\ GcInv' /\ TagsInv' /\ Written \subseteq Written'
       /\ \A b \in Blocks : Used(b)' <= Slots
       /\ \A c \in Blocks \ {w} : Used(c)' = Used(c) /\ Garbage(c)' = Garbage(c)
  <2>1. pc \in {"writeHeader", "writeMagic", "writeBody"} /\ pc' \in {"writeMagic", "writeBody", "discard", "idle"}
    BY <1>1
  <2>2. QED
    BY <1>1, <1>11, <2>1, WriteKeeps
<1>13. Typed'
  BY <1>1, <1>6, <1>12 DEF Typed, Steps, WriteSteps
<1>14. TableInv'
  <2>1. EntryOK(w)'
    <3>1. Ahead(w)' = 1 /\ Filling(w)'
      BY <1>w, <1>1 DEF Ahead, Filling, WriteSteps
    <3>2. QED
      BY <1>1, <1>7, <1>8, <1>9, <3>1, Numbers DEF EntryOK
  <2>2. \A c \in Blocks \ {w} : EntryOK(c)'
    BY <1>w, <1>1, <1>12 DEF TableInv, EntryOK, Filling, Ahead, WriteSteps, Unlisted
  <2>3. Unlisted = {} /\ Unlisted' = {}
    BY <1>1 DEF Unlisted
  <2>4. QED
    BY <1>1, <2>1, <2>2, <2>3 DEF TableInv, Counted, FreshIn
<1>15. OpInv'
  BY <1>1, <1>12 DEF OpInv, GcSteps, InCall
<1>16. WriteInv'
  <2>1. flash'[w].items[Used(w)'] = Broken("torn")
    BY <1>2, <1>4, <1>6, <1>7
  <2>2. QED
    BY <1>w, <1>1, <2>1 DEF WriteInv
<1>17. SpareInv'
  BY <1>1 DEF SpareInv, Booting, InuseIn, FreshIn, GcSteps
<1>18. QED
  BY <1>12, <1>13, <1>14, <1>15, <1>16, <1>17 DEF IInv

LEMMA Joined ==
  ASSUME NEW S, NEW x \in Seq(S), NEW y \in Seq(S)
  PROVE  /\ x \o y \in Seq(S) /\ Len(x \o y) = Len(x) + Len(y)
         /\ \A i \in 1 .. Len(x) : (x \o y)[i] = x[i]
         /\ \A i \in Len(x) + 1 .. Len(x) + Len(y) : (x \o y)[i] = y[i - Len(x)] /\ i - Len(x) \in 1 .. Len(y)
<1>1. x \o y \in Seq(S) /\ Len(x \o y) = Len(x) + Len(y)
  OBVIOUS
<1>2. \A i \in 1 .. Len(x) : (x \o y)[i] = x[i]
  OBVIOUS
<1>3. ASSUME NEW i \in Len(x) + 1 .. Len(x) + Len(y)
      PROVE  (x \o y)[i] = y[i - Len(x)] /\ i - Len(x) \in 1 .. Len(y)
  <2>1. Len(x) \in Nat /\ Len(y) \in Nat
    OBVIOUS
  <2>2. i \in 1 .. Len(x) + Len(y) /\ i > Len(x) /\ i \in Int
    BY <2>1
  <2>3. QED
    BY <2>1, <2>2
<1>4. QED
  BY <1>1, <1>2, <1>3

LEMMA WriteMagicFacts ==
  ASSUME IInv, WriteMagic, NEW w \in Blocks, w = workspace
  PROVE  LET old == flash[w].items
             n == Len(old)
             q == flash'[w].items
         IN
         /\ old \in Seq(Item) /\ Used(w) = n /\ n \in Nat
         /\ EntryOK(w) /\ Ahead(w) = 1 /\ SizeOf(op.val) \in 1 .. 2 /\ mgr.blk[w].free >= SizeOf(op.val)
         /\ n \in 0 .. Slots /\ mgr.blk[w].free \in 0 .. Slots /\ n + mgr.blk[w].free = Slots + 1
         /\ n > 0 /\ old[n] = Broken("torn")
         /\ q \in Seq(Item) /\ Len(q) = n + SizeOf(op.val) - 1 /\ q[n] = Broken("partial")
         /\ \A i \in 1 .. n - 1 : q[i] = old[i]
         /\ \A i \in n + 1 .. Len(q) : q[i].state = "rest"
         /\ SizeOf(op.val) = 2 => q[Len(q)] = Broken("rest")
         /\ flash' \in [Blocks -> BlockType] /\ \A c \in Blocks \ {w} : flash'[c] = flash[c]
         /\ SameTags(flash'[w], flash[w])
<1>1. /\ Typed /\ TableInv /\ TagsInv /\ ScanInv /\ GcInv /\ OpInv /\ WriteInv /\ SpareInv
      /\ pc = "writeMagic" /\ pc' = "writeBody" /\ UNCHANGED <<mgr, workspace, op, gc, scan, result>>
      /\ workspace \in Blocks
  BY DEF IInv, WriteMagic, WriteInv
<1> DEFINE old == flash[w].items
           n == Len(old)
           rest == Rest(op.val)
<1>2. old \in Seq(Item) /\ Used(w) = n /\ n \in Nat
  BY <1>1 DEF Typed, BlockType, Used
<1>3. /\ rest \in Seq(Item) /\ Len(rest) = SizeOf(op.val) - 1
      /\ SizeOf(op.val) = 2 => rest[1] = Broken("rest")
      /\ \A i \in 1 .. Len(rest) : rest[i].state = "rest"
  <2>1. Broken("rest") \in Item /\ Broken("rest").state = "rest"
    BY DEF Item, Broken
  <2>2. CASE op.val \in Big
    <3>1. rest = <<Broken("rest")>>
      BY <2>2 DEF Rest
    <3> HIDE DEF rest
    <3>2. QED
      BY <2>1, <2>2, <3>1 DEF SizeOf
  <2>3. CASE op.val \notin Big
    <3>1. rest = <<>>
      BY <2>3 DEF Rest
    <3> HIDE DEF rest
    <3>2. QED
      BY <2>3, <3>1 DEF SizeOf
  <2>4. QED
    BY <2>2, <2>3
<1>4. /\ EntryOK(w) /\ Ahead(w) = 1 /\ SizeOf(op.val) \in 1 .. 2 /\ mgr.blk[w].free >= SizeOf(op.val)
      /\ n \in 0 .. Slots /\ mgr.blk[w].free \in 0 .. Slots /\ n + mgr.blk[w].free = Slots + 1
      /\ n > 0 /\ old[n] = Broken("torn")
  <2>1. EntryOK(w) /\ Used(w) \in 0 .. Slots /\ mgr.blk[w] \in EntryType
    BY <1>1, TableFacts DEF Unlisted
  <2>2. Ahead(w) = 1
    BY <1>1 DEF Ahead
  <2>3. SizeOf(op.val) \in 1 .. 2 /\ mgr.blk[w].free >= SizeOf(op.val) /\ old[n] = Broken("torn")
    BY <1>1, <1>2, SizeFacts DEF WriteInv
  <2>4. Used(w) + mgr.blk[w].free = Slots + 1 /\ mgr.blk[w].free \in 0 .. Slots
    BY <2>1, <2>2 DEF EntryOK, EntryType
  <2>5. QED
    BY <1>2, <2>1, <2>2, <2>3, <2>4, Numbers
<1>5. LastOf(w) = PosOf(w, n)
  <2>1. old[n].state # "rest"
    BY <1>4 DEF Broken
  <2>2. n \in 1 .. Used(w) /\ Used(w) \in Nat
    BY <1>2, <1>4
  <2>3. \A t \in n + 1 .. Used(w) : flash[w].items[t].state = "rest"
    BY <1>2, <1>4
  <2>4. QED
    BY <2>1, <2>2, <2>3, LastStart
<1> DEFINE g == Put(PosOf(w, n), Broken("partial"))
           q == g[w].items \o rest
<1>6. /\ g \in [Blocks -> BlockType]
      /\ \A c \in Blocks \ {w} : g[c] = flash[c]
      /\ SameTags(g[w], flash[w]) /\ Len(g[w].items) = n
      /\ g[w].items[n] = Broken("partial") /\ \A t \in 1 .. n : t # n => g[w].items[t] = old[t]
  <2>1. Broken("partial") \in Item
    BY DEF Item, Broken
  <2>2. flash \in [Blocks -> BlockType] /\ Used(w) <= Slots /\ n \in 1 .. Used(w)
    BY <1>1, <1>2, <1>4 DEF Typed
  <2>3. QED
    BY <1>2, <2>1, <2>2, PutFacts
<1>7. flash' = [g EXCEPT ![w].items = q]
  BY <1>5, Zenon DEF WriteMagic
<1> HIDE DEF g
<1>8. /\ q \in Seq(Item) /\ Len(q) = n + SizeOf(op.val) - 1 /\ q[n] = Broken("partial")
      /\ \A i \in 1 .. n - 1 : q[i] = old[i]
      /\ \A i \in n + 1 .. Len(q) : q[i].state = "rest"
      /\ SizeOf(op.val) = 2 => q[Len(q)] = Broken("rest")
  <2>1. g[w].items \in Seq(Item)
    BY <1>6 DEF BlockType
  <2> DEFINE x == g[w].items
             k == SizeOf(op.val)
  <2>2. x \in Seq(Item) /\ Len(x) = n /\ x[n] = Broken("partial") /\ \A i \in 1 .. n - 1 : x[i] = old[i]
    BY <1>2, <1>6, <2>1
  <2>3. k \in 1 .. 2 /\ n \in Nat /\ n > 0
    BY <1>2, <1>4
  <2>4. q = x \o rest
    OBVIOUS
  <2> HIDE DEF x, old, n, rest, k, q
  <2>a. /\ x \o rest \in Seq(Item) /\ Len(x \o rest) = Len(x) + Len(rest)
        /\ \A i \in 1 .. Len(x) : (x \o rest)[i] = x[i]
        /\ \A i \in Len(x) + 1 .. Len(x) + Len(rest) : (x \o rest)[i] = rest[i - Len(x)] /\ i - Len(x) \in 1 .. Len(rest)
    BY <1>3, <2>2, Joined
  <2>5. q \in Seq(Item) /\ Len(q) = n + Len(rest)
    BY <2>2, <2>4, <2>a
  <2>6. \A i \in 1 .. n : q[i] = x[i]
    BY <2>2, <2>4, <2>a
  <2>7. \A i \in n + 1 .. Len(q) : q[i] = rest[i - n] /\ i - n \in 1 .. Len(rest)
    BY <2>2, <2>4, <2>5, <2>a
  <2>8. Len(q) = n + k - 1
    BY <1>3, <2>3, <2>5 DEF k
  <2>9. k = 2 => q[Len(q)] = Broken("rest")
    <3>1. SUFFICES ASSUME k = 2 PROVE q[Len(q)] = Broken("rest")
      OBVIOUS
    <3>2. Len(q) = n + 1 /\ Len(q) \in n + 1 .. Len(q)
      BY <2>3, <2>8, <3>1
    <3>3. q[Len(q)] = rest[Len(q) - n]
      BY <2>7, <3>2
    <3>4. Len(q) - n = 1
      BY <2>3, <3>2
    <3>5. rest[1] = Broken("rest")
      BY <1>3, <3>1 DEF k
    <3>6. QED
      BY <3>3, <3>4, <3>5
  <2>10. \A i \in n + 1 .. Len(q) : q[i].state = "rest"
    BY <1>3, <2>7
  <2>11. q[n] = Broken("partial") /\ \A i \in 1 .. n - 1 : q[i] = old[i]
    BY <2>2, <2>3, <2>6
  <2>12. QED
    BY <2>5, <2>8, <2>9, <2>10, <2>11 DEF k
<1> HIDE DEF q
<1>9. /\ flash' \in [Blocks -> BlockType] /\ \A c \in Blocks \ {w} : flash'[c] = g[c]
      /\ SameTags(flash'[w], g[w]) /\ flash'[w].items = q
  BY <1>6, <1>7, <1>8, ItemsFacts
<1>10. /\ \A c \in Blocks \ {w} : flash'[c] = flash[c]
       /\ SameTags(flash'[w], flash[w])
  BY <1>6, <1>9 DEF SameTags
<1> HIDE DEF n, old
<1>11. QED
  BY <1>2, <1>4, <1>8, <1>9, <1>10 DEF n, old

LEMMA WriteMagicKeeps ==
  ASSUME IInv, WriteMagic
  PROVE  IInv'
<1>1. /\ Typed /\ TableInv /\ TagsInv /\ ScanInv /\ GcInv /\ OpInv /\ WriteInv /\ SpareInv
      /\ pc = "writeMagic" /\ pc' = "writeBody" /\ UNCHANGED <<mgr, workspace, op, gc, scan, result>>
      /\ workspace \in Blocks
  BY DEF IInv, WriteMagic, WriteInv
<1>w. PICK w \in Blocks : w = workspace
  BY <1>1
<1> DEFINE old == flash[w].items
           n == Len(old)
           q == flash'[w].items
<1>2. /\ old \in Seq(Item) /\ Used(w) = n /\ n \in Nat
      /\ EntryOK(w) /\ Ahead(w) = 1 /\ SizeOf(op.val) \in 1 .. 2 /\ mgr.blk[w].free >= SizeOf(op.val)
      /\ n \in 0 .. Slots /\ mgr.blk[w].free \in 0 .. Slots /\ n + mgr.blk[w].free = Slots + 1
      /\ n > 0 /\ old[n] = Broken("torn")
      /\ q \in Seq(Item) /\ Len(q) = n + SizeOf(op.val) - 1 /\ q[n] = Broken("partial")
      /\ \A i \in 1 .. n - 1 : q[i] = old[i]
      /\ \A i \in n + 1 .. Len(q) : q[i].state = "rest"
      /\ SizeOf(op.val) = 2 => q[Len(q)] = Broken("rest")
      /\ flash' \in [Blocks -> BlockType] /\ \A c \in Blocks \ {w} : flash'[c] = flash[c]
      /\ SameTags(flash'[w], flash[w])
  BY <1>w, WriteMagicFacts, Zenon
<1>11. Used(w)' = n + SizeOf(op.val) - 1
  BY <1>2 DEF Used
<1>12. Garbage(w)' = Garbage(w)
  <2>1. Garbage(w)' = {s \in 1 .. Len(q) : q[s].state = "discarded"}
    BY <1>2 DEF Garbage, Used
  <2>2. Garbage(w) = {s \in 1 .. n : old[s].state = "discarded"}
    BY <1>2 DEF Garbage
  <2>3. old[n].state # "discarded" /\ q[n].state # "discarded"
    BY <1>2 DEF Broken
  <2>4. \A i \in n + 1 .. Len(q) : q[i].state # "discarded"
    BY <1>2
  <2>5. \A i \in 1 .. n - 1 : q[i] = old[i]
    BY <1>2
  <2>6. Len(q) >= n /\ Len(q) \in Nat /\ n \in Nat
    BY <1>2
  <2> HIDE DEF old, n
  <2>7. QED
    BY <2>1, <2>2, <2>3, <2>4, <2>5, <2>6
<1>13. Used(w)' \in Used(w) .. Slots
  <2> HIDE DEF n
  <2>1. QED
    BY <1>2, <1>11, Numbers
<1>14. WritesTo(w)
  BY <1>2, <1>12, <1>13 DEF WritesTo
<1>15. /\ ScanInv' /\ GcInv' /\ TagsInv' /\ Written \subseteq Written'
       /\ \A b \in Blocks : Used(b)' <= Slots
       /\ \A c \in Blocks \ {w} : Used(c)' = Used(c) /\ Garbage(c)' = Garbage(c)
       /\ Unlisted = {} /\ Unlisted' = {}
  <2>1. pc \in {"writeHeader", "writeMagic", "writeBody", "discard"} /\ pc' \in {"writeMagic", "writeBody", "discard", "idle"}
    BY <1>1
  <2>2. QED
    BY <1>1, <1>14, <2>1, WriteKeeps
<1>16. Typed'
  BY <1>1, <1>2, <1>15 DEF Typed, Steps, WriteSteps
<1>17. SizeOf(op.val)' = SizeOf(op.val)
  BY <1>1
<1>18. TableInv'
  <2>1. EntryOK(w)'
    <3>1. Ahead(w)' = SizeOf(op.val) /\ Filling(w)'
      BY <1>1, <1>w, <1>17 DEF Ahead, Filling, WriteSteps
    <3>2. Used(w)' + mgr'.blk[w].free = Slots + Ahead(w)'
      <4> DEFINE k == SizeOf(op.val)
                 f == mgr.blk[w].free
                 a == Ahead(w)'
                 u == Used(w)'
      <4>1. a = k /\ mgr'.blk[w].free = f
        BY <1>1, <3>1
      <4>2. k \in 1 .. 2 /\ f \in 0 .. Slots /\ n + f = Slots + 1 /\ n \in Nat /\ u = n + k - 1
        BY <1>2, <1>11
      <4> HIDE DEF n, k, f, a, u
      <4>3. u + f = Slots + a
        BY <4>1, <4>2, Numbers
      <4>4. QED
        BY <4>1, <4>3 DEF u, a
    <3>3. QED
      BY <1>1, <1>2, <1>12, <3>1, <3>2 DEF EntryOK
  <2>2. \A c \in Blocks \ {w} : EntryOK(c)'
    BY <1>w, <1>1, <1>15 DEF TableInv, EntryOK, Filling, Ahead, WriteSteps
  <2>3. QED
    BY <1>1, <1>15, <2>1, <2>2 DEF TableInv, Counted, FreshIn
<1>19. OpInv'
  BY <1>1, <1>15 DEF OpInv, GcSteps, InCall
<1>20. WriteInv'
  <2>1. flash'[w].items[Used(w)' - SizeOf(op.val) + 1] = Broken("partial")
    <3> HIDE DEF n
    <3>1. Used(w)' - SizeOf(op.val) + 1 = n
      BY <1>2, <1>11
    <3>2. QED
      BY <1>2, <3>1
  <2>2. SizeOf(op.val) = 2 => flash'[w].items[Used(w)'] = Broken("rest")
    BY <1>2, <1>11
  <2>3. QED
    BY <1>1, <1>w, <1>17, <2>1, <2>2 DEF WriteInv
<1>21. SpareInv'
  BY <1>1 DEF SpareInv, Booting, InuseIn, FreshIn, GcSteps
<1>22. QED
  BY <1>15, <1>16, <1>18, <1>19, <1>20, <1>21 DEF IInv

LEMMA SlotTakenFacts ==
  ASSUME NEW m \in TableType, NEW b \in Blocks, m.blk[b].free >= SizeOf(op.val),
         m.blk[b].inuse <=> ~m.blk[b].fresh /\ m.blk[b].free > 0
  PROVE  LET n == SlotTaken(m, b)
             left == m.blk[b].free - SizeOf(op.val)
         IN  Changes(n, m, b) /\ left \in 0 .. Slots
               /\ Fields(n.blk[b], FALSE, left > 0, m.blk[b].dirty, left)
<1> DEFINE left == m.blk[b].free - SizeOf(op.val)
           r == SetFree(m, b, left)
           n == SlotTaken(m, b)
<1>1. m.blk[b] \in EntryType /\ m.blk[b].free \in 0 .. Slots /\ SizeOf(op.val) \in 1 .. 2
  BY SizeFacts DEF TableType, EntryType
<1>2. left \in 0 .. Slots /\ m.blk[b].free > 0
  BY <1>1, Numbers
<1>3. n = IF r.blk[b].free = 0
          THEN IF m.blk[b].fresh THEN ResetFresh(r, b) ELSE ResetInuse(r, b)
          ELSE IF m.blk[b].fresh THEN SetInuse(ResetFresh(r, b), b) ELSE r
  BY DEF SlotTaken
<1> HIDE DEF left, n
<1>4. Changes(r, m, b) /\ Fields(r.blk[b], m.blk[b].fresh, m.blk[b].inuse, m.blk[b].dirty, left)
  BY <1>2, SetFreeFacts
<1> HIDE DEF r
<1>5. r \in TableType /\ r.blk[b].free = left
  BY <1>4 DEF Changes, Fields
<1>6. CASE left = 0 /\ m.blk[b].fresh
  <2>1. n = ResetFresh(r, b)
    BY <1>3, <1>5, <1>6
  <2>2. Changes(n, r, b) /\ Fields(n.blk[b], FALSE, r.blk[b].inuse, r.blk[b].dirty, r.blk[b].free)
    BY <1>5, <2>1, ResetFreshFacts
  <2>3. Changes(n, m, b)
    BY <1>4, <2>2, ChangesTwice
  <2>4. QED
    BY <1>2, <1>4, <1>6, <2>2, <2>3 DEF Fields, n, left
<1>7. CASE left = 0 /\ ~m.blk[b].fresh
  <2>1. n = ResetInuse(r, b)
    BY <1>3, <1>5, <1>7
  <2>2. Changes(n, r, b) /\ Fields(n.blk[b], r.blk[b].fresh, FALSE, r.blk[b].dirty, r.blk[b].free)
    BY <1>5, <2>1, ResetInuseFacts
  <2>3. Changes(n, m, b)
    BY <1>4, <2>2, ChangesTwice
  <2>4. QED
    BY <1>2, <1>4, <1>7, <2>2, <2>3 DEF Fields, n, left
<1>8. CASE left # 0 /\ m.blk[b].fresh
  <2> DEFINE q == ResetFresh(r, b)
  <2>1. n = SetInuse(q, b)
    BY <1>3, <1>5, <1>8
  <2>2. Changes(q, r, b) /\ Fields(q.blk[b], FALSE, r.blk[b].inuse, r.blk[b].dirty, r.blk[b].free)
    BY <1>5, ResetFreshFacts
  <2> HIDE DEF q
  <2>3. q \in TableType
    BY <2>2 DEF Changes
  <2>4. Changes(n, q, b) /\ Fields(n.blk[b], q.blk[b].fresh, TRUE, q.blk[b].dirty, q.blk[b].free)
    BY <2>1, <2>3, SetInuseFacts
  <2>5. Changes(n, m, b)
    BY <1>4, <2>2, <2>4, ChangesTwice
  <2>6. QED
    BY <1>2, <1>4, <1>8, <2>2, <2>4, <2>5 DEF Fields, n, left
<1>9. CASE left # 0 /\ ~m.blk[b].fresh
  <2>1. n = r
    BY <1>3, <1>5, <1>9
  <2>2. QED
    BY <1>2, <1>4, <1>9, <2>1 DEF Fields, n, left
<1>10. QED
  BY <1>6, <1>7, <1>8, <1>9

LEMMA WriteBodyFacts ==
  ASSUME IInv, WriteBody, NEW w \in Blocks, w = workspace
  PROVE  LET old == flash[w].items
             n == Len(old)
             z == SizeOf(op.val)
             k == n - z + 1
         IN
         /\ old \in Seq(Item) /\ Used(w) = n /\ n \in Nat
         /\ EntryOK(w) /\ Ahead(w) = z /\ z \in 1 .. 2 /\ mgr.blk[w].free >= z
         /\ n \in 0 .. Slots /\ mgr.blk[w].free \in 0 .. Slots /\ n + mgr.blk[w].free = Slots + z
         /\ old[k] = Broken("partial") /\ (z = 2 => old[n] = Broken("rest"))
         /\ mgr \in TableType /\ k \in 1 .. n
         /\ NewItem \in Item /\ NewItem.state = "live"
         /\ flash' \in [Blocks -> BlockType] /\ \A c \in Blocks \ {w} : flash'[c] = flash[c]
         /\ SameTags(flash'[w], flash[w]) /\ Len(flash'[w].items) = n
         /\ flash'[w].items[k] = NewItem /\ \A t \in 1 .. n : t # k => flash'[w].items[t] = old[t]
<1>1. /\ Typed /\ TableInv /\ TagsInv /\ ScanInv /\ GcInv /\ OpInv /\ WriteInv /\ SpareInv
      /\ pc = "writeBody" /\ UNCHANGED <<workspace, gc, scan>>
      /\ workspace \in Blocks
      /\ op.key \in Keys /\ op.val \in Values /\ result = "none" /\ op \in OpType
  BY DEF IInv, Typed, WriteBody, WriteInv, OpInv, InCall
<1> DEFINE old == flash[w].items
           n == Len(old)
           z == SizeOf(op.val)
           k == n - z + 1
<1>3. old \in Seq(Item) /\ Used(w) = n /\ n \in Nat
  BY <1>1 DEF Typed, BlockType, Used
<1>4. /\ EntryOK(w) /\ Ahead(w) = z /\ z \in 1 .. 2 /\ mgr.blk[w].free >= z
      /\ n \in 0 .. Slots /\ mgr.blk[w].free \in 0 .. Slots /\ n + mgr.blk[w].free = Slots + z
      /\ old[k] = Broken("partial") /\ (z = 2 => old[n] = Broken("rest"))
      /\ mgr \in TableType
  <2>1. EntryOK(w) /\ Used(w) \in 0 .. Slots /\ mgr.blk[w] \in EntryType
    BY <1>1, TableFacts DEF Unlisted
  <2>2. Ahead(w) = z
    BY <1>1 DEF Ahead
  <2>3. z \in 1 .. 2 /\ mgr.blk[w].free >= z /\ old[k] = Broken("partial") /\ (z = 2 => old[n] = Broken("rest"))
    BY <1>1, <1>3, SizeFacts DEF WriteInv
  <2>4. Used(w) + mgr.blk[w].free = Slots + z /\ mgr.blk[w].free \in 0 .. Slots
    BY <2>1, <2>2 DEF EntryOK, EntryType
  <2>5. mgr \in TableType
    BY <1>1 DEF Typed
  <2> HIDE DEF n, z, old, k
  <2>6. QED
    BY <1>3, <2>1, <2>2, <2>3, <2>4, <2>5, Numbers
<1>5. k \in 1 .. n
  <2> HIDE DEF n, z
  <2>1. QED
    BY <1>3, <1>4, Numbers
<1>6. LastOf(w) = PosOf(w, k)
  <2>1. old[k].state # "rest"
    BY <1>4 DEF Broken
  <2>2. \A t \in k + 1 .. Used(w) : flash[w].items[t].state = "rest"
    <3>1. SUFFICES ASSUME NEW t \in k + 1 .. n PROVE old[t].state = "rest"
      BY <1>3
    <3>2. z = 2 /\ t = n
      <4> HIDE DEF n, z
      <4>1. QED
        BY <1>3, <1>4
    <3>3. QED
      BY <1>4, <3>2 DEF Broken
  <2>3. QED
    BY <1>3, <1>5, <2>1, <2>2, LastStart
<1>7. NewItem \in Item /\ NewItem.state = "live"
  <2>1. op.pos \in {0} \cup Positions
    BY <1>1 DEF OpType
  <2>2. QED
    BY <1>1, <2>1 DEF NewItem, Item
<1>8. /\ flash' \in [Blocks -> BlockType] /\ \A c \in Blocks \ {w} : flash'[c] = flash[c]
      /\ SameTags(flash'[w], flash[w]) /\ Len(flash'[w].items) = n
      /\ flash'[w].items[k] = NewItem /\ \A t \in 1 .. n : t # k => flash'[w].items[t] = old[t]
  <2>1. flash' = Put(PosOf(w, k), NewItem)
    BY <1>6 DEF WriteBody
  <2>2. flash \in [Blocks -> BlockType] /\ Used(w) <= Slots
    BY <1>1 DEF Typed
  <2> HIDE DEF k
  <2>3. QED
    BY <1>3, <1>5, <1>7, <2>1, <2>2, PutFacts
<1> HIDE DEF n, z, k, old
<1>9. QED
  BY <1>3, <1>4, <1>5, <1>7, <1>8 DEF n, z, k, old

LEMMA WriteBodyKeeps ==
  ASSUME IInv, WriteBody
  PROVE  IInv'
<1>1. /\ Typed /\ TableInv /\ TagsInv /\ ScanInv /\ GcInv /\ OpInv /\ WriteInv /\ SpareInv
      /\ pc = "writeBody" /\ UNCHANGED <<workspace, gc, scan>>
      /\ workspace \in Blocks
      /\ op.key \in Keys /\ op.val \in Values /\ result = "none" /\ op \in OpType
  BY DEF IInv, Typed, WriteBody, WriteInv, OpInv, InCall
<1>w. PICK w \in Blocks : w = workspace
  BY <1>1
<1>2. IF op.pos = 0 THEN pc' = "idle" /\ op' = NoOp /\ result' = "ok"
                    ELSE pc' = "discard" /\ op' = op /\ result' = result
  BY DEF WriteBody, Return
<1> DEFINE old == flash[w].items
           n == Len(old)
           z == SizeOf(op.val)
           k == n - z + 1
<1>3. /\ old \in Seq(Item) /\ Used(w) = n /\ n \in Nat
      /\ EntryOK(w) /\ Ahead(w) = z /\ z \in 1 .. 2 /\ mgr.blk[w].free >= z
      /\ n \in 0 .. Slots /\ mgr.blk[w].free \in 0 .. Slots /\ n + mgr.blk[w].free = Slots + z
      /\ old[k] = Broken("partial") /\ (z = 2 => old[n] = Broken("rest"))
      /\ mgr \in TableType /\ k \in 1 .. n
      /\ NewItem \in Item /\ NewItem.state = "live"
      /\ flash' \in [Blocks -> BlockType] /\ \A c \in Blocks \ {w} : flash'[c] = flash[c]
      /\ SameTags(flash'[w], flash[w]) /\ Len(flash'[w].items) = n
      /\ flash'[w].items[k] = NewItem /\ \A t \in 1 .. n : t # k => flash'[w].items[t] = old[t]
  BY <1>w, WriteBodyFacts, Zenon
<1>9. Used(w)' = Used(w) /\ Garbage(w)' = Garbage(w)
  <2>1. Used(w)' = n
    BY <1>3 DEF Used
  <2>2. old[k].state # "discarded" /\ flash'[w].items[k].state # "discarded"
    BY <1>3 DEF Broken
  <2>3. Garbage(w)' = {s \in 1 .. n : flash'[w].items[s].state = "discarded"}
    BY <2>1 DEF Garbage
  <2>4. Garbage(w) = {s \in 1 .. n : old[s].state = "discarded"}
    BY <1>3 DEF Garbage
  <2> HIDE DEF old, n, k
  <2>5. QED
    BY <1>3, <2>1, <2>2, <2>3, <2>4
<1>10. WritesTo(w)
  BY <1>3, <1>9 DEF WritesTo
<1>11. /\ ScanInv' /\ GcInv' /\ TagsInv' /\ Written \subseteq Written'
       /\ \A c \in Blocks : Used(c)' <= Slots
       /\ \A c \in Blocks \ {w} : Used(c)' = Used(c) /\ Garbage(c)' = Garbage(c)
       /\ Unlisted = {} /\ Unlisted' = {}
  <2>1. pc \in {"writeHeader", "writeMagic", "writeBody", "discard"} /\ pc' \in {"writeMagic", "writeBody", "discard", "idle"}
    BY <1>1, <1>2
  <2>2. QED
    BY <1>1, <1>10, <2>1, WriteKeeps
<1> DEFINE left == mgr.blk[w].free - z
<1>12. /\ Changes(mgr', mgr, w) /\ left \in 0 .. Slots
       /\ Fields(mgr'.blk[w], FALSE, left > 0, mgr.blk[w].dirty, left)
  <2>1. mgr' = SlotTaken(mgr, w)
    BY <1>w DEF WriteBody
  <2>2. mgr.blk[w].inuse <=> ~mgr.blk[w].fresh /\ mgr.blk[w].free > 0
    BY <1>3 DEF EntryOK
  <2>3. QED
    BY <1>3, <2>1, <2>2, SlotTakenFacts
<1>13. Typed'
  <2>1. NoOp \in OpType
    BY DEF NoOp, OpType, Item, Broken
  <2>2. mgr' \in TableType
    BY <1>12 DEF Changes
  <2>3. op' \in OpType /\ pc' \in Steps /\ result' \in {"none", "ok", "failed"}
    BY <1>1, <1>2, <2>1 DEF Steps
  <2>4. QED
    BY <1>1, <1>3, <1>11, <2>2, <2>3 DEF Typed
<1>14. TableInv'
  <2>1. EntryOK(w)'
    <3>1. Ahead(w)' = 0
      BY <1>2 DEF Ahead
    <3>2. Used(w)' + left = Slots + 0
      <4> DEFINE f == mgr.blk[w].free
      <4>1. n \in Nat /\ n + f = Slots + z /\ f \in 0 .. Slots /\ z \in 1 .. 2 /\ Used(w)' = n
        BY <1>3, <1>9
      <4>2. left = f - z
        OBVIOUS
      <4> HIDE DEF n, f, z, left
      <4>3. QED
        BY <4>1, <4>2, Numbers
    <3>3. Garbage(w) # {} => mgr.blk[w].dirty
      BY <1>3 DEF EntryOK
    <3> HIDE DEF left
    <3>4. QED
      BY <1>9, <1>12, <3>1, <3>2, <3>3 DEF EntryOK, Fields
  <2>2. \A c \in Blocks \ {w} : EntryOK(c)'
    <3> TAKE c \in Blocks \ {w}
    <3>1. EntryOK(c) /\ mgr'.blk[c] = mgr.blk[c] /\ Used(c)' = Used(c) /\ Garbage(c)' = Garbage(c)
      BY <1>1, <1>11, <1>12 DEF TableInv, Changes
    <3>2. ~Filling(c) /\ Ahead(c) = 0 /\ Ahead(c)' = 0
      BY <1>1, <1>w, <1>2 DEF Filling, Ahead, WriteSteps
    <3>3. QED
      BY <3>1, <3>2 DEF EntryOK
  <2>3. Counted(mgr)'
    BY <1>1, <1>12 DEF TableInv, Changes, Counted, FreshIn
  <2>4. pc' \notin {"off", "scan", "formatDst"}
    BY <1>2
  <2>5. QED
    BY <1>11, <2>1, <2>2, <2>3, <2>4 DEF TableInv
<1>15. OpInv'
  <2>1. CASE op.pos = 0
    BY <1>1, <1>2, <2>1 DEF OpInv, GcSteps, InCall
  <2>2. CASE op.pos # 0
    <3>1. op.pos \in Written' /\ BlockOf(op.pos) \in Blocks /\ ~mgr.blk[BlockOf(op.pos)].fresh
      BY <1>1, <1>11, <2>2, WrittenFacts DEF OpInv
    <3>2. ~mgr'.blk[BlockOf(op.pos)].fresh
      BY <1>12, <3>1 DEF Changes, Fields
    <3>3. QED
      BY <1>1, <1>2, <2>2, <3>1, <3>2 DEF OpInv, GcSteps, InCall
  <2>3. QED
    BY <2>1, <2>2
<1>16. WriteInv'
  BY <1>1, <1>2 DEF WriteInv
<1>17. SpareInv'
  BY <1>1, <1>2, Numbers DEF SpareInv, Booting, GcSteps
<1>18. QED
  BY <1>11, <1>13, <1>14, <1>15, <1>16, <1>17 DEF IInv

LEMMA DiscardFacts ==
  ASSUME Typed, NEW p \in Written
  PROVE  LET b == BlockOf(p)
             g == Discard(p)
         IN  /\ b \in Blocks /\ g \in [Blocks -> BlockType]
             /\ \A c \in Blocks \ {b} : g[c] = flash[c]
             /\ SameTags(g[b], flash[b]) /\ Len(g[b].items) = Used(b)
             /\ g[b].items[SlotOf(p)].state = "discarded"
             /\ \A t \in 1 .. Used(b) : t # SlotOf(p) => g[b].items[t] = flash[b].items[t]
<1> DEFINE b == BlockOf(p)
           s == SlotOf(p)
<1>1. b \in Blocks /\ s \in 1 .. Used(b) /\ p = PosOf(b, s)
  BY WrittenFacts
<1>2. Broken("discarded") \in Item /\ Broken("discarded").state = "discarded"
  BY DEF Broken, Item
<1>3. flash \in [Blocks -> BlockType] /\ Used(b) <= Slots
  BY <1>1 DEF Typed
<1>4. Discard(p) = Put(PosOf(b, s), Broken("discarded"))
  BY <1>1 DEF Discard
<1> HIDE DEF b, s
<1>5. QED
  BY <1>1, <1>2, <1>3, <1>4, PutFacts DEF b, s

LEMMA DiscardOldKeeps ==
  ASSUME IInv, DiscardOld
  PROVE  IInv'
<1>1. /\ Typed /\ TableInv /\ TagsInv /\ ScanInv /\ GcInv /\ OpInv /\ WriteInv /\ SpareInv
      /\ pc = "discard" /\ pc' = "idle" /\ UNCHANGED <<workspace, gc, scan>>
      /\ op' = NoOp /\ result' = "ok"
      /\ op.pos \in Written /\ ~mgr.blk[BlockOf(op.pos)].fresh
  BY DEF IInv, DiscardOld, Return, OpInv
<1>2. PICK p \in Written : p = op.pos
  BY <1>1
<1>3. PICK b \in Blocks : b = BlockOf(p)
  BY <1>1, WrittenFacts
<1>4. PICK s \in 1 .. Used(b) : s = SlotOf(p)
  BY <1>1, <1>3, WrittenFacts
<1>5. /\ flash' \in [Blocks -> BlockType]
      /\ \A c \in Blocks \ {b} : flash'[c] = flash[c]
      /\ SameTags(flash'[b], flash[b]) /\ Len(flash'[b].items) = Used(b)
  BY <1>1, <1>2, <1>3, DiscardFacts DEF DiscardOld
<1>6. Used(b) \in 0 .. Slots /\ EntryOK(b) /\ ~mgr.blk[b].fresh /\ mgr \in TableType
  BY <1>1, <1>2, <1>3, TableFacts DEF Unlisted, Typed
<1>7. Used(b)' = Used(b)
  BY <1>5 DEF Used
<1>8. Changes(mgr', mgr, b) /\ Fields(mgr'.blk[b], mgr.blk[b].fresh, mgr.blk[b].inuse, TRUE, mgr.blk[b].free)
  <2>1. mgr' = SetDirty(mgr, b)
    BY <1>2, <1>3 DEF DiscardOld
  <2>2. QED
    BY <1>6, <2>1, SetDirtyFacts
<1>9. SrcBlocks' = SrcBlocks /\ DstBlocks' = DstBlocks /\ \A c \in Blocks : flash'[c].magic = flash[c].magic
  <2>1. \A c \in Blocks : SameTags(flash'[c], flash[c])
    BY <1>5 DEF SameTags
  <2>2. QED
    BY <2>1, TagsSame
<1>10. \A c \in Blocks \ {b} : Used(c)' = Used(c) /\ Garbage(c)' = Garbage(c)
  BY <1>5 DEF Used, Garbage
<1>11. Unlisted = {} /\ Unlisted' = {}
  BY <1>1 DEF Unlisted
<1>12. Typed'
  <2>1. NoOp \in OpType
    BY DEF NoOp, OpType, Item, Broken
  <2>2. mgr' \in TableType
    BY <1>8 DEF Changes
  <2>3. \A c \in Blocks : Used(c)' <= Slots
    BY <1>1, <1>7, <1>10 DEF Typed
  <2>4. QED
    BY <1>1, <1>5, <2>1, <2>2, <2>3 DEF Typed, Steps
<1>13. TableInv'
  <2>1. EntryOK(b)'
    <3>1. Ahead(b)' = 0 /\ Ahead(b) = 0
      BY <1>1 DEF Ahead
    <3>2. QED
      BY <1>6, <1>7, <1>8, <3>1 DEF EntryOK, Fields
  <2>2. \A c \in Blocks \ {b} : EntryOK(c)'
    <3> TAKE c \in Blocks \ {b}
    <3>1. EntryOK(c) /\ mgr'.blk[c] = mgr.blk[c] /\ Used(c)' = Used(c) /\ Garbage(c)' = Garbage(c)
      BY <1>1, <1>8, <1>10, <1>11 DEF TableInv, Changes
    <3>2. ~Filling(c) /\ Ahead(c) = 0 /\ Ahead(c)' = 0
      BY <1>1 DEF Filling, Ahead, WriteSteps
    <3>3. QED
      BY <3>1, <3>2 DEF EntryOK
  <2>3. Counted(mgr)'
    BY <1>1, <1>8 DEF TableInv, Changes, Counted, FreshIn
  <2>4. QED
    BY <1>1, <1>11, <2>1, <2>2, <2>3 DEF TableInv
<1>14. TagsInv'
  BY <1>1, <1>9, <1>11 DEF TagsInv
<1>15. ScanInv'
  BY <1>1 DEF ScanInv
<1>16. GcInv'
  BY <1>1 DEF GcInv, GcSteps
<1>17. OpInv'
  BY <1>1 DEF OpInv, GcSteps, InCall
<1>18. WriteInv'
  BY <1>1 DEF WriteInv
<1>19. SpareInv'
  <2>1. FreshIn(mgr)' = FreshIn(mgr) /\ InuseIn(mgr)' = InuseIn(mgr)
    BY <1>8 DEF Changes, Fields, FreshIn, InuseIn
  <2>2. QED
    BY <1>1, <2>1 DEF SpareInv, Booting, GcSteps
<1>20. QED
  BY <1>12, <1>13, <1>14, <1>15, <1>16, <1>17, <1>18, <1>19 DEF IInv

-----------------------------------------------------------------------------
(* Power loss: the tags left behind are those a boot can mend, unless the  *)
(* power is lost in one of the two windows.                                *)
LEMMA InitialTypes ==
  /\ NoOp \in OpType /\ NoGc \in GcType /\ NoScan \in ScanType /\ NoMgr \in TableType
  /\ FreshIn(NoMgr) = {} /\ InuseIn(NoMgr) = {} /\ Counted(NoMgr) /\ NoMgr.numInuse = 0
  /\ \A b \in Blocks : NoMgr.blk[b] = NoFlags
<1>1. NoOp \in OpType
  BY DEF NoOp, OpType, Item, Broken
<1>2. NoGc \in GcType
  BY Numbers DEF NoGc, GcType
<1>3. NoScan \in ScanType
  BY Numbers DEF NoScan, ScanType
<1>4. 0 \in 0 .. Slots /\ 0 \in 0 .. CounterSize - 1
  BY KvAssumption DEF KvAssumption
<1>5. NoFlags \in EntryType /\ ~NoFlags.fresh /\ ~NoFlags.inuse
  BY <1>4 DEF NoFlags, EntryType
<1>6. NoMgr \in TableType /\ NoMgr.numFresh = 0 /\ NoMgr.numInuse = 0 /\ \A b \in Blocks : NoMgr.blk[b] = NoFlags
  BY <1>4, <1>5 DEF NoMgr, TableType
<1>7. FreshIn(NoMgr) = {} /\ InuseIn(NoMgr) = {}
  BY <1>5, <1>6 DEF FreshIn, InuseIn
<1>8. Counted(NoMgr)
  BY <1>6, <1>7, FS_EmptySet DEF Counted
<1>9. QED
  BY <1>1, <1>2, <1>3, <1>6, <1>7, <1>8

LEMMA LeftBehind ==
  ASSUME IInv, PowerLoss, ~LossBeforeDone, ~LossStaleDone
  PROVE  Mendable
<1>1. TagsInv /\ GcInv /\ pc \in Steps /\ (BeforeDone => LossBeforeDone) /\ (StaleDone => LossStaleDone)
  BY DEF IInv, PowerLoss, Typed
<1>2. CASE pc \in {"off", "scan"}
  BY <1>1, <1>2 DEF TagsInv
<1>3. CASE pc \in {"formatDst", "markDst"}
  <2>1. SrcBlocks = {gc.src} /\ DstBlocks = {} /\ gc.dst \in Blocks /\ gc.src # gc.dst /\ Used(gc.dst) = 0
    BY <1>1, <1>3 DEF TagsInv, GcInv, GcSteps
  <2>2. QED
    BY <2>1 DEF Mendable
<1>4. CASE pc = "copy"
  <2>1. /\ SrcBlocks = {gc.src} /\ DstBlocks \subseteq {gc.dst} /\ flash[gc.dst].dst
        /\ gc.dst \in Blocks /\ gc.src # gc.dst
    BY <1>1, <1>4 DEF TagsInv, GcInv, GcSteps
  <2>2. ~flash[gc.dst].done
    BY <1>1, <1>4 DEF StaleDone
  <2>3. DstBlocks = {gc.dst}
    BY <2>1, <2>2 DEF DstBlocks, IsDstNotDone
  <2>4. QED
    BY <2>1, <2>3 DEF Mendable
<1>5. CASE pc \in {"formatSrc", "markDone"}
  <2>1. SrcBlocks = {} /\ DstBlocks \subseteq {gc.dst}
    BY <1>1, <1>5 DEF TagsInv
  <2>2. flash[gc.dst].done
    BY <1>1, <1>5 DEF BeforeDone
  <2>3. DstBlocks = {}
    BY <2>1, <2>2 DEF DstBlocks, IsDstNotDone
  <2>4. QED
    BY <2>1, <2>3 DEF Mendable
<1>6. CASE pc \notin {"off", "scan", "formatDst", "markDst", "copy", "formatSrc", "markDone"}
  <2>1. SrcBlocks = {} /\ DstBlocks = {}
    BY <1>1, <1>6 DEF TagsInv
  <2>2. QED
    BY <2>1 DEF Mendable
<1>7. QED
  BY <1>2, <1>3, <1>4, <1>5, <1>6

LEMMA PowerLossKeeps ==
  ASSUME IInv, PowerLoss, ~LossBeforeDone, ~LossStaleDone
  PROVE  IInv'
<1>1. /\ Typed /\ TableInv /\ TagsInv
      /\ pc' = "off" /\ UNCHANGED flash
      /\ mgr' = NoMgr /\ workspace' = 0
      /\ op' = NoOp /\ gc' = NoGc /\ scan' = NoScan /\ result' = "none"
  BY DEF IInv, PowerLoss
<1>2. Mendable
  BY LeftBehind
<1>3. Unlisted' = Blocks
  BY <1>1 DEF Unlisted
<1>4. Typed'
  BY <1>1, InitialTypes DEF Typed, Steps, Used
<1>5. TableInv'
  <2>1. Counted(mgr)'
    BY <1>1, InitialTypes DEF Counted, FreshIn
  <2>2. QED
    BY <1>1, <1>3, <2>1, InitialTypes DEF TableInv
<1>6. TagsInv'
  <2>1. SrcBlocks' = SrcBlocks /\ DstBlocks' = DstBlocks /\ \A b \in Blocks : Used(b)' = Used(b)
    BY <1>1, FlashSame
  <2>2. Mendable'
    BY <1>2, <2>1 DEF Mendable
  <2>3. \A b \in Blocks : ~flash[b].magic => flash[b] = Erased
    BY <1>1 DEF TagsInv
  <2>4. QED
    BY <1>1, <1>3, <2>2, <2>3 DEF TagsInv
<1>7. ScanInv'
  BY <1>1 DEF ScanInv
<1>8. GcInv'
  BY <1>1 DEF GcInv, GcSteps
<1>9. OpInv'
  BY <1>1 DEF OpInv, GcSteps, InCall
<1>10. WriteInv'
  BY <1>1 DEF WriteInv
<1>11. SpareInv'
  <2>1. InuseIn(mgr)' = {} /\ mgr'.numInuse = 0
    BY <1>1, InitialTypes DEF InuseIn
  <2>2. QED
    BY <1>1, <2>1, FS_EmptySet DEF SpareInv, Booting
<1>12. QED
  BY <1>4, <1>5, <1>6, <1>7, <1>8, <1>9, <1>10, <1>11 DEF IInv

-----------------------------------------------------------------------------
(* The steps of a collection.                                              *)
LEMMA BlockFacts ==
  ASSUME NEW f \in [Blocks -> BlockType], NEW b \in Blocks, NEW x \in BlockType
  PROVE  /\ [f EXCEPT ![b] = x] \in [Blocks -> BlockType]
         /\ [f EXCEPT ![b] = x][b] = x
         /\ \A c \in Blocks \ {b} : [f EXCEPT ![b] = x][c] = f[c]
OBVIOUS

LEMMA TagFacts ==
  ASSUME NEW x \in BlockType
  PROVE  /\ [x EXCEPT !.src = TRUE] \in BlockType /\ [x EXCEPT !.src = TRUE].items = x.items
         /\ [x EXCEPT !.src = TRUE].src /\ [x EXCEPT !.src = TRUE].magic = x.magic
         /\ [x EXCEPT !.src = TRUE].dst = x.dst /\ [x EXCEPT !.src = TRUE].done = x.done
         /\ [x EXCEPT !.dst = TRUE] \in BlockType /\ [x EXCEPT !.dst = TRUE].items = x.items
         /\ [x EXCEPT !.dst = TRUE].dst /\ [x EXCEPT !.dst = TRUE].magic = x.magic
         /\ [x EXCEPT !.dst = TRUE].src = x.src /\ [x EXCEPT !.dst = TRUE].done = x.done
         /\ [x EXCEPT !.done = TRUE] \in BlockType /\ [x EXCEPT !.done = TRUE].items = x.items
         /\ [x EXCEPT !.done = TRUE].done /\ [x EXCEPT !.done = TRUE].magic = x.magic
         /\ [x EXCEPT !.done = TRUE].src = x.src /\ [x EXCEPT !.done = TRUE].dst = x.dst
BY DEF BlockType

LEMMA ItemsSame ==
  ASSUME \A b \in Blocks : flash'[b].items = flash[b].items
  PROVE  \A b \in Blocks : Used(b)' = Used(b) /\ Garbage(b)' = Garbage(b)
BY DEF Used, Garbage

(* The blocks of the collection, and what the invariant says of them.      *)
LEMMA GcBlocks ==
  ASSUME IInv, pc \in GcSteps
  PROVE  /\ Typed /\ TableInv /\ TagsInv /\ ScanInv /\ GcInv /\ OpInv /\ WriteInv /\ SpareInv
         /\ gc.src \in Blocks /\ gc.dst \in Blocks /\ gc.src # gc.dst /\ gc.for \in {"search", "locate", "init"}
         /\ mgr.blk[gc.dst].fresh /\ Unlisted \subseteq {gc.src}
         /\ gc.for = "search" => workspace # 0
<1>1. /\ Typed /\ TableInv /\ TagsInv /\ ScanInv /\ GcInv /\ OpInv /\ WriteInv /\ SpareInv
  BY DEF IInv
<1>2. /\ gc.src \in Blocks /\ gc.dst \in Blocks /\ gc.src # gc.dst /\ gc.for \in {"search", "locate", "init"}
      /\ mgr.blk[gc.dst].fresh
  BY <1>1 DEF GcInv, Typed, GcType
<1>3. Unlisted \subseteq {gc.src}
  BY DEF Unlisted, GcSteps
<1>4. gc.for = "search" => workspace # 0
  <2>1. gc.for = "search" => ~Booting
    BY DEF Booting, GcSteps
  <2>2. FreshIn(mgr) # {}
    BY <1>2 DEF FreshIn
  <2>3. QED
    BY <1>1, <2>1, <2>2 DEF SpareInv
<1>5. QED
  BY <1>1, <1>2, <1>3, <1>4

LEMMA MarkSrcKeeps ==
  ASSUME IInv, MarkSrc
  PROVE  IInv'
<1>1. pc = "markSrc" /\ pc' = "markDst" /\ UNCHANGED <<mgr, workspace, op, gc, scan, result>>
  BY DEF MarkSrc
<1>2. /\ Typed /\ TableInv /\ TagsInv /\ ScanInv /\ GcInv /\ OpInv /\ WriteInv /\ SpareInv
      /\ gc.src \in Blocks /\ gc.dst \in Blocks /\ gc.src # gc.dst /\ gc.for \in {"search", "locate", "init"}
      /\ mgr.blk[gc.dst].fresh
  BY <1>1, GcBlocks DEF GcSteps
<1>3. Unlisted = {} /\ Unlisted' = {}
  BY <1>1, <1>2 DEF Unlisted, GcInv, GcSteps
<1>4. PICK b \in Blocks : b = gc.src
  BY <1>2
<1>5. flash \in [Blocks -> BlockType] /\ flash[b] \in BlockType
  BY <1>2 DEF Typed
<1> DEFINE x == [flash[b] EXCEPT !.src = TRUE]
<1>6. flash' = [flash EXCEPT ![b] = x]
  BY <1>4, Zenon DEF MarkSrc
<1>7. /\ x \in BlockType /\ x.items = flash[b].items /\ x.src
      /\ x.magic = flash[b].magic /\ x.dst = flash[b].dst /\ x.done = flash[b].done
  BY <1>5, TagFacts
<1> HIDE DEF x
<1>8. flash' \in [Blocks -> BlockType] /\ flash'[b] = x /\ \A c \in Blocks \ {b} : flash'[c] = flash[c]
  BY <1>5, <1>6, <1>7, BlockFacts
<1>9. /\ \A c \in Blocks : /\ flash'[c].items = flash[c].items /\ flash'[c].magic = flash[c].magic
                           /\ flash'[c].dst = flash[c].dst /\ flash'[c].done = flash[c].done
      /\ \A c \in Blocks : Used(c)' = Used(c) /\ Garbage(c)' = Garbage(c)
  <2>1. \A c \in Blocks : /\ flash'[c].items = flash[c].items /\ flash'[c].magic = flash[c].magic
                          /\ flash'[c].dst = flash[c].dst /\ flash'[c].done = flash[c].done
    BY <1>7, <1>8
  <2>2. QED
    BY <2>1, ItemsSame
<1>10. Typed'
  BY <1>1, <1>2, <1>8, <1>9 DEF Typed, Steps, GcSteps
<1>11. TableInv'
  <2>1. \A c \in Blocks : EntryOK(c)'
    BY <1>1, <1>2, <1>3, <1>9 DEF TableInv, EntryOK, Filling, Ahead, WriteSteps
  <2>2. QED
    BY <1>1, <1>2, <1>3, <2>1 DEF TableInv, Counted, FreshIn
<1>12. TagsInv'
  <2>1. SrcBlocks = {} /\ DstBlocks = {} /\ \A c \in Blocks : flash[c].magic
    BY <1>1, <1>2, <1>3 DEF TagsInv
  <2>2. SrcBlocks' = {b} /\ DstBlocks' = {}
    BY <1>7, <1>8, <1>9, <2>1 DEF SrcBlocks, DstBlocks, IsSrc, IsDstNotDone
  <2>3. QED
    BY <1>1, <1>4, <1>9, <2>1, <2>2 DEF TagsInv
<1>13. ScanInv'
  BY <1>1, <1>2 DEF ScanInv
<1>14. GcInv'
  BY <1>1, <1>2, <1>9 DEF GcInv, GcSteps
<1>15. OpInv'
  <2>1. ReplacedIsThere => ReplacedIsThere'
    BY <1>1, <1>9 DEF ReplacedIsThere, WithValue, GcSteps
  <2>2. QED
    BY <1>1, <1>2, <2>1 DEF OpInv, GcSteps, InCall
<1>16. WriteInv'
  BY <1>1 DEF WriteInv
<1>17. SpareInv'
  BY <1>1, <1>2 DEF SpareInv, Booting, InuseIn, FreshIn, GcSteps
<1>18. QED
  BY <1>10, <1>11, <1>12, <1>13, <1>14, <1>15, <1>16, <1>17 DEF IInv

LEMMA MarkDstKeeps ==
  ASSUME IInv, MarkDst
  PROVE  IInv'
<1>1. pc = "markDst" /\ pc' = "copy" /\ UNCHANGED <<mgr, workspace, op, gc, scan, result>>
  BY DEF MarkDst
<1>2. /\ Typed /\ TableInv /\ TagsInv /\ ScanInv /\ GcInv /\ OpInv /\ WriteInv /\ SpareInv
      /\ gc.src \in Blocks /\ gc.dst \in Blocks /\ gc.src # gc.dst /\ gc.for \in {"search", "locate", "init"}
      /\ mgr.blk[gc.dst].fresh /\ Unlisted \subseteq {gc.src}
  BY <1>1, GcBlocks DEF GcSteps
<1>3. Unlisted' = Unlisted
  BY <1>1 DEF Unlisted
<1>4. PICK b \in Blocks : b = gc.dst
  BY <1>2
<1>5. flash \in [Blocks -> BlockType] /\ flash[b] \in BlockType
  BY <1>2 DEF Typed
<1> DEFINE x == [flash[b] EXCEPT !.dst = TRUE]
<1>6. flash' = [flash EXCEPT ![b] = x]
  BY <1>4, Zenon DEF MarkDst
<1>7. /\ x \in BlockType /\ x.items = flash[b].items /\ x.dst
      /\ x.magic = flash[b].magic /\ x.src = flash[b].src /\ x.done = flash[b].done
  BY <1>5, TagFacts
<1> HIDE DEF x
<1>8. flash' \in [Blocks -> BlockType] /\ flash'[b] = x /\ \A c \in Blocks \ {b} : flash'[c] = flash[c]
  BY <1>5, <1>6, <1>7, BlockFacts
<1>9. /\ \A c \in Blocks : /\ flash'[c].items = flash[c].items /\ flash'[c].magic = flash[c].magic
                           /\ flash'[c].src = flash[c].src
      /\ \A c \in Blocks : Used(c)' = Used(c) /\ Garbage(c)' = Garbage(c)
  <2>1. \A c \in Blocks : /\ flash'[c].items = flash[c].items /\ flash'[c].magic = flash[c].magic
                          /\ flash'[c].src = flash[c].src
    BY <1>7, <1>8
  <2>2. QED
    BY <2>1, ItemsSame
<1>10. Typed'
  BY <1>1, <1>2, <1>8, <1>9 DEF Typed, Steps, GcSteps
<1>11. TableInv'
  <2>1. \A c \in Blocks \ Unlisted : EntryOK(c)'
    BY <1>1, <1>2, <1>9 DEF TableInv, EntryOK, Filling, Ahead, WriteSteps
  <2>2. QED
    BY <1>1, <1>2, <1>3, <2>1 DEF TableInv, Counted, FreshIn
<1>12. TagsInv'
  <2>1. /\ SrcBlocks = {gc.src} /\ DstBlocks = {}
        /\ \A c \in Blocks : ~flash[c].magic => flash[c] = Erased /\ c \in Unlisted
    BY <1>1, <1>2 DEF TagsInv
  <2>2. SrcBlocks' = {gc.src} /\ DstBlocks' \subseteq {b}
    BY <1>7, <1>8, <1>9, <2>1 DEF SrcBlocks, DstBlocks, IsSrc, IsDstNotDone
  <2>3. \A c \in Blocks : ~flash'[c].magic => flash'[c] = Erased /\ c \in Unlisted
    BY <1>2, <1>4, <1>8, <1>9, <2>1
  <2>4. QED
    BY <1>1, <1>3, <1>4, <1>7, <1>8, <2>2, <2>3 DEF TagsInv
<1>13. ScanInv'
  BY <1>1, <1>2 DEF ScanInv
<1>14. GcInv'
  <2>1. gc.next = 1 /\ Used(b)' = 0
    BY <1>1, <1>2, <1>4, <1>9 DEF GcInv
  <2>2. Used(gc.dst)' = 0
    BY <1>1, <1>4, <2>1 DEF Used
  <2>3. CopiedSoFar'
    BY <1>1, <2>1 DEF CopiedSoFar
  <2>4. QED
    BY <1>1, <1>2, <2>1, <2>2, <2>3 DEF GcInv, GcSteps
<1>15. OpInv'
  <2>1. ReplacedIsThere => ReplacedIsThere'
    BY <1>1, <1>9 DEF ReplacedIsThere, WithValue, GcSteps
  <2>2. QED
    BY <1>1, <1>2, <2>1 DEF OpInv, GcSteps, InCall
<1>16. WriteInv'
  BY <1>1 DEF WriteInv
<1>17. SpareInv'
  BY <1>1, <1>2 DEF SpareInv, Booting, InuseIn, FreshIn, GcSteps
<1>18. QED
  BY <1>10, <1>11, <1>12, <1>13, <1>14, <1>15, <1>16, <1>17 DEF IInv

(* An item is copied to a block that is never ahead of the one it empties. *)
LEMMA CopyItemKeeps ==
  ASSUME IInv, CopyItem
  PROVE  IInv'
<1>1. /\ pc = "copy" /\ pc' = "copy" /\ UNCHANGED <<workspace, op, scan, result>>
      /\ gc.next <= Used(gc.src)
  BY DEF CopyItem
<1>2. /\ Typed /\ TableInv /\ TagsInv /\ ScanInv /\ GcInv /\ OpInv /\ WriteInv /\ SpareInv
      /\ gc.src \in Blocks /\ gc.dst \in Blocks /\ gc.src # gc.dst /\ gc.for \in {"search", "locate", "init"}
      /\ mgr.blk[gc.dst].fresh /\ Unlisted \subseteq {gc.src} /\ (gc.for = "search" => workspace # 0)
  BY <1>1, GcBlocks DEF GcSteps
<1>3. PICK a \in Blocks : a = gc.src
  BY <1>2
<1>4. PICK b \in Blocks : b = gc.dst
  BY <1>2
<1>5. PICK n : n = gc.next
  OBVIOUS
<1>6. /\ a # b /\ flash \in [Blocks -> BlockType] /\ mgr \in TableType
      /\ n \in 1 .. Used(a) /\ Used(a) \in 0 .. Slots /\ Used(b) < n
      /\ Used(b) \in 0 .. Slots /\ EntryOK(b) /\ mgr.blk[b] \in EntryType /\ mgr.blk[b].fresh
  <2>1. n \in 1 .. Slots + 1 /\ Used(b) < n /\ n <= Used(a)
    BY <1>1, <1>2, <1>3, <1>4, <1>5 DEF Typed, GcType, GcInv
  <2>2. \A c \in Blocks : Used(c) \in 0 .. Slots
    <3>1. \A c \in Blocks : flash[c].items \in Seq(Item) /\ Used(c) <= Slots
      BY <1>2 DEF Typed, BlockType
    <3>2. QED
      BY <3>1, Numbers DEF Used
  <2>3. EntryOK(b) /\ mgr.blk[b] \in EntryType
    BY <1>2, <1>3, <1>4, TableFacts
  <2>4. n \in 1 .. Used(a)
    BY <2>1, <2>2, Numbers
  <2>5. QED
    BY <1>2, <1>3, <1>4, <2>1, <2>2, <2>3, <2>4 DEF Typed
<1> DEFINE u == Units(a, n)
           e == After(a, n)
           it == flash[a].items
<1>7. /\ u \in Seq(Item) /\ Len(u) = e - n /\ e \in n + 1 .. Used(a) + 1
      /\ \A i \in 1 .. Len(u) : u[i] = it[n + i - 1]
      /\ \A i \in 2 .. Len(u) : u[i].state = "rest"
      /\ Head(u) = it[n]
      /\ \A t \in n + 1 .. e - 1 : it[t].state = "rest"
  <2>1. Used(a) \in Nat
    BY <1>6
  <2>2. QED
    BY <1>6, <2>1, UnitsFacts, AfterFacts
<1>8. gc' = [gc EXCEPT !.next = e]
  BY <1>3, <1>5, Zenon DEF CopyItem
<1> HIDE DEF u, e
<1>9. /\ gc' \in GcType /\ gc'.src = a /\ gc'.dst = b /\ gc'.next = e /\ gc'.for = gc.for
  <2>1. e \in 1 .. Slots + 1
    BY <1>6, <1>7, Numbers
  <2>2. gc \in GcType
    BY <1>2 DEF Typed
  <2>3. QED
    BY <1>3, <1>4, <1>8, <2>1, <2>2 DEF GcType
<1>10. IF it[n].state = "discarded" THEN flash' = flash /\ mgr' = mgr
       ELSE /\ flash' = [flash EXCEPT ![b].items = flash[b].items \o u]
            /\ mgr' = SetFree(mgr, b, mgr.blk[b].free - Len(u))
  <2>1. IF Head(u).state = "discarded" THEN flash' = flash /\ mgr' = mgr
        ELSE /\ flash' = [flash EXCEPT ![b].items = flash[b].items \o u]
             /\ mgr' = SetFree(mgr, b, mgr.blk[b].free - Len(u))
    BY <1>3, <1>4, <1>5, Zenon DEF CopyItem, u
  <2>2. QED
    BY <1>7, <2>1
<1>11. flash[b].items \in Seq(Item) /\ Used(b) = Len(flash[b].items)
  BY <1>6 DEF BlockType, Used
(* What the destination holds afterwards.                                  *)
<1>12. /\ flash' \in [Blocks -> BlockType] /\ mgr' \in TableType
       /\ \A c \in Blocks \ {b} : flash'[c] = flash[c] /\ mgr'.blk[c] = mgr.blk[c]
       /\ SameTags(flash'[b], flash[b])
       /\ \A t \in 1 .. Used(b) : flash'[b].items[t] = flash[b].items[t]
       /\ Used(b)' \in Used(b) .. Slots /\ Used(b)' < e
       /\ Counted(mgr') /\ mgr'.numInuse = mgr.numInuse
       /\ mgr'.blk[b].fresh /\ (mgr'.blk[b].inuse <=> mgr.blk[b].inuse) /\ (mgr'.blk[b].dirty <=> mgr.blk[b].dirty)
       /\ Used(b)' + mgr'.blk[b].free = Slots
       /\ \A t \in Used(b) + 1 .. Used(b)' : flash'[b].items[t].state # "discarded"
       /\ it[n].state = "live" => \E t \in 1 .. Used(b)' : flash'[b].items[t] = it[n]
  <2>0. Used(b) + mgr.blk[b].free = Slots /\ mgr.blk[b].free \in 0 .. Slots /\ Counted(mgr)
    <3>1. Ahead(b) = 0
      BY <1>1 DEF Ahead
    <3>2. QED
      BY <1>2, <1>6, <3>1, Numbers DEF EntryOK, EntryType, TableInv
  <2>1. CASE it[n].state = "discarded"
    <3>1. flash' = flash /\ mgr' = mgr
      BY <1>10, <2>1
    <3>2. Used(b)' = Used(b) /\ Used(b) < e
      BY <1>6, <1>7, <3>1 DEF Used
    <3>3. QED
      BY <1>6, <2>0, <2>1, <3>1, <3>2, Numbers DEF SameTags
  <2>2. CASE it[n].state # "discarded"
    <3> DEFINE q == flash[b].items \o u
               f == mgr.blk[b].free - Len(u)
    <3>1. /\ q \in Seq(Item) /\ Len(q) = Used(b) + Len(u)
          /\ \A i \in 1 .. Used(b) : q[i] = flash[b].items[i]
          /\ \A i \in Used(b) + 1 .. Used(b) + Len(u) : q[i] = u[i - Used(b)] /\ i - Used(b) \in 1 .. Len(u)
      <4>1. /\ q \in Seq(Item) /\ Len(q) = Len(flash[b].items) + Len(u)
            /\ \A i \in 1 .. Len(flash[b].items) : q[i] = flash[b].items[i]
            /\ \A i \in Len(flash[b].items) + 1 .. Len(flash[b].items) + Len(u) :
                 q[i] = u[i - Len(flash[b].items)] /\ i - Len(flash[b].items) \in 1 .. Len(u)
        BY <1>7, <1>11, Joined
      <4> HIDE DEF q
      <4>2. QED
        BY <1>11, <4>1
    <3>2. flash' = [flash EXCEPT ![b].items = q] /\ mgr' = SetFree(mgr, b, f)
      BY <1>10, <2>2
    <3> HIDE DEF q, f
    <3>3. /\ flash' \in [Blocks -> BlockType] /\ \A c \in Blocks \ {b} : flash'[c] = flash[c]
          /\ SameTags(flash'[b], flash[b]) /\ flash'[b].items = q
      BY <1>6, <3>1, <3>2, ItemsFacts
    <3>4. Used(b)' = Used(b) + Len(u) /\ Len(u) \in 1 .. Slots /\ Used(b) + Len(u) < e
      BY <1>6, <1>7, <3>1, <3>3, Numbers DEF Used
    <3>5. Used(b)' \in Used(b) .. Slots /\ Used(b)' < e
      <4>1. e \in Int /\ e <= Slots + 1 /\ Len(u) \in Nat /\ Used(b) \in Nat /\ Slots \in Nat
        BY <1>6, <1>7, <3>4, Numbers
      <4>2. QED
        BY <3>4, <4>1
    <3>6. f \in 0 .. Slots /\ Used(b)' + f = Slots
      <4>1. Len(u) \in Nat /\ Used(b) \in Nat /\ Slots \in Nat /\ mgr.blk[b].free \in Nat
        BY <1>6, <2>0, <3>4, Numbers
      <4>2. f = mgr.blk[b].free - Len(u)
        BY DEF f
      <4>3. QED
        BY <2>0, <3>4, <3>5, <4>1, <4>2
    <3>7. /\ Changes(mgr', mgr, b) /\ mgr'.numInuse = mgr.numInuse
          /\ Fields(mgr'.blk[b], mgr.blk[b].fresh, mgr.blk[b].inuse, mgr.blk[b].dirty, f)
      BY <1>6, <3>2, <3>6, SetFreeFacts
    <3>8. \A t \in Used(b) + 1 .. Used(b)' : flash'[b].items[t].state # "discarded"
      <4> TAKE t \in Used(b) + 1 .. Used(b)'
      <4>1. flash'[b].items[t] = u[t - Used(b)] /\ t - Used(b) \in 1 .. Len(u)
        BY <3>1, <3>3, <3>4
      <4>2. CASE t - Used(b) = 1
        <5>1. u[1] = it[n + 1 - 1] /\ n + 1 - 1 = n
          BY <1>6, <1>7, <3>4
        <5>2. QED
          BY <2>2, <4>1, <4>2, <5>1
      <4>3. CASE t - Used(b) # 1
        <5>1. t - Used(b) \in 2 .. Len(u)
          BY <3>4, <4>1, <4>3
        <5>2. u[t - Used(b)].state = "rest"
          BY <1>7, <5>1
        <5>3. QED
          BY <4>1, <5>2
      <4>4. QED
        BY <4>2, <4>3
    <3>9. \E t \in 1 .. Used(b)' : flash'[b].items[t] = it[n]
      <4>1. Used(b) + 1 \in Used(b) + 1 .. Used(b) + Len(u) /\ Used(b) + 1 \in 1 .. Used(b)' /\ Used(b) + 1 - Used(b) = 1
        BY <1>6, <3>4
      <4>2. u[1] = it[n + 1 - 1] /\ n + 1 - 1 = n
        BY <1>6, <1>7, <3>4
      <4>3. flash'[b].items[Used(b) + 1] = it[n]
        <5>1. PICK j : j = Used(b) + 1
          OBVIOUS
        <5>2. j \in Used(b) + 1 .. Used(b) + Len(u) /\ j - Used(b) = 1
          BY <1>6, <3>4, <5>1, Numbers
        <5>3. q[j] = u[1]
          <6>1. q[j] = u[j - Used(b)]
            BY <3>1, <5>2
          <6>2. QED
            BY <5>2, <6>1
        <5>4. u[1] = it[n]
          BY <4>2
        <5>5. QED
          BY <3>3, <5>1, <5>3, <5>4
      <4>4. QED
        BY <4>1, <4>3
    <3>10. QED
      BY <1>6, <2>0, <3>1, <3>3, <3>5, <3>6, <3>7, <3>8, <3>9 DEF Changes, Fields
  <2>3. QED
    BY <2>1, <2>2
<1>13. \A c \in Blocks \ {b} : Used(c)' = Used(c) /\ Garbage(c)' = Garbage(c)
  BY <1>12 DEF Used, Garbage
<1>14. Garbage(b) = {} /\ Garbage(b)' = {}
  <2>1. Garbage(b) = {}
    BY <1>6 DEF EntryOK
  <2>2. ASSUME NEW t \in 1 .. Used(b)' PROVE flash'[b].items[t].state # "discarded"
    <3>1. CASE t <= Used(b)
      BY <1>6, <1>12, <2>1, <3>1 DEF Garbage
    <3>2. CASE ~(t <= Used(b))
      BY <1>6, <1>12, <3>2
    <3>3. QED
      BY <3>1, <3>2
  <2>3. QED
    BY <2>1, <2>2 DEF Garbage
<1>15. Unlisted' = Unlisted
  BY <1>1, <1>3, <1>9 DEF Unlisted
<1>16. SrcBlocks' = SrcBlocks /\ DstBlocks' = DstBlocks /\ \A c \in Blocks : SameTags(flash'[c], flash[c])
  <2>1. \A c \in Blocks : SameTags(flash'[c], flash[c])
    BY <1>12 DEF SameTags
  <2>2. QED
    BY <2>1, TagsSame
<1>17. Typed'
  <2>1. \A c \in Blocks : Used(c)' <= Slots
    BY <1>2, <1>6, <1>12, <1>13, Numbers DEF Typed
  <2>2. QED
    BY <1>1, <1>2, <1>9, <1>12, <2>1 DEF Typed
<1>18. TableInv'
  <2>1. EntryOK(b)'
    <3>1. Ahead(b)' = 0 /\ Filling(b)'
      BY <1>1, <1>9 DEF Ahead, Filling
    <3>2. ~mgr.blk[b].inuse /\ ~mgr.blk[b].dirty
      BY <1>6 DEF EntryOK
    <3>3. QED
      BY <1>12, <1>14, <3>1, <3>2, Numbers DEF EntryOK
  <2>2. ASSUME NEW c \in Blocks \ Unlisted, c # b PROVE EntryOK(c)'
    <3>1. EntryOK(c) /\ mgr'.blk[c] = mgr.blk[c] /\ Used(c)' = Used(c) /\ Garbage(c)' = Garbage(c)
      BY <1>2, <1>12, <1>13, <2>2 DEF TableInv
    <3>2. ~Filling(c) /\ Ahead(c) = 0 /\ Ahead(c)' = 0
      BY <1>1, <1>4, <2>2 DEF Filling, Ahead, WriteSteps
    <3>3. QED
      BY <3>1, <3>2 DEF EntryOK
  <2>3. Counted(mgr)'
    BY <1>12 DEF Counted, FreshIn
  <2>4. QED
    BY <1>1, <1>15, <2>1, <2>2, <2>3 DEF TableInv
<1>19. TagsInv'
  <2>1. flash'[b].dst
    BY <1>1, <1>2, <1>4, <1>16 DEF TagsInv, SameTags
  <2>2. \A c \in Blocks : ~flash'[c].magic => flash'[c] = Erased /\ c \in Unlisted
    <3> TAKE c \in Blocks
    <3>1. ~flash[c].magic => flash[c] = Erased /\ c \in Unlisted
      BY <1>2 DEF TagsInv
    <3>2. flash'[c].magic = flash[c].magic
      BY <1>16 DEF SameTags
    <3>3. ~flash[c].magic => c # b
      BY <1>2, <1>3, <1>6, <3>1
    <3>4. QED
      BY <1>12, <3>1, <3>2, <3>3
  <2>3. QED
    BY <1>1, <1>2, <1>3, <1>4, <1>9, <1>15, <1>16, <2>1, <2>2 DEF TagsInv
<1>20. ScanInv'
  BY <1>1, <1>2 DEF ScanInv
<1>21. CopiedSoFar'
  <2>1. SUFFICES ASSUME NEW s \in 1 .. Used(a), s < e, it[s].state = "live"
                 PROVE  \E t \in 1 .. Used(b)' : flash'[b].items[t] = it[s]
    BY <1>6, <1>9, <1>12, <1>13 DEF CopiedSoFar, Used
  <2>2. CASE s < n
    <3>1. CopiedSoFar
      BY <1>1, <1>2 DEF GcInv
    <3>2. PICK t \in 1 .. Used(b) : flash[b].items[t] = it[s]
      BY <1>3, <1>4, <1>5, <2>1, <2>2, <3>1 DEF CopiedSoFar
    <3>3. t \in 1 .. Used(b)'
      BY <1>6, <1>12
    <3>4. QED
      BY <1>12, <3>2, <3>3
  <2>3. CASE s = n
    BY <1>12, <2>1, <2>3
  <2>4. CASE s > n
    <3>1. s \in n + 1 .. e - 1
      BY <1>6, <1>7, <2>1, <2>4
    <3>2. QED
      BY <1>7, <2>1, <3>1
  <2>5. QED
    BY <1>6, <2>2, <2>3, <2>4
<1>22. GcInv'
  <2>1. Used(gc.dst)' < gc'.next
    <3>1. Used(b)' = Len(flash'[b].items)
      BY DEF Used
    <3>2. Used(gc.dst)' = Len(flash'[b].items)
      BY <1>9 DEF Used
    <3>3. QED
      BY <1>9, <1>12, <3>1, <3>2
  <2>2. QED
    BY <1>1, <1>2, <1>3, <1>4, <1>6, <1>9, <1>12, <1>21, <2>1 DEF GcInv, GcSteps
<1>23. OpInv'
  <2>1. ReplacedIsThere => ReplacedIsThere'
    <3>1. SUFFICES ASSUME NEW c \in Blocks, NEW s \in 1 .. Used(c), WithValue(c, s),
                          ~mgr.blk[c].fresh \/ c = b
                   PROVE  ReplacedIsThere'
      BY <1>4 DEF ReplacedIsThere
    <3>2. s \in 1 .. Used(c)' /\ flash'[c].items[s] = flash[c].items[s]
      BY <1>6, <1>12, <1>13, <3>1
    <3>3. WithValue(c, s)'
      BY <1>1, <3>1, <3>2 DEF WithValue
    <3>4. ~mgr'.blk[c].fresh \/ (pc' \in GcSteps /\ c = gc'.dst)
      BY <1>1, <1>9, <1>12, <3>1 DEF GcSteps
    <3>5. QED
      BY <3>2, <3>3, <3>4 DEF ReplacedIsThere
  <2>2. QED
    BY <1>1, <1>2, <1>9, <2>1 DEF OpInv, GcSteps, InCall
<1>24. WriteInv'
  BY <1>1 DEF WriteInv
<1>25. SpareInv'
  <2>1. FreshIn(mgr)' = FreshIn(mgr) /\ InuseIn(mgr)' = InuseIn(mgr)
    <3>1. \A c \in Blocks : (mgr'.blk[c].fresh <=> mgr.blk[c].fresh) /\ (mgr'.blk[c].inuse <=> mgr.blk[c].inuse)
      BY <1>6, <1>12
    <3>2. QED
      BY <3>1 DEF FreshIn, InuseIn
  <2>2. QED
    BY <1>1, <1>2, <1>9, <1>12, <2>1 DEF SpareInv, Booting, GcSteps
<1>26. QED
  BY <1>17, <1>18, <1>19, <1>20, <1>22, <1>23, <1>24, <1>25 DEF IInv

LEMMA ErasedType == Erased \in BlockType /\ Formatted \in BlockType /\ Formatted.magic /\ ~Erased.magic
  /\ ~Erased.src /\ ~Erased.dst /\ ~Formatted.src /\ ~Formatted.dst /\ Erased.items = <<>> /\ Formatted.items = <<>>
<1>1. <<>> \in Seq(Item)
  OBVIOUS
<1>2. /\ Erased = [magic |-> FALSE, src |-> FALSE, dst |-> FALSE, done |-> FALSE, items |-> <<>>]
      /\ Erased \in BlockType
  BY <1>1 DEF Erased, BlockType
<1>3. /\ Formatted \in BlockType /\ Formatted.magic /\ Formatted.src = Erased.src
      /\ Formatted.dst = Erased.dst /\ Formatted.items = Erased.items
  BY <1>2 DEF Formatted, BlockType
<1>4. QED
  BY <1>2, <1>3

(* What a search could find in the collected block is in the copy.         *)
LEMMA EraseSrcKeeps ==
  ASSUME IInv, EraseSrc
  PROVE  IInv'
<1>1. /\ pc = "copy" /\ pc' = "formatSrc" /\ UNCHANGED <<workspace, op, gc, scan, result>>
      /\ gc.next > Used(gc.src)
  BY DEF EraseSrc
<1>2. /\ Typed /\ TableInv /\ TagsInv /\ ScanInv /\ GcInv /\ OpInv /\ WriteInv /\ SpareInv
      /\ gc.src \in Blocks /\ gc.dst \in Blocks /\ gc.src # gc.dst /\ gc.for \in {"search", "locate", "init"}
      /\ mgr.blk[gc.dst].fresh /\ Unlisted \subseteq {gc.src} /\ (gc.for = "search" => workspace # 0)
  BY <1>1, GcBlocks DEF GcSteps
<1>3. PICK a \in Blocks : a = gc.src
  BY <1>2
<1>4. PICK b \in Blocks : b = gc.dst
  BY <1>2
<1>5. /\ a # b /\ flash \in [Blocks -> BlockType] /\ mgr \in TableType /\ Used(a) \in 0 .. Slots
  <2>1. flash[a].items \in Seq(Item) /\ Used(a) <= Slots
    BY <1>2 DEF Typed, BlockType
  <2>2. QED
    BY <1>2, <1>3, <1>4, <2>1, Numbers DEF Typed, Used
<1>6. flash' = [flash EXCEPT ![a] = Erased] /\ mgr' = ResetInuse(Walked(mgr, a), a)
  BY <1>3, Zenon DEF EraseSrc
<1>7. flash' \in [Blocks -> BlockType] /\ flash'[a] = Erased /\ \A c \in Blocks \ {a} : flash'[c] = flash[c]
  BY <1>5, <1>6, BlockFacts, ErasedType
<1>8. /\ Changes(mgr', mgr, a) /\ ~mgr'.blk[a].inuse
      /\ InuseCounted(mgr) /\ (Used(a) = 0 => ~mgr.blk[a].inuse) => InuseCounted(mgr')
  <2> DEFINE m == Walked(mgr, a)
  <2>1. Changes(m, mgr, a) /\ (InuseCounted(mgr) /\ (Used(a) = 0 => ~mgr.blk[a].inuse) => InuseCounted(m))
    BY <1>5, WalkedFacts
  <2>2. m \in TableType /\ mgr' = ResetInuse(m, a)
    BY <1>6, <2>1 DEF Changes
  <2> HIDE DEF m
  <2>3. /\ Changes(mgr', m, a) /\ (InuseCounted(m) => InuseCounted(mgr'))
        /\ Fields(mgr'.blk[a], m.blk[a].fresh, FALSE, m.blk[a].dirty, m.blk[a].free)
    BY <2>2, ResetInuseFacts
  <2>4. QED
    BY <2>1, <2>3, ChangesTwice DEF Fields
<1>9. \A c \in Blocks \ {a} : Used(c)' = Used(c) /\ Garbage(c)' = Garbage(c) /\ mgr'.blk[c] = mgr.blk[c]
  BY <1>7, <1>8 DEF Used, Garbage, Changes
<1>10. Unlisted' = {a}
  BY <1>1, <1>3 DEF Unlisted
<1>11. Typed'
  <2>1. \A c \in Blocks : Used(c)' <= Slots
    <3>1. Used(a)' = 0
      BY <1>7, ErasedType DEF Used
    <3>2. QED
      BY <1>2, <1>9, <3>1, Numbers DEF Typed
  <2>2. QED
    BY <1>1, <1>2, <1>7, <1>8, <2>1 DEF Typed, Steps, GcSteps, Changes
<1>12. TableInv'
  <2>1. ASSUME NEW c \in Blocks \ {a} PROVE EntryOK(c)'
    <3>1. EntryOK(c) /\ mgr'.blk[c] = mgr.blk[c] /\ Used(c)' = Used(c) /\ Garbage(c)' = Garbage(c)
      BY <1>2, <1>3, <1>9, <2>1 DEF TableInv
    <3>2. Ahead(c) = 0 /\ Ahead(c)' = 0 /\ (Filling(c) => Filling(c)')
      BY <1>1, <1>4 DEF Filling, Ahead, WriteSteps
    <3>3. QED
      BY <3>1, <3>2 DEF EntryOK
  <2>2. Counted(mgr)'
    BY <1>2, <1>8 DEF TableInv, Counted, FreshIn, Changes
  <2>3. QED
    BY <1>1, <1>10, <2>1, <2>2 DEF TableInv
<1>13. TagsInv'
  <2>1. /\ SrcBlocks = {a} /\ DstBlocks \subseteq {b} /\ flash[b].dst
        /\ \A c \in Blocks : ~flash[c].magic => c = a
    BY <1>1, <1>2, <1>3, <1>4 DEF TagsInv
  <2>2. SrcBlocks' = {} /\ DstBlocks' \subseteq {b}
    <3>1. \A c \in Blocks : c # a => (IsSrc(c)' <=> IsSrc(c)) /\ (IsDstNotDone(c)' <=> IsDstNotDone(c))
      BY <1>7 DEF IsSrc, IsDstNotDone
    <3>2. ~IsSrc(a)' /\ ~IsDstNotDone(a)'
      BY <1>7, ErasedType DEF IsSrc, IsDstNotDone
    <3>3. QED
      BY <2>1, <3>1, <3>2 DEF SrcBlocks, DstBlocks
  <2>3. flash'[b].dst
    BY <1>5, <1>7, <2>1
  <2>4. \A c \in Blocks : ~flash'[c].magic => flash'[c] = Erased /\ c \in {a}
    BY <1>7, <2>1
  <2>5. QED
    BY <1>1, <1>4, <1>10, <2>2, <2>3, <2>4 DEF TagsInv
<1>14. ScanInv'
  BY <1>1, <1>2 DEF ScanInv
<1>15. GcInv'
  <2>1. flash'[a] = Erased /\ ~mgr'.blk[a].inuse /\ mgr'.blk[b].fresh
    BY <1>2, <1>4, <1>5, <1>7, <1>8, <1>9
  <2>2. QED
    BY <1>1, <1>2, <1>3, <1>4, <2>1 DEF GcInv, GcSteps
<1>16. OpInv'
  <2>1. ReplacedIsThere => ReplacedIsThere'
    <3>1. SUFFICES ASSUME NEW c \in Blocks, NEW s \in 1 .. Used(c), WithValue(c, s),
                          ~mgr.blk[c].fresh \/ c = b
                   PROVE  ReplacedIsThere'
      BY <1>4 DEF ReplacedIsThere
    <3>2. CASE c = a
      <4>1. CopiedSoFar
        BY <1>1, <1>2 DEF GcInv
      <4>2. s < gc.next
        <5>1. gc.next \in Int /\ s \in Int
          BY <1>2, Numbers DEF Typed, GcType
        <5>2. QED
          BY <1>1, <1>3, <1>5, <3>1, <3>2, <5>1
      <4>3. PICK t \in 1 .. Used(b) : flash[b].items[t] = flash[a].items[s]
        BY <1>3, <1>4, <3>1, <3>2, <4>1, <4>2 DEF CopiedSoFar, WithValue
      <4>4. WithValue(b, t)
        BY <3>1, <3>2, <4>3 DEF WithValue
      <4>5. t \in 1 .. Used(b)' /\ WithValue(b, t)'
        BY <1>1, <1>5, <1>7, <1>9, <4>3, <4>4 DEF WithValue
      <4>6. pc' \in GcSteps /\ b = gc'.dst
        BY <1>1, <1>4 DEF GcSteps
      <4>7. QED
        BY <4>5, <4>6 DEF ReplacedIsThere
    <3>3. CASE c # a
      <4>1. s \in 1 .. Used(c)' /\ WithValue(c, s)' /\ mgr'.blk[c] = mgr.blk[c]
        BY <1>1, <1>7, <1>9, <3>1, <3>3 DEF WithValue
      <4>2. ~mgr'.blk[c].fresh \/ (pc' \in GcSteps /\ c = gc'.dst)
        BY <1>1, <1>4, <3>1, <4>1 DEF GcSteps
      <4>3. QED
        BY <4>1, <4>2 DEF ReplacedIsThere
    <3>4. QED
      BY <3>2, <3>3
  <2>2. QED
    BY <1>1, <1>2, <2>1 DEF OpInv, GcSteps, InCall
<1>17. WriteInv'
  BY <1>1 DEF WriteInv
<1>18. SpareInv'
  <2>1. Booting => InuseCounted(mgr')
    <3>1. Booting => ~mgr.blk[a].inuse /\ InuseCounted(mgr)
      BY <1>1, <1>2, <1>3 DEF Booting, GcSteps, GcInv, SpareInv, InuseCounted
    <3>2. QED
      BY <1>8, <3>1
  <2>2. Booting' = Booting
    BY <1>1 DEF Booting, GcSteps
  <2>3. QED
    BY <1>1, <1>2, <2>1, <2>2 DEF SpareInv, InuseCounted, InuseIn, Booting, GcSteps
<1>19. QED
  BY <1>11, <1>12, <1>13, <1>14, <1>15, <1>16, <1>17, <1>18 DEF IInv

LEMMA FormattedEntry ==
  ASSUME NEW a \in Blocks, Fields(mgr'.blk[a], TRUE, FALSE, FALSE, Slots), flash'[a].items = <<>>, Ahead(a)' = 0
  PROVE  EntryOK(a)' /\ Used(a)' = 0 /\ Garbage(a)' = {} /\ mgr'.blk[a].fresh /\ ~mgr'.blk[a].inuse
<1>1. Used(a)' = 0
  BY DEF Used
<1>2. Garbage(a)' = {}
  BY <1>1 DEF Garbage
<1>3. QED
  BY <1>1, <1>2, Numbers DEF EntryOK, Fields

LEMMA FormatSrcKeeps ==
  ASSUME IInv, FormatSrc
  PROVE  IInv'
<1>1. /\ pc = "formatSrc" /\ pc' = "markDone" /\ UNCHANGED <<workspace, op, gc, scan, result>>
  BY DEF FormatSrc
<1>2. /\ Typed /\ TableInv /\ TagsInv /\ ScanInv /\ GcInv /\ OpInv /\ WriteInv /\ SpareInv
      /\ gc.src \in Blocks /\ gc.dst \in Blocks /\ gc.src # gc.dst /\ gc.for \in {"search", "locate", "init"}
      /\ mgr.blk[gc.dst].fresh /\ Unlisted \subseteq {gc.src} /\ (gc.for = "search" => workspace # 0)
  BY <1>1, GcBlocks DEF GcSteps
<1>3. PICK a \in Blocks : a = gc.src
  BY <1>2
<1>4. PICK b \in Blocks : b = gc.dst
  BY <1>2
<1>5. /\ a # b /\ flash \in [Blocks -> BlockType] /\ mgr \in TableType
      /\ Used(a) = 0 /\ ~mgr.blk[a].inuse
  <2>1. flash[a] = Erased /\ ~mgr.blk[a].inuse
    BY <1>1, <1>2, <1>3 DEF GcInv
  <2>2. Used(a) = 0
    BY <2>1, ErasedType DEF Used
  <2>3. QED
    BY <1>2, <1>3, <1>4, <2>1, <2>2 DEF Typed
<1>6. flash' = [flash EXCEPT ![a] = Formatted] /\ mgr' = SetFresh(mgr, a)
  BY <1>3, Zenon DEF FormatSrc
<1>7. flash' \in [Blocks -> BlockType] /\ flash'[a] = Formatted /\ \A c \in Blocks \ {a} : flash'[c] = flash[c]
  BY <1>5, <1>6, BlockFacts, ErasedType
<1>8. /\ Changes(mgr', mgr, a) /\ Fields(mgr'.blk[a], TRUE, FALSE, FALSE, Slots)
      /\ (InuseCounted(mgr) => InuseCounted(mgr'))
  BY <1>5, <1>6, SetFreshFacts
<1>9. \A c \in Blocks \ {a} : Used(c)' = Used(c) /\ Garbage(c)' = Garbage(c) /\ mgr'.blk[c] = mgr.blk[c]
  BY <1>7, <1>8 DEF Used, Garbage, Changes
<1>10. Unlisted' = {}
  BY <1>1 DEF Unlisted
<1>11. EntryOK(a)' /\ Used(a)' = 0 /\ Garbage(a)' = {} /\ mgr'.blk[a].fresh /\ ~mgr'.blk[a].inuse
  <2>1. Ahead(a)' = 0
    BY <1>1 DEF Ahead
  <2>2. QED
    BY <1>7, <1>8, <2>1, ErasedType, FormattedEntry
<1>12. Typed'
  <2>1. \A c \in Blocks : Used(c)' <= Slots
    BY <1>2, <1>9, <1>11, Numbers DEF Typed
  <2>2. QED
    BY <1>1, <1>2, <1>7, <1>8, <2>1 DEF Typed, Steps, GcSteps, Changes
<1>13. TableInv'
  <2>1. ASSUME NEW c \in Blocks \ {a} PROVE EntryOK(c)'
    <3>1. EntryOK(c) /\ mgr'.blk[c] = mgr.blk[c] /\ Used(c)' = Used(c) /\ Garbage(c)' = Garbage(c)
      BY <1>2, <1>3, <1>9, <2>1 DEF TableInv
    <3>2. Ahead(c) = 0 /\ Ahead(c)' = 0 /\ (Filling(c) => Filling(c)')
      BY <1>1, <1>4 DEF Filling, Ahead, WriteSteps
    <3>3. QED
      BY <3>1, <3>2 DEF EntryOK
  <2>2. Counted(mgr)'
    BY <1>2, <1>8 DEF TableInv, Counted, FreshIn, Changes
  <2>3. QED
    BY <1>1, <1>10, <1>11, <2>1, <2>2 DEF TableInv
<1>14. TagsInv'
  <2>1. /\ SrcBlocks = {} /\ DstBlocks \subseteq {b} /\ flash[b].dst
        /\ \A c \in Blocks : ~flash[c].magic => c = a
    BY <1>1, <1>2, <1>3, <1>4 DEF TagsInv
  <2>2. SrcBlocks' = {} /\ DstBlocks' \subseteq {b}
    <3>1. \A c \in Blocks : c # a => (IsSrc(c)' <=> IsSrc(c)) /\ (IsDstNotDone(c)' <=> IsDstNotDone(c))
      BY <1>7 DEF IsSrc, IsDstNotDone
    <3>2. ~IsSrc(a)' /\ ~IsDstNotDone(a)'
      BY <1>7, ErasedType DEF IsSrc, IsDstNotDone
    <3>3. QED
      BY <2>1, <3>1, <3>2 DEF SrcBlocks, DstBlocks
  <2>3. flash'[b].dst /\ \A c \in Blocks : flash'[c].magic
    BY <1>5, <1>7, <2>1, ErasedType
  <2>4. QED
    BY <1>1, <1>4, <2>2, <2>3 DEF TagsInv
<1>15. ScanInv'
  BY <1>1, <1>2 DEF ScanInv
<1>16. GcInv'
  <2>1. mgr'.blk[b].fresh
    BY <1>2, <1>4, <1>5, <1>9
  <2>2. QED
    BY <1>1, <1>2, <1>3, <1>4, <2>1 DEF GcInv, GcSteps
<1>17. OpInv'
  <2>1. ReplacedIsThere => ReplacedIsThere'
    <3>1. SUFFICES ASSUME NEW c \in Blocks, NEW s \in 1 .. Used(c), WithValue(c, s),
                          ~mgr.blk[c].fresh \/ c = b
                   PROVE  ReplacedIsThere'
      BY <1>4 DEF ReplacedIsThere
    <3>2. c # a
      BY <1>5, <3>1
    <3>3. s \in 1 .. Used(c)' /\ WithValue(c, s)' /\ mgr'.blk[c] = mgr.blk[c]
      BY <1>1, <1>7, <1>9, <3>1, <3>2 DEF WithValue
    <3>4. ~mgr'.blk[c].fresh \/ (pc' \in GcSteps /\ c = gc'.dst)
      BY <1>1, <1>4, <3>1, <3>3 DEF GcSteps
    <3>5. QED
      BY <3>3, <3>4 DEF ReplacedIsThere
  <2>2. QED
    BY <1>1, <1>2, <2>1 DEF OpInv, GcSteps, InCall
<1>18. WriteInv'
  BY <1>1 DEF WriteInv
<1>19. SpareInv'
  <2>1. Booting => InuseCounted(mgr')
    BY <1>2, <1>8 DEF SpareInv, InuseCounted
  <2>2. Booting' = Booting
    BY <1>1 DEF Booting, GcSteps
  <2>3. QED
    BY <1>1, <1>2, <2>1, <2>2 DEF SpareInv, InuseCounted, InuseIn, Booting, GcSteps
<1>20. QED
  BY <1>12, <1>13, <1>14, <1>15, <1>16, <1>17, <1>18, <1>19 DEF IInv

LEMMA DstUsableFacts ==
  ASSUME mgr \in TableType, gc.dst \in Blocks, mgr.blk[gc.dst].fresh, ~mgr.blk[gc.dst].inuse
  PROVE  LET n == DstUsable(mgr)
             e == n.blk[gc.dst]
             d == mgr.blk[gc.dst]
         IN  /\ Changes(n, mgr, gc.dst)
             /\ ~e.fresh /\ (e.inuse <=> e.free # 0) /\ (e.dirty <=> d.dirty) /\ e.free = d.free
             /\ InuseCounted(mgr) => InuseCounted(n)
<1>1. PICK b \in Blocks : b = gc.dst
  OBVIOUS
<1> DEFINE m == ResetFresh(mgr, b)
           n == DstUsable(mgr)
<1>2. n = IF mgr.blk[b].free # 0 THEN SetInuse(m, b) ELSE m
  BY <1>1, Zenon DEF DstUsable
<1>3. /\ Changes(m, mgr, b) /\ (InuseCounted(mgr) => InuseCounted(m))
      /\ Fields(m.blk[b], FALSE, mgr.blk[b].inuse, mgr.blk[b].dirty, mgr.blk[b].free)
  BY ResetFreshFacts
<1>4. m \in TableType
  BY <1>3 DEF Changes
<1>5. mgr.blk[b] \in EntryType
  BY DEF TableType
<1> HIDE DEF m, n
<1>6. CASE mgr.blk[b].free # 0
  <2>1. n = SetInuse(m, b)
    BY <1>2, <1>6
  <2>2. /\ Changes(n, m, b) /\ (InuseCounted(m) => InuseCounted(n))
        /\ Fields(n.blk[b], m.blk[b].fresh, TRUE, m.blk[b].dirty, m.blk[b].free)
    BY <1>4, <2>1, SetInuseFacts
  <2>3. Changes(n, mgr, b)
    BY <1>3, <2>2, ChangesTwice
  <2>4. /\ ~n.blk[b].fresh /\ n.blk[b].inuse /\ (n.blk[b].dirty <=> mgr.blk[b].dirty)
        /\ n.blk[b].free = mgr.blk[b].free
    BY <1>3, <1>5, <2>2 DEF Fields, EntryType
  <2>5. QED
    BY <1>1, <1>3, <1>6, <2>2, <2>3, <2>4 DEF n
<1>7. CASE mgr.blk[b].free = 0
  <2>1. n = m
    BY <1>2, <1>7
  <2>2. /\ ~n.blk[b].fresh /\ ~n.blk[b].inuse /\ (n.blk[b].dirty <=> mgr.blk[b].dirty)
        /\ n.blk[b].free = mgr.blk[b].free
    BY <1>1, <1>3, <1>5, <2>1 DEF Fields, EntryType
  <2>3. QED
    BY <1>1, <1>3, <1>7, <2>1, <2>2 DEF n
<1>8. QED
  BY <1>6, <1>7

LEMMA MarkDoneKeeps ==
  ASSUME IInv, MarkDone
  PROVE  IInv'
<1>1. /\ pc = "markDone" /\ gc' = NoGc /\ UNCHANGED <<op, scan, result>>
      /\ mgr' = DstUsable(mgr)
  BY DEF MarkDone, GcEnds
<1>2. /\ Typed /\ TableInv /\ TagsInv /\ ScanInv /\ GcInv /\ OpInv /\ WriteInv /\ SpareInv
      /\ gc.src \in Blocks /\ gc.dst \in Blocks /\ gc.src # gc.dst /\ gc.for \in {"search", "locate", "init"}
      /\ mgr.blk[gc.dst].fresh /\ (gc.for = "search" => workspace # 0)
  BY <1>1, GcBlocks DEF GcSteps
<1>3. PICK b \in Blocks : b = gc.dst
  BY <1>2
<1>4. /\ gc.for = "search" => pc' = "search" /\ workspace' = b
      /\ gc.for = "locate" => pc' = "rescued" /\ workspace' = workspace
      /\ gc.for = "init" => pc' = "locate" /\ workspace' = workspace
  <2>1. /\ pc' = CASE gc.for = "search" -> "search"
                   [] gc.for = "locate" -> "rescued"
                   [] gc.for = "init"   -> "locate"
        /\ workspace' = IF gc.for = "search" THEN gc.dst ELSE workspace
    BY DEF MarkDone, GcEnds
  <2>2. QED
    BY <1>3, <2>1
<1>5. Unlisted = {} /\ Unlisted' = {} /\ pc' \in {"search", "rescued", "locate"}
  BY <1>1, <1>2, <1>4 DEF Unlisted
<1>6. /\ flash \in [Blocks -> BlockType] /\ flash[b] \in BlockType /\ mgr \in TableType
      /\ EntryOK(b) /\ ~mgr.blk[b].inuse
  <2>1. EntryOK(b)
    BY <1>2, <1>5 DEF TableInv
  <2>2. QED
    BY <1>2, <1>3, <2>1 DEF Typed, EntryOK
<1> DEFINE x == [flash[b] EXCEPT !.done = TRUE]
<1>7. flash' = [flash EXCEPT ![b] = x]
  BY <1>3, Zenon DEF MarkDone
<1>8. /\ x \in BlockType /\ x.items = flash[b].items /\ x.done
      /\ x.magic = flash[b].magic /\ x.src = flash[b].src
  BY <1>6, TagFacts
<1> HIDE DEF x
<1>9. flash' \in [Blocks -> BlockType] /\ flash'[b] = x /\ \A c \in Blocks \ {b} : flash'[c] = flash[c]
  BY <1>6, <1>7, <1>8, BlockFacts
<1>10. /\ \A c \in Blocks : flash'[c].items = flash[c].items /\ flash'[c].magic = flash[c].magic
       /\ \A c \in Blocks : Used(c)' = Used(c) /\ Garbage(c)' = Garbage(c)
  <2>1. \A c \in Blocks : flash'[c].items = flash[c].items /\ flash'[c].magic = flash[c].magic
    BY <1>8, <1>9
  <2>2. QED
    BY <2>1, ItemsSame
<1>11. /\ Changes(mgr', mgr, b) /\ ~mgr'.blk[b].fresh /\ (mgr'.blk[b].inuse <=> mgr'.blk[b].free # 0)
       /\ (mgr'.blk[b].dirty <=> mgr.blk[b].dirty) /\ mgr'.blk[b].free = mgr.blk[b].free
       /\ (InuseCounted(mgr) => InuseCounted(mgr'))
  BY <1>1, <1>2, <1>3, <1>6, DstUsableFacts
<1>12. Typed'
  <2>1. \A c \in Blocks : Used(c)' <= Slots
    BY <1>2, <1>10 DEF Typed
  <2>2. NoGc \in GcType
    BY InitialTypes
  <2>3. workspace' \in {0} \cup Blocks
    BY <1>2, <1>4 DEF Typed
  <2>4. QED
    BY <1>1, <1>2, <1>5, <1>9, <1>11, <2>1, <2>2, <2>3 DEF Typed, Steps, Changes
<1>13. TableInv'
  <2>1. ASSUME NEW c \in Blocks PROVE EntryOK(c)'
    <3>1. EntryOK(c) /\ Used(c)' = Used(c) /\ Garbage(c)' = Garbage(c)
      BY <1>2, <1>5, <1>10 DEF TableInv
    <3>2. Ahead(c) = 0 /\ Ahead(c)' = 0
      BY <1>1, <1>5 DEF Ahead
    <3>3. CASE c = b
      <4>1. mgr'.blk[b].free \in 0 .. Slots
        BY <1>11 DEF Changes, TableType, EntryType
      <4>2. Garbage(b) = {}
        BY <1>2, <1>3, <1>6 DEF EntryOK
      <4>3. ~mgr'.blk[b].dirty
        BY <1>2, <1>3, <1>6, <1>11 DEF EntryOK
      <4>4. QED
        BY <1>11, <3>1, <3>2, <3>3, <4>1, <4>2, <4>3, Numbers DEF EntryOK
    <3>4. CASE c # b
      <4>1. ~Filling(c) /\ mgr'.blk[c] = mgr.blk[c]
        BY <1>1, <1>3, <1>11, <3>4 DEF Filling, WriteSteps, Changes
      <4>2. QED
        BY <3>1, <3>2, <4>1 DEF EntryOK
    <3>5. QED
      BY <3>3, <3>4
  <2>2. Counted(mgr)'
    BY <1>2, <1>11 DEF TableInv, Counted, FreshIn, Changes
  <2>3. QED
    BY <1>5, <2>1, <2>2 DEF TableInv
<1>14. TagsInv'
  <2>1. SrcBlocks = {} /\ DstBlocks \subseteq {b} /\ \A c \in Blocks : flash[c].magic
    BY <1>1, <1>2, <1>3, <1>5 DEF TagsInv
  <2>2. SrcBlocks' = {} /\ DstBlocks' = {}
    <3>1. \A c \in Blocks : c # b => (IsSrc(c)' <=> IsSrc(c)) /\ (IsDstNotDone(c)' <=> IsDstNotDone(c))
      BY <1>9 DEF IsSrc, IsDstNotDone
    <3>2. (IsSrc(b)' <=> IsSrc(b)) /\ ~IsDstNotDone(b)'
      BY <1>8, <1>9 DEF IsSrc, IsDstNotDone
    <3>3. QED
      BY <2>1, <3>1, <3>2 DEF SrcBlocks, DstBlocks
  <2>3. \A c \in Blocks : flash'[c].magic
    BY <1>10, <2>1
  <2>4. QED
    BY <1>5, <2>2, <2>3 DEF TagsInv
<1>15. ScanInv'
  BY <1>1, <1>2, <1>5 DEF ScanInv
<1>16. GcInv'
  BY <1>5 DEF GcInv, GcSteps
<1>17. OpInv'
  <2>1. ReplacedIsThere => ReplacedIsThere'
    <3>1. SUFFICES ASSUME NEW c \in Blocks, NEW s \in 1 .. Used(c), WithValue(c, s),
                          ~mgr.blk[c].fresh \/ c = b
                   PROVE  ReplacedIsThere'
      BY <1>3 DEF ReplacedIsThere
    <3>2. s \in 1 .. Used(c)' /\ WithValue(c, s)'
      BY <1>1, <1>10, <3>1 DEF WithValue
    <3>3. ~mgr'.blk[c].fresh
      BY <1>11, <3>1 DEF Changes
    <3>4. QED
      BY <3>2, <3>3 DEF ReplacedIsThere
  <2>2. CASE gc.for = "search"
    BY <1>1, <1>2, <1>4, <2>1, <2>2 DEF OpInv, GcSteps, InCall
  <2>3. CASE gc.for \in {"locate", "init"}
    BY <1>1, <1>2, <1>4, <2>3 DEF OpInv, GcSteps, InCall
  <2>4. QED
    BY <1>2, <2>2, <2>3
<1>18. WriteInv'
  BY <1>5 DEF WriteInv
<1>19. SpareInv'
  <2>1. CASE gc.for = "search"
    <3>1. ~Booting' /\ workspace' # 0
      BY <1>4, <2>1, Numbers DEF Booting, GcSteps
    <3>2. QED
      BY <3>1 DEF SpareInv
  <2>2. CASE gc.for \in {"locate", "init"}
    <3>1. Booting /\ Booting' /\ workspace' = workspace
      BY <1>1, <1>4, <2>2 DEF Booting, GcSteps
    <3>2. QED
      BY <1>2, <1>11, <3>1 DEF SpareInv, InuseCounted, InuseIn
  <2>3. QED
    BY <1>2, <2>1, <2>2
<1>20. QED
  BY <1>12, <1>13, <1>14, <1>15, <1>16, <1>17, <1>18, <1>19 DEF IInv

-----------------------------------------------------------------------------
(* The boot.                                                               *)

(* What the boot knows between two of its steps.                           *)
LEMMA ScanFacts ==
  ASSUME IInv, pc = "scan"
  PROVE  /\ Typed /\ TableInv /\ TagsInv /\ ScanInv /\ GcInv /\ OpInv /\ WriteInv /\ SpareInv
         /\ flash \in [Blocks -> BlockType] /\ mgr \in TableType /\ scan \in ScanType
         /\ Mendable /\ Counted(mgr) /\ InuseCounted(mgr) /\ workspace = 0 /\ result = "none" /\ op = NoOp
         /\ \A c \in Blocks : Used(c) \in 0 .. Slots /\ c \in Int
         /\ \A c \in Blocks : c \in Unlisted <=> c >= scan.blk \/ c \in SrcBlocks \/ c \in DstBlocks
         /\ \A c \in Blocks \ Unlisted : EntryOK(c) /\ (mgr.blk[c].fresh => Used(c) = 0)
         /\ \A c \in Blocks \cap Unlisted : ~mgr.blk[c].fresh /\ ~mgr.blk[c].inuse
         /\ \A c \in Blocks : ~flash[c].magic => flash[c] = Erased /\ c \in Unlisted
<1>1. /\ Typed /\ TableInv /\ TagsInv /\ ScanInv /\ GcInv /\ OpInv /\ WriteInv /\ SpareInv
  BY DEF IInv
<1>2. /\ flash \in [Blocks -> BlockType] /\ mgr \in TableType /\ scan \in ScanType
      /\ Mendable /\ Counted(mgr) /\ InuseCounted(mgr) /\ workspace = 0 /\ result = "none" /\ op = NoOp
  BY <1>1 DEF Typed, TagsInv, TableInv, SpareInv, OpInv, InCall, Booting, InuseCounted, GcSteps
<1>3. \A c \in Blocks : Used(c) \in 0 .. Slots /\ c \in Int
  <2>1. \A c \in Blocks : flash[c].items \in Seq(Item) /\ Used(c) <= Slots
    BY <1>1 DEF Typed, BlockType
  <2>2. QED
    BY <2>1, Numbers DEF Used
<1>4. Unlisted = {c \in Blocks : c >= scan.blk} \cup {c \in SrcBlocks : c < scan.blk} \cup {c \in DstBlocks : c < scan.blk}
  <2>1. Unlisted = {c \in Blocks : c >= scan.blk} \cup scan.srcs \cup scan.dsts
    BY DEF Unlisted
  <2>2. QED
    BY <1>1, <2>1 DEF ScanInv
<1>5. scan.blk \in Int
  BY <1>2, Numbers DEF ScanType
<1>6. \A c \in Blocks : c \in Unlisted <=> c >= scan.blk \/ c \in SrcBlocks \/ c \in DstBlocks
  BY <1>3, <1>4, <1>5
<1>7. \A c \in Blocks \ Unlisted : EntryOK(c) /\ (mgr.blk[c].fresh => Used(c) = 0)
  BY <1>1 DEF TableInv, EntryOK, Filling, WriteSteps
<1>8. \A c \in Blocks \cap Unlisted : ~mgr.blk[c].fresh /\ ~mgr.blk[c].inuse
  BY <1>1 DEF TableInv
<1>9. \A c \in Blocks : ~flash[c].magic => flash[c] = Erased /\ c \in Unlisted
  BY <1>1 DEF TagsInv
<1>10. QED
  BY <1>1, <1>2, <1>3, <1>6, <1>7, <1>8, <1>9

(* What a step of the scan has to keep.                                    *)
LEMMA ScanGoesOn ==
  ASSUME IInv, pc = "scan", pc' = "scan", UNCHANGED <<workspace, op, gc, result>>,
         flash' \in [Blocks -> BlockType], mgr' \in TableType, scan' \in ScanType,
         \A c \in Blocks : Used(c)' = Used(c),
         \A c \in Blocks : /\ flash'[c].src = flash[c].src /\ flash'[c].dst = flash[c].dst
                           /\ flash'[c].done = flash[c].done,
         \A c \in Blocks : ~flash'[c].magic => flash'[c] = Erased /\ c \in Unlisted',
         Counted(mgr'), InuseCounted(mgr'),
         \A c \in Blocks \ Unlisted' : EntryOK(c)',
         \A c \in Blocks \cap Unlisted' : ~mgr'.blk[c].fresh /\ ~mgr'.blk[c].inuse,
         ScanInv'
  PROVE  IInv' /\ SrcBlocks' = SrcBlocks /\ DstBlocks' = DstBlocks
<1>1. /\ Typed /\ GcInv /\ OpInv /\ WriteInv /\ SpareInv /\ Mendable /\ workspace = 0
  BY ScanFacts
<1>2. Typed'
  BY <1>1 DEF Typed
<1>3. Unlisted' \subseteq Blocks
  BY DEF Unlisted, ScanType
<1>4. TableInv'
  BY <1>3 DEF TableInv, Counted, FreshIn
<1>5. SrcBlocks' = SrcBlocks /\ DstBlocks' = DstBlocks
  BY DEF SrcBlocks, DstBlocks, IsSrc, IsDstNotDone
<1>6. TagsInv'
  <2>1. Mendable'
    <3>1. \A c \in Blocks : Used(c) = 0 => Used(c)' = 0
      OBVIOUS
    <3> DEFINE S == SrcBlocks
               D == DstBlocks
    <3>2. SrcBlocks' = S /\ DstBlocks' = D
      BY <1>5
    <3>3. QED
      BY <1>1, <3>1, <3>2 DEF Mendable
  <2>2. QED
    BY <2>1 DEF TagsInv
<1>7. GcInv' /\ OpInv' /\ WriteInv'
  BY <1>1 DEF GcInv, OpInv, WriteInv, GcSteps, InCall
<1>8. SpareInv'
  BY <1>1 DEF SpareInv, InuseCounted, InuseIn, Booting, GcSteps
<1>9. QED
  BY <1>2, <1>4, <1>5, <1>6, <1>7, <1>8 DEF IInv

(* The blocks a boot has listed when its cursor moves.                     *)
LEMMA UnlistedNext ==
  ASSUME pc' = "scan", scan' \in ScanType,
         scan'.srcs = {c \in SrcBlocks' : c < scan'.blk},
         scan'.dsts = {c \in DstBlocks' : c < scan'.blk}
  PROVE  \A c \in Blocks : c \in Unlisted' <=> c >= scan'.blk \/ c \in SrcBlocks' \/ c \in DstBlocks'
<1>1. Unlisted' = {c \in Blocks : c >= scan'.blk} \cup {c \in SrcBlocks' : c < scan'.blk} \cup {c \in DstBlocks' : c < scan'.blk}
  BY DEF Unlisted
<1>2. scan'.blk \in Int /\ \A c \in Blocks : c \in Int
  BY Numbers DEF ScanType
<1>3. QED
  BY <1>1, <1>2

LEMMA NextBlockSrcs ==
  ASSUME NEW s \in ScanType, s.blk \in Blocks, NEW T \in SUBSET Blocks
  PROVE  LET n == NextBlock([s EXCEPT !.srcs = T]) IN
         /\ n \in ScanType /\ n.blk = s.blk + 1 /\ n.slot = 0
         /\ n.srcs = T /\ n.dsts = s.dsts /\ n.fresh = s.fresh
<1>1. s.blk \in 1 .. NumBlocks /\ s.blk + 1 \in 1 .. NumBlocks + 1 /\ 0 \in 0 .. Slots + 1
  BY Numbers DEF Blocks
<1>2. QED
  BY <1>1 DEF NextBlock, ScanType

LEMMA NextBlockDsts ==
  ASSUME NEW s \in ScanType, s.blk \in Blocks, NEW T \in SUBSET Blocks
  PROVE  LET n == NextBlock([s EXCEPT !.dsts = T]) IN
         /\ n \in ScanType /\ n.blk = s.blk + 1 /\ n.slot = 0
         /\ n.dsts = T /\ n.srcs = s.srcs /\ n.fresh = s.fresh
<1>1. s.blk \in 1 .. NumBlocks /\ s.blk + 1 \in 1 .. NumBlocks + 1 /\ 0 \in 0 .. Slots + 1
  BY Numbers DEF Blocks
<1>2. QED
  BY <1>1 DEF NextBlock, ScanType

LEMMA NextBlockFresh ==
  ASSUME NEW s \in ScanType, s.blk \in Blocks, NEW T \in {0} \cup Blocks
  PROVE  LET n == NextBlock([s EXCEPT !.fresh = T]) IN
         /\ n \in ScanType /\ n.blk = s.blk + 1 /\ n.slot = 0
         /\ n.fresh = T /\ n.srcs = s.srcs /\ n.dsts = s.dsts
<1>1. s.blk \in 1 .. NumBlocks /\ s.blk + 1 \in 1 .. NumBlocks + 1 /\ 0 \in 0 .. Slots + 1
  BY Numbers DEF Blocks
<1>2. QED
  BY <1>1 DEF NextBlock, ScanType

(* A block without magic is formatted and listed as fresh.                 *)
LEMMA ScanErasedKeeps ==
  ASSUME IInv, ScanHeader, ~flash[scan.blk].magic
  PROVE  IInv'
<1>1. PICK b \in Blocks : b = scan.blk
  BY DEF ScanHeader
<1>2. /\ pc = "scan" /\ pc' = "scan" /\ UNCHANGED <<workspace, op, gc, result>>
      /\ flash' = [flash EXCEPT ![b] = Formatted] /\ mgr' = SetFresh(mgr, b)
      /\ scan' = NextBlock([scan EXCEPT !.fresh = b])
  BY <1>1, Zenon DEF ScanHeader
<1>3. /\ Typed /\ ScanInv
      /\ flash \in [Blocks -> BlockType] /\ mgr \in TableType /\ scan \in ScanType
      /\ Mendable /\ Counted(mgr) /\ InuseCounted(mgr)
      /\ \A c \in Blocks : Used(c) \in 0 .. Slots /\ c \in Int
      /\ \A c \in Blocks : c \in Unlisted <=> c >= scan.blk \/ c \in SrcBlocks \/ c \in DstBlocks
      /\ \A c \in Blocks \ Unlisted : EntryOK(c) /\ (mgr.blk[c].fresh => Used(c) = 0)
      /\ \A c \in Blocks \cap Unlisted : ~mgr.blk[c].fresh /\ ~mgr.blk[c].inuse
      /\ \A c \in Blocks : ~flash[c].magic => flash[c] = Erased /\ c \in Unlisted
  BY <1>2, ScanFacts
<1>4. flash[b] = Erased /\ Used(b) = 0 /\ b \in Unlisted
  BY <1>1, <1>3, ErasedType DEF Used
<1>5. flash' \in [Blocks -> BlockType] /\ flash'[b] = Formatted /\ \A c \in Blocks \ {b} : flash'[c] = flash[c]
  BY <1>2, <1>3, BlockFacts, ErasedType
<1>6. /\ Changes(mgr', mgr, b) /\ Fields(mgr'.blk[b], TRUE, FALSE, FALSE, Slots)
      /\ InuseCounted(mgr')
  BY <1>2, <1>3, <1>4, SetFreshFacts
<1>7. /\ scan' \in ScanType /\ scan'.blk = b + 1 /\ scan'.slot = 0 /\ scan'.fresh = b
      /\ scan'.srcs = scan.srcs /\ scan'.dsts = scan.dsts
  BY <1>1, <1>2, <1>3, NextBlockFresh
<1>8. \A c \in Blocks : /\ flash'[c].src = flash[c].src /\ flash'[c].dst = flash[c].dst
                        /\ flash'[c].done = flash[c].done
  <2>1. Formatted.src = Erased.src /\ Formatted.dst = Erased.dst /\ Formatted.done = Erased.done
    BY DEF Formatted, Erased
  <2>2. QED
    BY <1>4, <1>5, <2>1
<1>9. SrcBlocks' = SrcBlocks /\ DstBlocks' = DstBlocks /\ b \notin SrcBlocks /\ b \notin DstBlocks
  BY <1>4, <1>8, ErasedType DEF SrcBlocks, DstBlocks, IsSrc, IsDstNotDone
<1>10. EntryOK(b)' /\ Used(b)' = 0 /\ Garbage(b)' = {} /\ mgr'.blk[b].fresh /\ ~mgr'.blk[b].inuse
  <2>1. Ahead(b)' = 0
    BY <1>2 DEF Ahead
  <2>2. QED
    BY <1>5, <1>6, <2>1, ErasedType, FormattedEntry
<1>11. \A c \in Blocks \ {b} : Used(c)' = Used(c) /\ Garbage(c)' = Garbage(c) /\ mgr'.blk[c] = mgr.blk[c]
  BY <1>5, <1>6 DEF Used, Garbage, Changes
<1>12. /\ scan'.srcs = {c \in SrcBlocks' : c < scan'.blk}
       /\ scan'.dsts = {c \in DstBlocks' : c < scan'.blk}
  <2>1. scan.srcs = {c \in SrcBlocks : c < b} /\ scan.dsts = {c \in DstBlocks : c < b}
    BY <1>1, <1>2, <1>3 DEF ScanInv
  <2>2. SrcBlocks \subseteq Blocks /\ DstBlocks \subseteq Blocks
    BY DEF SrcBlocks, DstBlocks
  <2>3. \A c \in Blocks : c # b => (c < b <=> c < b + 1)
    BY <1>3
  <2>4. QED
    BY <1>7, <1>9, <2>1, <2>2, <2>3
<1>13. \A c \in Blocks : c \in Unlisted' <=> c # b /\ c \in Unlisted
  <2>1. \A c \in Blocks : c \in Unlisted' <=> c >= b + 1 \/ c \in SrcBlocks \/ c \in DstBlocks
    BY <1>2, <1>7, <1>9, <1>12, UnlistedNext
  <2>2. \A c \in Blocks : c # b => (c >= b <=> c >= b + 1)
    BY <1>3
  <2>3. ~(b >= b + 1)
    BY <1>3
  <2>4. QED
    BY <1>1, <1>3, <1>9, <2>1, <2>2, <2>3
<1>14. \A c \in Blocks \ Unlisted' : EntryOK(c)'
  <2>1. ASSUME NEW c \in Blocks \ Unlisted', c # b PROVE EntryOK(c)'
    <3>1. EntryOK(c) /\ mgr'.blk[c] = mgr.blk[c] /\ Used(c)' = Used(c) /\ Garbage(c)' = Garbage(c)
      BY <1>3, <1>11, <1>13, <2>1
    <3>2. Ahead(c) = 0 /\ Ahead(c)' = 0 /\ ~Filling(c)
      BY <1>2 DEF Filling, Ahead, WriteSteps
    <3>3. QED
      BY <3>1, <3>2 DEF EntryOK
  <2>2. QED
    BY <1>10, <2>1
<1>15. \A c \in Blocks \cap Unlisted' : ~mgr'.blk[c].fresh /\ ~mgr'.blk[c].inuse
  BY <1>3, <1>11, <1>13
<1>16. \A c \in Blocks : ~flash'[c].magic => flash'[c] = Erased /\ c \in Unlisted'
  BY <1>3, <1>5, <1>13, ErasedType
<1>17. ScanInv'
  <2>1. scan'.fresh # 0 => scan'.fresh < scan'.blk /\ mgr'.blk[scan'.fresh].fresh
    BY <1>3, <1>7, <1>10
  <2>2. \A c \in Blocks \ Unlisted' : Used(c)' = 0 => mgr'.blk[c].fresh /\ scan'.fresh # 0
    <3>1. scan'.fresh # 0
      BY <1>7, Numbers
    <3>2. QED
      BY <1>2, <1>3, <1>10, <1>11, <1>13, <3>1 DEF ScanInv
  <2>3. QED
    BY <1>2, <1>7, <1>12, <2>1, <2>2 DEF ScanInv
<1>18. mgr' \in TableType /\ Counted(mgr')
  BY <1>3, <1>6 DEF Changes
<1>19. \A c \in Blocks : Used(c)' = Used(c)
  BY <1>4, <1>10, <1>11
<1>20. QED
  BY <1>2, <1>5, <1>6, <1>7, <1>8, <1>14, <1>15, <1>16, <1>17, <1>18, <1>19, ScanGoesOn

(* A tagged block is remembered; the walk of any other begins.             *)
LEMMA ScanTagsKeeps ==
  ASSUME IInv, ScanHeader, flash[scan.blk].magic
  PROVE  IInv'
<1>1. PICK b \in Blocks : b = scan.blk
  BY DEF ScanHeader
<1>2. /\ pc = "scan" /\ pc' = "scan" /\ UNCHANGED <<flash, mgr, workspace, op, gc, result>>
      /\ scan.slot = 0
      /\ \/ IsSrc(b) /\ scan' = NextBlock([scan EXCEPT !.srcs = scan.srcs \cup {b}])
         \/ ~IsSrc(b) /\ IsDstNotDone(b) /\ scan' = NextBlock([scan EXCEPT !.dsts = scan.dsts \cup {b}])
         \/ ~IsSrc(b) /\ ~IsDstNotDone(b) /\ scan' = [scan EXCEPT !.slot = 1]
  BY <1>1 DEF ScanHeader
<1>3. /\ Typed /\ ScanInv
      /\ flash \in [Blocks -> BlockType] /\ mgr \in TableType /\ scan \in ScanType
      /\ Mendable /\ Counted(mgr) /\ InuseCounted(mgr)
      /\ \A c \in Blocks : Used(c) \in 0 .. Slots /\ c \in Int
      /\ \A c \in Blocks : c \in Unlisted <=> c >= scan.blk \/ c \in SrcBlocks \/ c \in DstBlocks
      /\ \A c \in Blocks \ Unlisted : EntryOK(c) /\ (mgr.blk[c].fresh => Used(c) = 0)
      /\ \A c \in Blocks \cap Unlisted : ~mgr.blk[c].fresh /\ ~mgr.blk[c].inuse
      /\ \A c \in Blocks : ~flash[c].magic => flash[c] = Erased /\ c \in Unlisted
  BY <1>2, ScanFacts
<1>4. /\ \A c \in Blocks : Used(c)' = Used(c) /\ Garbage(c)' = Garbage(c)
      /\ SrcBlocks' = SrcBlocks /\ DstBlocks' = DstBlocks
      /\ (b \in SrcBlocks <=> IsSrc(b)) /\ (b \in DstBlocks <=> IsDstNotDone(b))
  BY <1>2, FlashSame DEF SrcBlocks, DstBlocks
<1>5. /\ SrcBlocks \subseteq Blocks /\ DstBlocks \subseteq Blocks /\ SrcBlocks \cap DstBlocks = {}
      /\ scan.srcs = {c \in SrcBlocks : c < b} /\ scan.dsts = {c \in DstBlocks : c < b}
      /\ (scan.fresh # 0 => scan.fresh < b /\ mgr.blk[scan.fresh].fresh)
  BY <1>1, <1>2, <1>3 DEF SrcBlocks, DstBlocks, ScanInv, Mendable
<1>6. /\ scan' \in ScanType /\ scan'.fresh = scan.fresh
      /\ \/ (b \in SrcBlocks \/ b \in DstBlocks) /\ scan'.blk = b + 1 /\ scan'.slot = 0
         \/ b \notin SrcBlocks /\ b \notin DstBlocks /\ scan'.blk = b /\ scan'.slot = 1
      /\ scan'.srcs = {c \in SrcBlocks : c < scan'.blk}
      /\ scan'.dsts = {c \in DstBlocks : c < scan'.blk}
  <2>1. \A c \in Blocks : c # b => (c < b <=> c < b + 1)
    BY <1>3
  <2>2. ~(b < b) /\ b < b + 1
    BY <1>3
  <2>3. CASE IsSrc(b) /\ scan' = NextBlock([scan EXCEPT !.srcs = scan.srcs \cup {b}])
    <3>1. PICK T \in SUBSET Blocks : T = scan.srcs \cup {b}
      BY <1>5
    <3>2. /\ scan' \in ScanType /\ scan'.fresh = scan.fresh /\ scan'.blk = b + 1 /\ scan'.slot = 0
          /\ scan'.srcs = scan.srcs \cup {b} /\ scan'.dsts = scan.dsts
      <4>1. scan \in ScanType /\ scan.blk \in Blocks /\ scan' = NextBlock([scan EXCEPT !.srcs = T])
        BY <1>1, <1>3, <2>3, <3>1
      <4>2. QED
        BY <1>1, <3>1, <4>1, NextBlockSrcs
    <3>3. b \in SrcBlocks /\ b \notin DstBlocks
      BY <1>4, <1>5, <2>3
    <3>4. QED
      BY <1>5, <2>1, <2>2, <3>2, <3>3
  <2>4. CASE ~IsSrc(b) /\ IsDstNotDone(b) /\ scan' = NextBlock([scan EXCEPT !.dsts = scan.dsts \cup {b}])
    <3>1. PICK T \in SUBSET Blocks : T = scan.dsts \cup {b}
      BY <1>5
    <3>2. /\ scan' \in ScanType /\ scan'.fresh = scan.fresh /\ scan'.blk = b + 1 /\ scan'.slot = 0
          /\ scan'.dsts = scan.dsts \cup {b} /\ scan'.srcs = scan.srcs
      <4>1. scan \in ScanType /\ scan.blk \in Blocks /\ scan' = NextBlock([scan EXCEPT !.dsts = T])
        BY <1>1, <1>3, <2>4, <3>1
      <4>2. QED
        BY <1>1, <3>1, <4>1, NextBlockDsts
    <3>3. b \in DstBlocks /\ b \notin SrcBlocks
      BY <1>4, <2>4
    <3>4. QED
      BY <1>5, <2>1, <2>2, <3>2, <3>3
  <2>5. CASE ~IsSrc(b) /\ ~IsDstNotDone(b) /\ scan' = [scan EXCEPT !.slot = 1]
    <3>1. /\ scan' \in ScanType /\ scan'.fresh = scan.fresh /\ scan'.blk = b /\ scan'.slot = 1
          /\ scan'.dsts = scan.dsts /\ scan'.srcs = scan.srcs
      BY <1>1, <1>3, <2>5, Numbers DEF ScanType
    <3>2. QED
      BY <1>4, <1>5, <2>5, <3>1
  <2>6. QED
    BY <1>2, <2>3, <2>4, <2>5
<1>7. \A c \in Blocks : c \in Unlisted' <=> c \in Unlisted
  <2>1. \A c \in Blocks : c \in Unlisted' <=> c >= scan'.blk \/ c \in SrcBlocks \/ c \in DstBlocks
    BY <1>2, <1>4, <1>6, UnlistedNext
  <2>2. \A c \in Blocks : c # b => (c >= b <=> c >= b + 1)
    BY <1>3
  <2>3. b >= b
    BY <1>3
  <2>4. QED
    BY <1>1, <1>3, <1>6, <2>1, <2>2, <2>3
<1>8. \A c \in Blocks \ Unlisted' : EntryOK(c)'
  <2>1. ASSUME NEW c \in Blocks \ Unlisted' PROVE EntryOK(c)'
    <3>1. EntryOK(c) /\ mgr' = mgr /\ Used(c)' = Used(c) /\ Garbage(c)' = Garbage(c)
      BY <1>2, <1>3, <1>4, <1>7, <2>1
    <3>2. Ahead(c) = 0 /\ Ahead(c)' = 0 /\ ~Filling(c)
      BY <1>2 DEF Filling, Ahead, WriteSteps
    <3>3. QED
      BY <3>1, <3>2 DEF EntryOK
  <2>2. QED
    BY <2>1
<1>9. \A c \in Blocks \cap Unlisted' : ~mgr'.blk[c].fresh /\ ~mgr'.blk[c].inuse
  BY <1>2, <1>3, <1>7
<1>10. \A c \in Blocks : ~flash'[c].magic => flash'[c] = Erased /\ c \in Unlisted'
  BY <1>2, <1>3, <1>7
<1>11. ScanInv'
  <2>1. scan'.fresh # 0 => scan'.fresh < scan'.blk /\ mgr'.blk[scan'.fresh].fresh
    <3>1. scan.fresh \in Int /\ b \in Int
      <4>1. scan.fresh \in {0} \cup Blocks
        BY <1>3 DEF ScanType
      <4>2. QED
        BY <1>3, <4>1
    <3>2. QED
      BY <1>2, <1>5, <1>6, <3>1
  <2>2. \A c \in Blocks \ Unlisted' : Used(c)' = 0 => mgr'.blk[c].fresh /\ scan'.fresh # 0
    BY <1>2, <1>3, <1>4, <1>6, <1>7 DEF ScanInv
  <2>3. scan'.slot # 0 =>
            /\ scan'.blk \in Blocks \ (SrcBlocks' \cup DstBlocks') /\ flash'[scan'.blk].magic
            /\ \A s \in Garbage(scan.blk)' : s < scan'.slot => mgr'.blk[scan'.blk].dirty
    <3>1. SUFFICES ASSUME scan'.slot # 0
                   PROVE  /\ b \in Blocks \ (SrcBlocks \cup DstBlocks) /\ flash[b].magic
                          /\ \A s \in Garbage(b) : ~(s < 1)
      BY <1>2, <1>4, <1>6 DEF Garbage, Used
    <3>2. \A s \in 1 .. Used(b) : ~(s < 1)
      BY <1>3
    <3>3. Garbage(b) \subseteq 1 .. Used(b)
      BY DEF Garbage
    <3>4. QED
      BY <1>1, <1>6, <3>1, <3>2, <3>3
  <2>4. QED
    BY <1>2, <1>4, <1>6, <2>1, <2>2, <2>3 DEF ScanInv
<1>12. mgr' \in TableType /\ Counted(mgr') /\ InuseCounted(mgr') /\ flash' \in [Blocks -> BlockType]
  BY <1>2, <1>3
<1>13. /\ \A c \in Blocks : Used(c)' = Used(c)
       /\ \A c \in Blocks : /\ flash'[c].src = flash[c].src /\ flash'[c].dst = flash[c].dst
                            /\ flash'[c].done = flash[c].done
  BY <1>2, <1>4
<1>14. QED
  BY <1>2, <1>6, <1>8, <1>9, <1>10, <1>11, <1>12, <1>13, ScanGoesOn

(* The repair of an item touches one block, and makes it dirty.            *)
LEMMA RecoverFacts ==
  ASSUME IInv, ScanItem
  PROVE  LET b == scan.blk
             s == scan.slot
         IN
         /\ flash' \in [Blocks -> BlockType] /\ mgr' \in TableType /\ Counted(mgr') /\ InuseCounted(mgr')
         /\ \A c \in Blocks : SameTags(flash'[c], flash[c]) /\ Used(c)' = Used(c)
         /\ \A c \in Blocks : /\ mgr'.blk[c].fresh <=> mgr.blk[c].fresh
                              /\ mgr'.blk[c].inuse <=> mgr.blk[c].inuse
                              /\ mgr'.blk[c].free = mgr.blk[c].free
         /\ \A c \in Blocks : \/ flash'[c] = flash[c] /\ mgr'.blk[c] = mgr.blk[c]
                              \/ mgr'.blk[c].dirty /\ Used(c) # 0
         /\ mgr'.blk[b].dirty \/ (flash'[b] = flash[b] /\ mgr'.blk[b] = mgr.blk[b] /\ s \notin Garbage(b))
<1>1. PICK b \in Blocks : b = scan.blk
  BY DEF ScanItem
<1>2. PICK s : s = scan.slot
  OBVIOUS
<1>3. pc = "scan" /\ s \in 1 .. Used(b) /\ RecoverItem
  BY <1>1, <1>2 DEF ScanItem
<1>4. /\ Typed /\ flash \in [Blocks -> BlockType] /\ mgr \in TableType
      /\ Counted(mgr) /\ InuseCounted(mgr) /\ \A c \in Blocks : Used(c) \in 0 .. Slots
  BY <1>3, ScanFacts
<1>5. PICK p \in Written : p = PosOf(b, s)
  BY <1>3, <1>4, SlotWritten
<1>6. At(p) = flash[b].items[s] /\ BlockOf(p) = b /\ SlotOf(p) = s
  BY <1>3, <1>4, <1>5, SlotWritten
<1> DEFINE Same(c) == flash'[c] = flash[c] /\ mgr'.blk[c] = mgr.blk[c]
           Repaired(c) ==
             /\ flash' \in [Blocks -> BlockType]
             /\ \A d \in Blocks \ {c} : flash'[d] = flash[d]
             /\ SameTags(flash'[c], flash[c]) /\ Used(c)' = Used(c) /\ Used(c) # 0
             /\ Changes(mgr', mgr, c) /\ InuseCounted(mgr')
             /\ Fields(mgr'.blk[c], mgr.blk[c].fresh, mgr.blk[c].inuse, TRUE, mgr.blk[c].free)
<1>7. \/ Repaired(b)
      \/ s \notin Garbage(b) /\ \E c \in Blocks : Repaired(c)
      \/ s \notin Garbage(b) /\ flash' = flash /\ mgr' = mgr
  <2>1. ASSUME NEW r \in Written, flash' = Discard(r), mgr' = SetDirty(mgr, BlockOf(r))
        PROVE  BlockOf(r) \in Blocks /\ Repaired(BlockOf(r))
    <3>1. PICK c \in Blocks : c = BlockOf(r)
      BY <1>4, WrittenFacts
    <3>2. /\ flash' \in [Blocks -> BlockType] /\ \A d \in Blocks \ {c} : flash'[d] = flash[d]
          /\ SameTags(flash'[c], flash[c]) /\ Len(flash'[c].items) = Used(c)
      BY <1>4, <2>1, <3>1, DiscardFacts
    <3>3. Used(c) # 0
      BY <1>4, <3>1, WrittenFacts, Numbers
    <3>4. /\ Changes(mgr', mgr, c) /\ (InuseCounted(mgr) => InuseCounted(mgr'))
          /\ Fields(mgr'.blk[c], mgr.blk[c].fresh, mgr.blk[c].inuse, TRUE, mgr.blk[c].free)
      BY <1>4, <2>1, <3>1, SetDirtyFacts
    <3>5. Used(c)' = Used(c)
      BY <3>2 DEF Used
    <3>6. Repaired(c)
      BY <1>4, <3>2, <3>3, <3>4, <3>5
    <3>7. QED
      BY <3>1, <3>6
  <2>2. \/ /\ At(p).state \in {"torn", "partial"}
           /\ flash' = Discard(p) /\ mgr' = SetDirty(mgr, b)
        \/ /\ At(p).state = "discarded"
           /\ mgr' = SetDirty(mgr, b) /\ flash' = flash
        \/ /\ At(p).state = "live"
           /\ IF IsUpdateOf(p, At(p).prev)
              THEN /\ flash' = Discard(At(p).prev)
                   /\ mgr' = SetDirty(mgr, BlockOf(At(p).prev))
              ELSE UNCHANGED <<flash, mgr>>
    BY <1>1, <1>2, <1>3, <1>5 DEF RecoverItem
  <2>3. CASE At(p).state \in {"torn", "partial"} /\ flash' = Discard(p) /\ mgr' = SetDirty(mgr, b)
    BY <1>6, <2>1, <2>3
  <2>4. CASE At(p).state = "discarded" /\ mgr' = SetDirty(mgr, b) /\ flash' = flash
    <3>1. /\ Changes(mgr', mgr, b) /\ (InuseCounted(mgr) => InuseCounted(mgr'))
          /\ Fields(mgr'.blk[b], mgr.blk[b].fresh, mgr.blk[b].inuse, TRUE, mgr.blk[b].free)
      BY <1>4, <2>4, SetDirtyFacts
    <3>2. Used(b)' = Used(b) /\ Used(b) # 0 /\ SameTags(flash'[b], flash[b])
      BY <1>3, <1>4, <2>4, Numbers DEF Used, SameTags
    <3>3. Repaired(b)
      BY <1>4, <2>4, <3>1, <3>2
    <3>4. QED
      BY <3>3
  <2>5. CASE At(p).state = "live"
    <3>1. s \notin Garbage(b)
      BY <1>6, <2>5 DEF Garbage
    <3>2. CASE IsUpdateOf(p, At(p).prev)
      <4>1. PICK r \in Written : r = At(p).prev
        BY <3>2 DEF IsUpdateOf, Copies, Live
      <4>2. flash' = Discard(r) /\ mgr' = SetDirty(mgr, BlockOf(r))
        BY <2>2, <2>5, <3>2, <4>1
      <4> HIDE DEF Repaired
      <4>3. BlockOf(r) \in Blocks /\ Repaired(BlockOf(r))
        BY <2>1, <4>2
      <4>4. QED
        BY <3>1, <4>3
    <3>3. CASE ~IsUpdateOf(p, At(p).prev)
      BY <2>2, <2>5, <3>1, <3>3
    <3>4. QED
      BY <3>2, <3>3
  <2>6. QED
    BY <2>2, <2>3, <2>4, <2>5
<1>8. ASSUME NEW c \in Blocks, Repaired(c)
      PROVE  /\ flash' \in [Blocks -> BlockType] /\ mgr' \in TableType /\ Counted(mgr') /\ InuseCounted(mgr')
             /\ \A d \in Blocks : SameTags(flash'[d], flash[d]) /\ Used(d)' = Used(d)
             /\ \A d \in Blocks : /\ mgr'.blk[d].fresh <=> mgr.blk[d].fresh
                                  /\ mgr'.blk[d].inuse <=> mgr.blk[d].inuse
                                  /\ mgr'.blk[d].free = mgr.blk[d].free
             /\ \A d \in Blocks \ {c} : Same(d)
             /\ mgr'.blk[c].dirty /\ Used(c) # 0
  <2>1. \A d \in Blocks \ {c} : Same(d) /\ SameTags(flash'[d], flash[d]) /\ Used(d)' = Used(d)
    BY <1>8 DEF Changes, SameTags, Used
  <2>2. /\ mgr'.blk[c].fresh <=> mgr.blk[c].fresh
        /\ mgr'.blk[c].inuse <=> mgr.blk[c].inuse
        /\ mgr'.blk[c].free = mgr.blk[c].free /\ mgr'.blk[c].dirty
    BY <1>8 DEF Fields
  <2>3. QED
    BY <1>4, <1>8, <2>1, <2>2 DEF Changes
<1>9. CASE s \notin Garbage(b) /\ flash' = flash /\ mgr' = mgr
  <2>1. \A c \in Blocks : Used(c)' = Used(c) /\ SameTags(flash'[c], flash[c])
    BY <1>9 DEF Used, SameTags
  <2>2. QED
    BY <1>1, <1>2, <1>4, <1>9, <2>1
<1>10. CASE Repaired(b)
  <2> HIDE DEF Repaired
  <2>1. QED
    BY <1>1, <1>2, <1>8, <1>10
<1>11. CASE s \notin Garbage(b) /\ \E c \in Blocks : Repaired(c)
  <2>1. PICK c \in Blocks : Repaired(c)
    BY <1>11
  <2> HIDE DEF Repaired
  <2>2. QED
    BY <1>1, <1>2, <1>8, <1>11, <2>1
<1>12. QED
  BY <1>7, <1>9, <1>10, <1>11

(* An entry the repair has not touched, or made dirty, is still right.     *)
LEMMA EntryRepaired ==
  ASSUME NEW c \in Blocks, EntryOK(c), mgr.blk[c].fresh => Used(c) = 0, Used(c) \in Nat,
         Used(c)' = Used(c), Ahead(c) = 0, Ahead(c)' = 0,
         mgr'.blk[c].fresh <=> mgr.blk[c].fresh, mgr'.blk[c].inuse <=> mgr.blk[c].inuse,
         mgr'.blk[c].free = mgr.blk[c].free,
         \/ flash'[c] = flash[c] /\ mgr'.blk[c] = mgr.blk[c]
         \/ mgr'.blk[c].dirty /\ Used(c) # 0
  PROVE  EntryOK(c)'
<1>1. CASE flash'[c] = flash[c] /\ mgr'.blk[c] = mgr.blk[c]
  <2>1. Garbage(c)' = Garbage(c)
    BY <1>1 DEF Garbage, Used
  <2>2. QED
    BY <1>1, <2>1 DEF EntryOK
<1>2. CASE mgr'.blk[c].dirty /\ Used(c) # 0
  BY <1>2 DEF EntryOK
<1>3. QED
  BY <1>1, <1>2

LEMMA ScanItemKeeps ==
  ASSUME IInv, ScanItem
  PROVE  IInv'
<1>1. PICK b \in Blocks : b = scan.blk
  BY DEF ScanItem
<1>2. PICK s : s = scan.slot
  OBVIOUS
<1>3. /\ pc = "scan" /\ pc' = "scan" /\ UNCHANGED <<workspace, op, gc, result>>
      /\ s \in 1 .. Used(b) /\ scan' = [scan EXCEPT !.slot = After(b, s)]
  BY <1>1, <1>2, Zenon DEF ScanItem
<1>4. /\ Typed /\ ScanInv
      /\ flash \in [Blocks -> BlockType] /\ mgr \in TableType /\ scan \in ScanType
      /\ \A c \in Blocks : Used(c) \in 0 .. Slots
      /\ \A c \in Blocks : c \in Unlisted <=> c >= scan.blk \/ c \in SrcBlocks \/ c \in DstBlocks
      /\ \A c \in Blocks \ Unlisted : EntryOK(c) /\ (mgr.blk[c].fresh => Used(c) = 0)
      /\ \A c \in Blocks \cap Unlisted : ~mgr.blk[c].fresh /\ ~mgr.blk[c].inuse
      /\ \A c \in Blocks : ~flash[c].magic => flash[c] = Erased /\ c \in Unlisted
  BY <1>3, ScanFacts
<1>5. /\ flash' \in [Blocks -> BlockType] /\ mgr' \in TableType /\ Counted(mgr') /\ InuseCounted(mgr')
      /\ \A c \in Blocks : SameTags(flash'[c], flash[c]) /\ Used(c)' = Used(c)
      /\ \A c \in Blocks : /\ mgr'.blk[c].fresh <=> mgr.blk[c].fresh
                           /\ mgr'.blk[c].inuse <=> mgr.blk[c].inuse
                           /\ mgr'.blk[c].free = mgr.blk[c].free
      /\ \A c \in Blocks : \/ flash'[c] = flash[c] /\ mgr'.blk[c] = mgr.blk[c]
                           \/ mgr'.blk[c].dirty /\ Used(c) # 0
      /\ mgr'.blk[b].dirty \/ (flash'[b] = flash[b] /\ mgr'.blk[b] = mgr.blk[b] /\ s \notin Garbage(b))
  BY <1>1, <1>2, RecoverFacts
<1> DEFINE e == After(b, s)
<1>6. /\ e \in s + 1 .. Used(b) + 1
      /\ \A t \in s + 1 .. e - 1 : flash[b].items[t].state = "rest"
  <2>1. Used(b) \in Nat
    BY <1>4, Numbers
  <2>2. QED
    BY <1>3, <2>1, AfterFacts
<1> HIDE DEF e
<1>7. /\ scan' \in ScanType /\ scan'.slot = e /\ scan'.blk = scan.blk /\ scan'.fresh = scan.fresh
      /\ scan'.srcs = scan.srcs /\ scan'.dsts = scan.dsts
  <2>1. e \in 0 .. Slots + 1
    <3>1. Used(b) \in 0 .. Slots
      BY <1>4
    <3>2. QED
      BY <1>3, <1>6, <3>1, Numbers
  <2>2. scan' = [scan EXCEPT !.slot = e]
    BY <1>3 DEF e
  <2>3. QED
    BY <1>4, <2>1, <2>2 DEF ScanType
<1>8. SrcBlocks' = SrcBlocks /\ DstBlocks' = DstBlocks /\ \A c \in Blocks : flash'[c].magic = flash[c].magic
  BY <1>5, TagsSame
<1>9. /\ scan.srcs = {c \in SrcBlocks : c < scan.blk} /\ scan.dsts = {c \in DstBlocks : c < scan.blk}
      /\ scan.fresh # 0 => scan.fresh < scan.blk /\ mgr.blk[scan.fresh].fresh
      /\ \A c \in Blocks \ Unlisted : Used(c) = 0 => mgr.blk[c].fresh /\ scan.fresh # 0
      /\ b \in Blocks \ (SrcBlocks \cup DstBlocks) /\ flash[b].magic
      /\ \A t \in Garbage(b) : t < s => mgr.blk[b].dirty
  <2>1. scan.slot # 0
    BY <1>2, <1>3
  <2>2. QED
    BY <1>1, <1>2, <1>3, <1>4, <2>1 DEF ScanInv
<1>10. Unlisted' = Unlisted
  BY <1>3, <1>7 DEF Unlisted
<1>11. \A c \in Blocks \ Unlisted' : EntryOK(c)'
  <2> TAKE c \in Blocks \ Unlisted'
  <2>1. EntryOK(c) /\ (mgr.blk[c].fresh => Used(c) = 0)
    BY <1>4, <1>10
  <2>2. Ahead(c) = 0 /\ Ahead(c)' = 0 /\ Used(c) \in Nat
    BY <1>3, <1>4, Numbers DEF Ahead
  <2>3. QED
    BY <1>5, <2>1, <2>2, EntryRepaired
<1>12. \A c \in Blocks \cap Unlisted' : ~mgr'.blk[c].fresh /\ ~mgr'.blk[c].inuse
  BY <1>4, <1>5, <1>10
<1>13. \A c \in Blocks : ~flash'[c].magic => flash'[c] = Erased /\ c \in Unlisted'
  <2> TAKE c \in Blocks
  <2>1. ~flash[c].magic => flash[c] = Erased /\ c \in Unlisted
    BY <1>4
  <2>2. flash[c] = Erased => Used(c) = 0
    BY ErasedType DEF Used
  <2>3. QED
    BY <1>5, <1>8, <1>10, <2>1, <2>2
<1>14. ScanInv'
  <2>1. scan'.fresh # 0 => scan'.fresh < scan'.blk /\ mgr'.blk[scan'.fresh].fresh
    <3>1. scan.fresh \in {0} \cup Blocks
      BY <1>4 DEF ScanType
    <3>2. QED
      BY <1>5, <1>7, <1>9, <3>1
  <2>2. \A c \in Blocks \ Unlisted' : Used(c)' = 0 => mgr'.blk[c].fresh /\ scan'.fresh # 0
    BY <1>5, <1>7, <1>9, <1>10
  <2>3. \A t \in Garbage(b)' : t < e => mgr'.blk[b].dirty
    <3>1. SUFFICES ASSUME flash'[b] = flash[b], mgr'.blk[b] = mgr.blk[b], s \notin Garbage(b),
                          NEW t \in Garbage(b), t < e
                   PROVE  mgr.blk[b].dirty
      BY <1>5 DEF Garbage, Used
    <3>2. t \in 1 .. Used(b) /\ flash[b].items[t].state = "discarded" /\ t # s
      BY <3>1 DEF Garbage
    <3>3. Used(b) \in 0 .. Slots
      BY <1>4
    <3>4. ~(t \in s + 1 .. e - 1)
      BY <1>6, <3>2
    <3>5. t < s
      BY <1>3, <1>6, <3>1, <3>2, <3>3, <3>4, Numbers
    <3>6. QED
      BY <1>9, <3>1, <3>5
  <2>4. Garbage(scan.blk)' = Garbage(b)'
    BY <1>1, <1>7 DEF Garbage, Used
  <2>5. QED
    BY <1>1, <1>3, <1>7, <1>8, <1>9, <2>1, <2>2, <2>3, <2>4 DEF ScanInv
<1>15. \A c \in Blocks : /\ flash'[c].src = flash[c].src /\ flash'[c].dst = flash[c].dst
                         /\ flash'[c].done = flash[c].done
  BY <1>5 DEF SameTags
<1>16. QED
  BY <1>3, <1>5, <1>7, <1>11, <1>12, <1>13, <1>14, <1>15, ScanGoesOn

LEMMA ScanBlockEndKeeps ==
  ASSUME IInv, ScanBlockEnd
  PROVE  IInv'
<1>1. PICK b \in Blocks : b = scan.blk
  BY DEF ScanBlockEnd
<1>2. PICK f : f = IF Used(b) = 0 THEN b ELSE scan.fresh
  OBVIOUS
<1>3. /\ pc = "scan" /\ pc' = "scan" /\ UNCHANGED <<flash, workspace, op, gc, result>>
      /\ scan.slot > Used(b) /\ mgr' = WalkEnd(mgr, b)
      /\ scan' = NextBlock([scan EXCEPT !.fresh = f])
  BY <1>1, <1>2, Zenon DEF ScanBlockEnd
<1>4. /\ Typed /\ ScanInv
      /\ flash \in [Blocks -> BlockType] /\ mgr \in TableType /\ scan \in ScanType
      /\ Mendable /\ Counted(mgr) /\ InuseCounted(mgr)
      /\ \A c \in Blocks : Used(c) \in 0 .. Slots /\ c \in Int
      /\ \A c \in Blocks : c \in Unlisted <=> c >= scan.blk \/ c \in SrcBlocks \/ c \in DstBlocks
      /\ \A c \in Blocks \ Unlisted : EntryOK(c) /\ (mgr.blk[c].fresh => Used(c) = 0)
      /\ \A c \in Blocks \cap Unlisted : ~mgr.blk[c].fresh /\ ~mgr.blk[c].inuse
      /\ \A c \in Blocks : ~flash[c].magic => flash[c] = Erased /\ c \in Unlisted
  BY <1>3, ScanFacts
<1>5. /\ \A c \in Blocks : Used(c)' = Used(c) /\ Garbage(c)' = Garbage(c)
      /\ SrcBlocks' = SrcBlocks /\ DstBlocks' = DstBlocks
      /\ SrcBlocks \subseteq Blocks /\ DstBlocks \subseteq Blocks
  BY <1>3, FlashSame DEF SrcBlocks, DstBlocks
<1>6. /\ scan.srcs = {c \in SrcBlocks : c < b} /\ scan.dsts = {c \in DstBlocks : c < b}
      /\ scan.fresh # 0 => scan.fresh < b /\ mgr.blk[scan.fresh].fresh
      /\ \A c \in Blocks \ Unlisted : Used(c) = 0 => mgr.blk[c].fresh /\ scan.fresh # 0
      /\ b \notin SrcBlocks /\ b \notin DstBlocks /\ flash[b].magic
      /\ \A t \in Garbage(b) : t < scan.slot => mgr.blk[b].dirty
  <2>1. scan.slot # 0
    <3>1. Used(b) \in 0 .. Slots /\ scan.slot \in 0 .. Slots + 1
      BY <1>4 DEF ScanType
    <3>2. QED
      BY <1>3, <3>1, Numbers
  <2>2. QED
    BY <1>1, <1>3, <1>4, <2>1 DEF ScanInv
<1>7. b \in Unlisted /\ ~mgr.blk[b].fresh /\ ~mgr.blk[b].inuse
  <2>1. b >= b
    BY <1>4
  <2>2. QED
    BY <1>1, <1>4, <2>1
<1>8. /\ Changes(mgr', mgr, b) /\ InuseCounted(mgr')
      /\ (mgr'.blk[b].fresh <=> Used(b) = 0)
      /\ (mgr'.blk[b].inuse <=> (Used(b) \in 1 .. Slots - 1))
      /\ (mgr'.blk[b].dirty <=> (mgr.blk[b].dirty /\ Used(b) # 0))
      /\ mgr'.blk[b].free = Slots - Used(b)
  <2> DEFINE n == WalkEnd(mgr, b)
  <2>1. /\ Changes(n, mgr, b)
        /\ (n.blk[b].fresh <=> (mgr.blk[b].fresh \/ Used(b) = 0))
        /\ (n.blk[b].inuse <=> (Used(b) \in 1 .. Slots - 1))
        /\ (n.blk[b].dirty <=> (mgr.blk[b].dirty /\ Used(b) # 0))
        /\ n.blk[b].free = Slots - Used(b)
        /\ InuseCounted(mgr) /\ (Used(b) = 0 => ~mgr.blk[b].inuse) => InuseCounted(n)
    <3>1. mgr \in TableType /\ Used(b) \in 0 .. Slots
      BY <1>4
    <3>2. QED
      BY <3>1, WalkEndFacts
  <2>2. mgr' = n
    BY <1>3
  <2> HIDE DEF n
  <2>3. QED
    BY <1>4, <1>7, <2>1, <2>2
<1>9. /\ scan' \in ScanType /\ scan'.blk = b + 1 /\ scan'.slot = 0 /\ scan'.fresh = f
      /\ scan'.srcs = scan.srcs /\ scan'.dsts = scan.dsts
  <2>1. f \in {0} \cup Blocks /\ scan \in ScanType /\ scan.blk \in Blocks
    BY <1>1, <1>2, <1>4 DEF ScanType
  <2>2. QED
    BY <1>1, <1>3, <2>1, NextBlockFresh
<1>10. \A c \in Blocks \ {b} : mgr'.blk[c] = mgr.blk[c]
  BY <1>8 DEF Changes
<1>11. EntryOK(b)'
  <2>1. Ahead(b)' = 0
    BY <1>3 DEF Ahead
  <2>2. Used(b)' = Used(b) /\ Used(b) \in 0 .. Slots /\ Garbage(b)' = Garbage(b)
    BY <1>4, <1>5
  <2>3. Garbage(b) # {} => mgr.blk[b].dirty /\ Used(b) # 0
    <3>1. ASSUME NEW t \in Garbage(b) PROVE mgr.blk[b].dirty /\ Used(b) # 0
      <4>1. t \in 1 .. Used(b)
        BY DEF Garbage
      <4>2. scan.slot \in Int /\ scan.slot > Used(b)
        BY <1>3, <1>4, Numbers DEF ScanType
      <4>3. t < scan.slot /\ Used(b) # 0
        BY <2>2, <4>1, <4>2, Numbers
      <4>4. QED
        BY <1>6, <4>3
    <3>2. QED
      BY <3>1
  <2>4. QED
    BY <1>8, <2>1, <2>2, <2>3, Numbers DEF EntryOK
<1>12. /\ scan'.srcs = {c \in SrcBlocks' : c < scan'.blk}
       /\ scan'.dsts = {c \in DstBlocks' : c < scan'.blk}
  <2>1. \A c \in Blocks : c # b => (c < b <=> c < b + 1)
    BY <1>4
  <2>2. QED
    BY <1>5, <1>6, <1>9, <2>1
<1>13. \A c \in Blocks : c \in Unlisted' <=> c # b /\ c \in Unlisted
  <2>1. \A c \in Blocks : c \in Unlisted' <=> c >= b + 1 \/ c \in SrcBlocks \/ c \in DstBlocks
    BY <1>3, <1>5, <1>9, <1>12, UnlistedNext
  <2>2. \A c \in Blocks : c # b => (c >= b <=> c >= b + 1)
    BY <1>4
  <2>3. ~(b >= b + 1)
    BY <1>4
  <2>4. QED
    BY <1>1, <1>4, <1>6, <2>1, <2>2, <2>3
<1>14. \A c \in Blocks \ Unlisted' : EntryOK(c)'
  <2>1. ASSUME NEW c \in Blocks \ Unlisted', c # b PROVE EntryOK(c)'
    <3>1. EntryOK(c) /\ mgr'.blk[c] = mgr.blk[c] /\ Used(c)' = Used(c) /\ Garbage(c)' = Garbage(c)
      BY <1>4, <1>5, <1>10, <1>13, <2>1
    <3>2. Ahead(c) = 0 /\ Ahead(c)' = 0 /\ ~Filling(c)
      BY <1>3 DEF Filling, Ahead, WriteSteps
    <3>3. QED
      BY <3>1, <3>2 DEF EntryOK
  <2>2. QED
    BY <1>11, <2>1
<1>15. \A c \in Blocks \cap Unlisted' : ~mgr'.blk[c].fresh /\ ~mgr'.blk[c].inuse
  BY <1>4, <1>10, <1>13
<1>16. \A c \in Blocks : ~flash'[c].magic => flash'[c] = Erased /\ c \in Unlisted'
  BY <1>3, <1>4, <1>6, <1>13
<1>17. ScanInv'
  <2>1. f # 0 => f < b + 1 /\ mgr'.blk[f].fresh
    <3>1. CASE Used(b) = 0
      BY <1>2, <1>4, <1>8, <3>1
    <3>2. CASE Used(b) # 0
      <4>1. f = scan.fresh /\ scan.fresh \in {0} \cup Blocks
        BY <1>2, <1>4, <3>2 DEF ScanType
      <4>2. scan.fresh # 0 => scan.fresh < b /\ scan.fresh # b /\ scan.fresh < b + 1
        BY <1>4, <1>6, <1>7, <4>1
      <4>3. QED
        BY <1>6, <1>10, <4>1, <4>2
    <3>3. QED
      BY <3>1, <3>2
  <2>2. \A c \in Blocks \ Unlisted' : Used(c)' = 0 => mgr'.blk[c].fresh /\ f # 0
    <3> TAKE c \in Blocks \ Unlisted'
    <3>1. CASE c = b
      BY <1>2, <1>5, <1>8, <3>1, Numbers
    <3>2. CASE c # b
      <4>1. c \in Blocks \ Unlisted /\ Used(c)' = Used(c) /\ mgr'.blk[c] = mgr.blk[c]
        BY <1>5, <1>10, <1>13, <3>2
      <4>2. Used(c) = 0 => mgr.blk[c].fresh /\ scan.fresh # 0
        BY <1>6, <4>1
      <4>3. QED
        BY <1>2, <4>1, <4>2, Numbers
    <3>3. QED
      BY <3>1, <3>2
  <2>3. QED
    BY <1>3, <1>9, <1>12, <2>1, <2>2 DEF ScanInv
<1>18. mgr' \in TableType /\ Counted(mgr') /\ flash' \in [Blocks -> BlockType]
  BY <1>3, <1>4, <1>8 DEF Changes
<1>19. /\ \A c \in Blocks : Used(c)' = Used(c)
       /\ \A c \in Blocks : /\ flash'[c].src = flash[c].src /\ flash'[c].dst = flash[c].dst
                            /\ flash'[c].done = flash[c].done
  BY <1>3, <1>5
<1>20. QED
  BY <1>3, <1>8, <1>9, <1>14, <1>15, <1>16, <1>17, <1>18, <1>19, ScanGoesOn

LEMMA AtMostOne ==
  ASSUME NEW T, \A x, y \in T : x = y
  PROVE  /\ ~(Cardinality(T) > 1) /\ (Cardinality(T) = 1 => T # {})
         /\ T # {} => \E x \in T : T = {x}
<1>1. CASE T = {}
  BY <1>1, FS_EmptySet
<1>2. CASE T # {}
  <2>1. PICK x \in T : T = {x}
    BY <1>2
  <2>2. Cardinality(T) = 1
    BY <2>1, FS_Singleton
  <2>3. QED
    BY <2>1, <2>2
<1>3. QED
  BY <1>1, <1>2

(* The tags the scan has found are at most those of one collection, and a  *)
(* collection that has no destination yet finds an empty block.            *)
LEMMA ScanEnded ==
  ASSUME IInv, HandleIncompleteGc
  PROVE  /\ pc = "scan" /\ scan' = NoScan /\ UNCHANGED <<mgr, workspace, op, result>>
         /\ scan.srcs = SrcBlocks /\ scan.dsts = DstBlocks /\ Unlisted = SrcBlocks \cup DstBlocks
         /\ \/ /\ SrcBlocks = {} /\ DstBlocks = {}
               /\ pc' = "locate" /\ UNCHANGED <<flash, gc>>
            \/ /\ DstBlocks = {} /\ scan.fresh \in Blocks /\ mgr.blk[scan.fresh].fresh
               /\ SrcBlocks = {FirstOf(scan.srcs)} /\ FirstOf(scan.srcs) \in Blocks
               /\ gc' = GcFor(FirstOf(scan.srcs), scan.fresh, "init")
               /\ pc' = "markDst" /\ UNCHANGED flash
            \/ /\ SrcBlocks = {FirstOf(scan.srcs)} /\ FirstOf(scan.srcs) \in Blocks
               /\ DstBlocks = {FirstOf(scan.dsts)} /\ FirstOf(scan.dsts) \in Blocks
               /\ gc' = GcFor(FirstOf(scan.srcs), FirstOf(scan.dsts), "init")
               /\ flash' = [flash EXCEPT ![FirstOf(scan.dsts)] = Erased]
               /\ pc' = "formatDst"
<1>1. /\ pc = "scan" /\ scan' = NoScan /\ UNCHANGED <<mgr, workspace, op, result>>
      /\ scan.blk = NumBlocks + 1
  BY DEF HandleIncompleteGc
<1>2. /\ Typed /\ ScanInv /\ Mendable /\ scan \in ScanType
      /\ \A c \in Blocks : c \in Unlisted <=> c >= scan.blk \/ c \in SrcBlocks \/ c \in DstBlocks
  BY <1>1, ScanFacts
<1>3. \A c \in Blocks : c < NumBlocks + 1 /\ ~(c >= NumBlocks + 1)
  BY Numbers DEF Blocks
<1>4. SrcBlocks \subseteq Blocks /\ DstBlocks \subseteq Blocks
  BY DEF SrcBlocks, DstBlocks
<1>5. scan.srcs = SrcBlocks /\ scan.dsts = DstBlocks
  BY <1>1, <1>2, <1>3, <1>4 DEF ScanInv
<1>6. Unlisted = SrcBlocks \cup DstBlocks
  <2>1. Unlisted \subseteq Blocks
    BY <1>1, <1>2 DEF Unlisted, ScanType
  <2>2. QED
    BY <1>1, <1>2, <1>3, <1>4, <2>1
<1>7. /\ ~(Cardinality(scan.srcs) > 1) /\ (Cardinality(scan.srcs) = 1 => scan.srcs # {})
      /\ scan.srcs # {} => \E x \in scan.srcs : scan.srcs = {x}
  BY <1>2, <1>5, AtMostOne DEF Mendable
<1>8. /\ ~(Cardinality(scan.dsts) > 1) /\ (Cardinality(scan.dsts) = 1 => scan.dsts # {})
      /\ scan.dsts # {} => \E x \in scan.dsts : scan.dsts = {x}
  BY <1>2, <1>5, AtMostOne DEF Mendable
<1>9. /\ scan.srcs # {} => FirstOf(scan.srcs) \in Blocks /\ scan.srcs = {FirstOf(scan.srcs)}
      /\ scan.dsts # {} => FirstOf(scan.dsts) \in Blocks /\ scan.dsts = {FirstOf(scan.dsts)}
  <2>1. scan.srcs \in SUBSET Nat /\ scan.dsts \in SUBSET Nat
    BY <1>4, <1>5, Numbers
  <2>2. /\ scan.srcs # {} => FirstOf(scan.srcs) \in scan.srcs
        /\ scan.dsts # {} => FirstOf(scan.dsts) \in scan.dsts
    BY <2>1, FirstOfFacts
  <2>3. QED
    BY <1>4, <1>5, <1>7, <1>8, <2>2
<1>10. scan.srcs # {} /\ scan.dsts = {} => scan.fresh # 0
  <2>1. SUFFICES ASSUME scan.srcs # {}, scan.dsts = {} PROVE scan.fresh # 0
    OBVIOUS
  <2>2. PICK c \in Blocks \ SrcBlocks : Used(c) = 0
    BY <1>2, <1>5, <2>1 DEF Mendable
  <2>3. c \in Blocks \ Unlisted
    BY <1>5, <1>6, <2>1, <2>2
  <2>4. QED
    BY <1>1, <1>2, <2>2, <2>3 DEF ScanInv
<1>11. scan.fresh # 0 => scan.fresh \in Blocks /\ mgr.blk[scan.fresh].fresh
  BY <1>1, <1>2 DEF ScanInv, ScanType
<1>12. scan.srcs = {} => scan.dsts = {}
  BY <1>2, <1>5 DEF Mendable
<1>13. \/ scan.srcs = {} /\ pc' = "locate" /\ UNCHANGED <<flash, gc>>
       \/ /\ scan.srcs # {} /\ scan.dsts = {} /\ scan.fresh # 0
          /\ gc' = GcFor(FirstOf(scan.srcs), scan.fresh, "init")
          /\ pc' = "markDst" /\ UNCHANGED flash
       \/ /\ scan.srcs # {} /\ scan.dsts # {}
          /\ gc' = GcFor(FirstOf(scan.srcs), FirstOf(scan.dsts), "init")
          /\ flash' = [flash EXCEPT ![FirstOf(scan.dsts)] = Erased]
          /\ pc' = "formatDst"
  <2>1. \/ scan.srcs = {} /\ pc' = "locate" /\ UNCHANGED <<flash, gc>>
        \/ /\ Cardinality(scan.srcs) = 1 /\ scan.dsts = {} /\ scan.fresh = 0
        \/ /\ Cardinality(scan.srcs) = 1 /\ scan.dsts = {} /\ scan.fresh # 0
           /\ gc' = GcFor(FirstOf(scan.srcs), scan.fresh, "init")
           /\ pc' = "markDst" /\ UNCHANGED flash
        \/ /\ Cardinality(scan.srcs) = 1 /\ Cardinality(scan.dsts) = 1
           /\ gc' = GcFor(FirstOf(scan.srcs), FirstOf(scan.dsts), "init")
           /\ flash' = [flash EXCEPT ![FirstOf(scan.dsts)] = Erased]
           /\ pc' = "formatDst"
    BY <1>7, <1>8 DEF HandleIncompleteGc, GcFor
  <2>2. QED
    BY <1>7, <1>8, <1>10, <2>1
<1>14. QED
  BY <1>1, <1>5, <1>6, <1>9, <1>11, <1>12, <1>13

LEMMA HandleIncompleteGcKeeps ==
  ASSUME IInv, HandleIncompleteGc
  PROVE  IInv'
<1>1. /\ pc = "scan" /\ scan' = NoScan /\ UNCHANGED <<mgr, workspace, op, result>>
      /\ Unlisted = SrcBlocks \cup DstBlocks
  BY ScanEnded
<1>2. /\ Typed /\ TableInv /\ TagsInv /\ ScanInv /\ GcInv /\ OpInv /\ WriteInv /\ SpareInv
      /\ flash \in [Blocks -> BlockType] /\ mgr \in TableType
      /\ Mendable /\ Counted(mgr) /\ InuseCounted(mgr) /\ workspace = 0 /\ result = "none" /\ op = NoOp
      /\ \A c \in Blocks : Used(c) \in 0 .. Slots
      /\ \A c \in Blocks \ Unlisted : EntryOK(c) /\ (mgr.blk[c].fresh => Used(c) = 0)
      /\ \A c \in Blocks \cap Unlisted : ~mgr.blk[c].fresh /\ ~mgr.blk[c].inuse
      /\ \A c \in Blocks : ~flash[c].magic => flash[c] = Erased /\ c \in Unlisted
  BY <1>1, ScanFacts
<1>3. ASSUME NEW c \in Blocks \ Unlisted, flash'[c] = flash[c], pc' \in {"locate", "markDst", "formatDst"}
      PROVE  EntryOK(c)'
  <2>1. EntryOK(c)
    BY <1>2
  <2>2. Used(c)' = Used(c) /\ Garbage(c)' = Garbage(c)
    BY <1>3 DEF Used, Garbage
  <2>3. Ahead(c) = 0 /\ Ahead(c)' = 0 /\ ~Filling(c)
    BY <1>1, <1>3 DEF Filling, Ahead, WriteSteps
  <2>4. QED
    BY <1>1, <2>1, <2>2, <2>3 DEF EntryOK
<1>4. NoScan \in ScanType
  BY InitialTypes
<1>5. CASE SrcBlocks = {} /\ DstBlocks = {} /\ pc' = "locate" /\ UNCHANGED <<flash, gc>>
  <2>1. Unlisted = {} /\ Unlisted' = {}
    BY <1>1, <1>5 DEF Unlisted
  <2>2. SrcBlocks' = {} /\ DstBlocks' = {} /\ \A c \in Blocks : Used(c)' = Used(c)
    BY <1>5, FlashSame
  <2>3. Typed'
    BY <1>1, <1>2, <1>4, <1>5, <2>2 DEF Typed, Steps
  <2>4. TableInv'
    BY <1>1, <1>2, <1>3, <1>5, <2>1 DEF TableInv, Counted, FreshIn
  <2>5. TagsInv'
    BY <1>2, <1>5, <2>1, <2>2 DEF TagsInv
  <2>6. ScanInv' /\ GcInv' /\ WriteInv'
    BY <1>1, <1>5 DEF ScanInv, GcInv, WriteInv, GcSteps
  <2>7. OpInv'
    BY <1>1, <1>2, <1>5 DEF OpInv, GcSteps, InCall
  <2>8. SpareInv'
    BY <1>1, <1>2, <1>5 DEF SpareInv, Booting, InuseCounted, InuseIn
  <2>9. QED
    BY <2>3, <2>4, <2>5, <2>6, <2>7, <2>8 DEF IInv
<1>6. ASSUME NEW a \in Blocks, NEW b \in Blocks, SrcBlocks = {a}, DstBlocks = {},
             mgr.blk[b].fresh, gc' = GcFor(a, b, "init"), pc' = "markDst", UNCHANGED flash
      PROVE  IInv'
  <2>1. gc' \in GcType /\ gc'.src = a /\ gc'.dst = b /\ gc'.next = 1 /\ gc'.for = "init"
    BY <1>6, StartedGc
  <2>2. Unlisted = {a} /\ Unlisted' = {a}
    BY <1>1, <1>6, <2>1 DEF Unlisted
  <2>3. /\ SrcBlocks' = {a} /\ DstBlocks' = {}
        /\ \A c \in Blocks : Used(c)' = Used(c)
    BY <1>6, FlashSame
  <2>4. a # b /\ Used(b) = 0 /\ ~mgr.blk[a].inuse
    BY <1>2, <1>6, <2>2
  <2>5. Typed'
    BY <1>1, <1>2, <1>4, <1>6, <2>1, <2>3 DEF Typed, Steps, GcSteps
  <2>6. TableInv'
    BY <1>1, <1>2, <1>3, <1>6, <2>2 DEF TableInv, Counted, FreshIn
  <2>7. TagsInv'
    BY <1>2, <1>6, <2>1, <2>2, <2>3 DEF TagsInv
  <2>8. ScanInv' /\ WriteInv'
    BY <1>1, <1>6 DEF ScanInv, WriteInv
  <2>9. GcInv'
    <3>1. Used(gc.dst)' = 0
      BY <1>6, <2>1, <2>4 DEF Used
    <3>2. QED
      BY <1>1, <1>6, <2>1, <2>4, <3>1 DEF GcInv, GcSteps
  <2>10. OpInv'
    BY <1>1, <1>2, <1>6, <2>1 DEF OpInv, GcSteps, InCall
  <2>11. SpareInv'
    BY <1>1, <1>2, <1>6, <2>1 DEF SpareInv, Booting, InuseCounted, InuseIn, GcSteps
  <2>12. QED
    BY <2>5, <2>6, <2>7, <2>8, <2>9, <2>10, <2>11 DEF IInv
<1>7. ASSUME NEW a \in Blocks, NEW b \in Blocks, SrcBlocks = {a}, DstBlocks = {b},
             gc' = GcFor(a, b, "init"), pc' = "formatDst", flash' = [flash EXCEPT ![b] = Erased]
      PROVE  IInv'
  <2>1. gc' \in GcType /\ gc'.src = a /\ gc'.dst = b /\ gc'.next = 1 /\ gc'.for = "init"
    BY <1>7, StartedGc
  <2>2. Unlisted = {a, b} /\ Unlisted' = {a, b}
    BY <1>1, <1>7, <2>1 DEF Unlisted
  <2>3. a # b
    BY <1>2, <1>7 DEF Mendable
  <2>4. flash' \in [Blocks -> BlockType] /\ flash'[b] = Erased /\ \A c \in Blocks \ {b} : flash'[c] = flash[c]
    BY <1>2, <1>7, BlockFacts, ErasedType
  <2>5. Used(b)' = 0 /\ \A c \in Blocks \ {b} : Used(c)' = Used(c)
    BY <2>4, ErasedType DEF Used
  <2>6. SrcBlocks' = {a} /\ DstBlocks' = {}
    <3>1. \A c \in Blocks : c # b => (IsSrc(c)' <=> IsSrc(c)) /\ (IsDstNotDone(c)' <=> IsDstNotDone(c))
      BY <2>4 DEF IsSrc, IsDstNotDone
    <3>2. ~IsSrc(b)' /\ ~IsDstNotDone(b)'
      BY <2>4, ErasedType DEF IsSrc, IsDstNotDone
    <3>3. QED
      BY <1>7, <2>3, <3>1, <3>2 DEF SrcBlocks, DstBlocks
  <2>7. Typed'
    <3>1. \A c \in Blocks : Used(c)' <= Slots
      BY <1>2, <2>5, Numbers DEF Typed
    <3>2. QED
      BY <1>1, <1>2, <1>4, <1>7, <2>1, <2>4, <3>1 DEF Typed, Steps
  <2>8. TableInv'
    <3>1. \A c \in Blocks \ {a, b} : EntryOK(c)'
      BY <1>3, <1>7, <2>2, <2>4
    <3>2. QED
      BY <1>1, <1>2, <1>7, <2>2, <3>1 DEF TableInv, Counted, FreshIn
  <2>9. TagsInv'
    <3>1. \A c \in Blocks : ~flash'[c].magic => flash'[c] = Erased /\ c \in Unlisted'
      BY <1>2, <2>2, <2>4
    <3>2. QED
      BY <1>7, <2>1, <2>6, <3>1 DEF TagsInv
  <2>10. ScanInv' /\ WriteInv'
    BY <1>1, <1>7 DEF ScanInv, WriteInv
  <2>11. GcInv'
    <3>1. Used(gc.dst)' = 0
      BY <2>1, <2>5 DEF Used
    <3>2. flash'[gc'.dst] = Erased
      BY <2>1, <2>4
    <3>3. QED
      BY <1>7, <2>1, <2>3, <3>1, <3>2 DEF GcInv, GcSteps
  <2>12. OpInv'
    BY <1>1, <1>2, <1>7, <2>1 DEF OpInv, GcSteps, InCall
  <2>13. SpareInv'
    BY <1>1, <1>2, <1>7 DEF SpareInv, Booting, InuseCounted, InuseIn
  <2>14. QED
    BY <2>7, <2>8, <2>9, <2>10, <2>11, <2>12, <2>13 DEF IInv
<1>8. \/ /\ SrcBlocks = {} /\ DstBlocks = {}
         /\ pc' = "locate" /\ UNCHANGED <<flash, gc>>
      \/ /\ DstBlocks = {} /\ scan.fresh \in Blocks /\ mgr.blk[scan.fresh].fresh
         /\ SrcBlocks = {FirstOf(scan.srcs)} /\ FirstOf(scan.srcs) \in Blocks
         /\ gc' = GcFor(FirstOf(scan.srcs), scan.fresh, "init")
         /\ pc' = "markDst" /\ UNCHANGED flash
      \/ /\ SrcBlocks = {FirstOf(scan.srcs)} /\ FirstOf(scan.srcs) \in Blocks
         /\ DstBlocks = {FirstOf(scan.dsts)} /\ FirstOf(scan.dsts) \in Blocks
         /\ gc' = GcFor(FirstOf(scan.srcs), FirstOf(scan.dsts), "init")
         /\ flash' = [flash EXCEPT ![FirstOf(scan.dsts)] = Erased]
         /\ pc' = "formatDst"
  BY ScanEnded
<1>9. QED
  BY <1>5, <1>6, <1>7, <1>8

LEMMA FormatDstKeeps ==
  ASSUME IInv, FormatDst
  PROVE  IInv'
<1>1. pc = "formatDst" /\ pc' = "markDst" /\ UNCHANGED <<workspace, op, gc, scan, result>>
  BY DEF FormatDst
<1>2. /\ Typed /\ TableInv /\ TagsInv /\ ScanInv /\ GcInv /\ OpInv /\ WriteInv /\ SpareInv
      /\ gc.src \in Blocks /\ gc.dst \in Blocks /\ gc.src # gc.dst /\ gc.for = "init"
  BY <1>1 DEF IInv, GcInv
<1>3. PICK a \in Blocks : a = gc.src
  BY <1>2
<1>4. PICK b \in Blocks : b = gc.dst
  BY <1>2
<1>5. Unlisted = {a, b} /\ Unlisted' = {a}
  BY <1>1, <1>2, <1>3, <1>4 DEF Unlisted
<1>6. /\ a # b /\ flash \in [Blocks -> BlockType] /\ mgr \in TableType
      /\ flash[b] = Erased /\ ~mgr.blk[b].inuse /\ ~mgr.blk[a].inuse /\ Counted(mgr) /\ InuseCounted(mgr)
      /\ workspace = 0
  BY <1>1, <1>2, <1>3, <1>4, <1>5 DEF Typed, GcInv, TableInv, SpareInv, Booting, InuseCounted
<1>7. flash' = [flash EXCEPT ![b] = Formatted] /\ mgr' = SetFresh(mgr, b)
  BY <1>4, Zenon DEF FormatDst
<1>8. flash' \in [Blocks -> BlockType] /\ flash'[b] = Formatted /\ \A c \in Blocks \ {b} : flash'[c] = flash[c]
  BY <1>6, <1>7, BlockFacts, ErasedType
<1>9. /\ Changes(mgr', mgr, b) /\ Fields(mgr'.blk[b], TRUE, FALSE, FALSE, Slots)
      /\ InuseCounted(mgr')
  BY <1>6, <1>7, SetFreshFacts
<1>10. \A c \in Blocks \ {b} : Used(c)' = Used(c) /\ Garbage(c)' = Garbage(c) /\ mgr'.blk[c] = mgr.blk[c]
  BY <1>8, <1>9 DEF Used, Garbage, Changes
<1>11. EntryOK(b)' /\ Used(b)' = 0 /\ Garbage(b)' = {} /\ mgr'.blk[b].fresh /\ ~mgr'.blk[b].inuse
  <2>1. Ahead(b)' = 0
    BY <1>1 DEF Ahead
  <2>2. QED
    BY <1>8, <1>9, <2>1, ErasedType, FormattedEntry
<1>12. Typed'
  <2>1. \A c \in Blocks : Used(c)' <= Slots
    <3>1. Used(b)' <= Slots
      BY <1>11, Numbers
    <3>2. \A c \in Blocks : Used(c) <= Slots
      BY <1>2 DEF Typed
    <3>3. QED
      BY <1>10, <3>1, <3>2
  <2>2. QED
    BY <1>1, <1>2, <1>8, <1>9, <2>1 DEF Typed, Steps, GcSteps, Changes
<1>13. TableInv'
  <2>1. ASSUME NEW c \in Blocks \ {a}, c # b PROVE EntryOK(c)'
    <3>1. EntryOK(c) /\ mgr'.blk[c] = mgr.blk[c] /\ Used(c)' = Used(c) /\ Garbage(c)' = Garbage(c)
      BY <1>2, <1>5, <1>10, <2>1 DEF TableInv
    <3>2. Ahead(c) = 0 /\ Ahead(c)' = 0 /\ ~Filling(c)
      BY <1>1 DEF Filling, Ahead, WriteSteps
    <3>3. QED
      BY <3>1, <3>2 DEF EntryOK
  <2>2. Counted(mgr)'
    BY <1>6, <1>9 DEF Counted, FreshIn, Changes
  <2>3. QED
    BY <1>1, <1>5, <1>11, <2>1, <2>2 DEF TableInv
<1>14. TagsInv'
  <2>1. /\ SrcBlocks = {a} /\ DstBlocks = {}
        /\ \A c \in Blocks : ~flash[c].magic => flash[c] = Erased /\ c \in {a, b}
    BY <1>1, <1>2, <1>3, <1>5 DEF TagsInv
  <2>2. SrcBlocks' = {a} /\ DstBlocks' = {}
    <3>1. \A c \in Blocks : c # b => (IsSrc(c)' <=> IsSrc(c)) /\ (IsDstNotDone(c)' <=> IsDstNotDone(c))
      BY <1>8 DEF IsSrc, IsDstNotDone
    <3>2. ~IsSrc(b)' /\ ~IsDstNotDone(b)'
      BY <1>8, ErasedType DEF IsSrc, IsDstNotDone
    <3>3. QED
      BY <1>6, <2>1, <3>1, <3>2 DEF SrcBlocks, DstBlocks
  <2>3. \A c \in Blocks : ~flash'[c].magic => flash'[c] = Erased /\ c \in {a}
    BY <1>8, <2>1, ErasedType
  <2>4. QED
    BY <1>1, <1>3, <1>5, <2>2, <2>3 DEF TagsInv
<1>15. ScanInv' /\ WriteInv'
  BY <1>1, <1>2 DEF ScanInv, WriteInv
<1>16. GcInv'
  <2>1. mgr'.blk[gc'.dst].fresh /\ ~mgr'.blk[gc'.src].inuse
    BY <1>1, <1>3, <1>4, <1>6, <1>10, <1>11
  <2>2. Used(gc.dst)' = 0
    BY <1>1, <1>4, <1>11 DEF Used
  <2>3. gc'.next = 1
    BY <1>1, <1>2 DEF GcInv
  <2>4. QED
    BY <1>1, <1>2, <2>1, <2>2, <2>3 DEF GcInv, GcSteps
<1>17. OpInv'
  BY <1>1, <1>2 DEF OpInv, GcSteps, InCall
<1>18. SpareInv'
  BY <1>1, <1>2, <1>6, <1>9 DEF SpareInv, InuseCounted, InuseIn, Booting, GcSteps
<1>19. QED
  BY <1>12, <1>13, <1>14, <1>15, <1>16, <1>17, <1>18 DEF IInv

-----------------------------------------------------------------------------
(* The invariant holds at first and is kept by every step.                 *)

LEMMA InitKeeps ==
  ASSUME Init
  PROVE  IInv
<1>1. /\ flash = [b \in Blocks |-> Erased] /\ mgr = NoMgr /\ workspace = 0 /\ pc = "off"
      /\ op = NoOp /\ gc = NoGc /\ scan = NoScan /\ result = "none"
  BY DEF Init
<1>2. flash \in [Blocks -> BlockType] /\ \A b \in Blocks : flash[b] = Erased /\ Used(b) = 0
  BY <1>1, ErasedType DEF Used
<1>3. SrcBlocks = {} /\ DstBlocks = {}
  BY <1>2, ErasedType DEF SrcBlocks, DstBlocks, IsSrc, IsDstNotDone
<1>4. Unlisted = Blocks
  BY <1>1 DEF Unlisted
<1>5. Typed
  BY <1>1, <1>2, InitialTypes, Numbers DEF Typed, Steps
<1>6. TableInv
  BY <1>1, <1>4, InitialTypes DEF TableInv
<1>7. TagsInv
  BY <1>1, <1>2, <1>3, <1>4 DEF TagsInv, Mendable
<1>8. ScanInv /\ GcInv /\ WriteInv
  BY <1>1 DEF ScanInv, GcInv, WriteInv, GcSteps
<1>9. OpInv
  BY <1>1 DEF OpInv, InCall, GcSteps
<1>10. SpareInv
  BY <1>1, InitialTypes, FS_EmptySet DEF SpareInv, Booting
<1>11. QED
  BY <1>5, <1>6, <1>7, <1>8, <1>9, <1>10 DEF IInv

LEMMA StutterKeeps ==
  ASSUME IInv, UNCHANGED vars
  PROVE  IInv'
<1>1. /\ flash' = flash /\ mgr' = mgr /\ workspace' = workspace /\ pc' = pc /\ op' = op
      /\ gc' = gc /\ scan' = scan /\ result' = result
  BY DEF vars
<1>2. Unlisted' = Unlisted
  BY <1>1 DEF Unlisted, SrcBlocks, DstBlocks
<1>3. \A b \in Blocks : Used(b)' = Used(b) /\ Garbage(b)' = Garbage(b)
  BY <1>1, FlashSame
<1>4. SrcBlocks' = SrcBlocks /\ DstBlocks' = DstBlocks
  BY <1>1, FlashSame
<1>5. Typed'
  BY <1>1, <1>3 DEF IInv, Typed
<1>6. TableInv'
  BY <1>1, <1>2, <1>3 DEF IInv, TableInv, EntryOK, Filling, Ahead, Counted, FreshIn
<1>7. TagsInv'
  BY <1>1, <1>2, <1>3, <1>4 DEF IInv, TagsInv, Mendable
<1>8. ScanInv'
  BY <1>1 DEF IInv, ScanInv, Unlisted, Used, Garbage, SrcBlocks, DstBlocks, IsSrc, IsDstNotDone
<1>9. GcInv'
  BY <1>1 DEF IInv, GcInv, CopiedSoFar, Used
<1>10. OpInv'
  BY <1>1 DEF IInv, OpInv, InCall, ReplacedIsThere, WithValue, Used, Written
<1>11. WriteInv' /\ SpareInv'
  BY <1>1 DEF IInv, WriteInv, Used, SpareInv, Booting, InuseIn, FreshIn
<1>12. QED
  BY <1>5, <1>6, <1>7, <1>8, <1>9, <1>10, <1>11 DEF IInv

(* One case per action.  The two windows in which a power loss costs items *)
(* or leaves a collection undetected are closed.                           *)
LEMMA StepKeeps ==
  ASSUME IInv, [Next]_vars, ~LossBeforeDone, ~LossStaleDone
  PROVE  IInv'
<1>1. CASE Boot
  <2>1. CASE PowerOn
    BY <2>1, PowerOnKeeps
  <2>2. CASE ScanHeader
    BY <2>2, ScanErasedKeeps, ScanTagsKeeps
  <2>3. CASE ScanItem
    BY <2>3, ScanItemKeeps
  <2>4. CASE ScanBlockEnd
    BY <2>4, ScanBlockEndKeeps
  <2>5. CASE HandleIncompleteGc
    BY <2>5, HandleIncompleteGcKeeps
  <2>6. CASE FormatDst
    BY <2>6, FormatDstKeeps
  <2>7. CASE RescueGc
    BY <2>7, RescueGcKeeps
  <2>8. CASE LocateWorkspace
    BY <2>8, LocateWorkspaceKeeps
  <2>9. QED
    BY <1>1, <2>1, <2>2, <2>3, <2>4, <2>5, <2>6, <2>7, <2>8 DEF Boot
<1>2. CASE Gc
  <2>1. CASE MarkSrc
    BY <2>1, MarkSrcKeeps
  <2>2. CASE MarkDst
    BY <2>2, MarkDstKeeps
  <2>3. CASE CopyItem
    BY <2>3, CopyItemKeeps
  <2>4. CASE EraseSrc
    BY <2>4, EraseSrcKeeps
  <2>5. CASE FormatSrc
    BY <2>5, FormatSrcKeeps
  <2>6. CASE MarkDone
    BY <2>6, MarkDoneKeeps
  <2>7. QED
    BY <1>2, <2>1, <2>2, <2>3, <2>4, <2>5, <2>6 DEF Gc
<1>3. CASE Serve
  <2>1. CASE SearchFails
    BY <2>1, SearchFailsKeeps
  <2>2. CASE UseWorkspace
    BY <2>2, UseWorkspaceKeeps
  <2>3. CASE UseInuse
    BY <2>3, UseInuseKeeps
  <2>4. CASE UseFresh
    BY <2>4, UseFreshKeeps
  <2>5. CASE Collect
    BY <2>5, CollectKeeps
  <2>6. CASE FixPrev
    BY <2>6, FixPrevKeeps
  <2>7. CASE WriteHeader
    BY <2>7, WriteHeaderKeeps
  <2>8. CASE WriteMagic
    BY <2>8, WriteMagicKeeps
  <2>9. CASE WriteBody
    BY <2>9, WriteBodyKeeps
  <2>10. CASE DiscardOld
    BY <2>10, DiscardOldKeeps
  <2>11. QED
    BY <1>3, <2>1, <2>2, <2>3, <2>4, <2>5, <2>6, <2>7, <2>8, <2>9, <2>10 DEF Serve, Search
<1>4. CASE PowerLoss
  BY <1>4, PowerLossKeeps
<1>5. CASE \E k \in Keys : LookUp(k) \/ BeginDel(k) \/ \E v \in Values : BeginSet(k, v)
  BY <1>5, LookUpKeeps, BeginDelKeeps, BeginSetKeeps
<1>6. CASE UNCHANGED vars
  BY <1>6, StutterKeeps
<1>7. QED
  BY <1>1, <1>2, <1>3, <1>4, <1>5, <1>6 DEF Next

(* The inductive invariant, from which the properties below follow.        *)
THEOREM Invariance ==
  ASSUME ~LossBeforeDone, ~LossStaleDone
  PROVE  Spec => []IInv
<1>1. Init => IInv
  BY InitKeeps
<1>2. IInv /\ [Next]_vars => IInv'
  BY StepKeeps
<1>3. QED
  BY <1>1, <1>2, PTL DEF Spec

-----------------------------------------------------------------------------
(* The properties the runs check.                                          *)

(* Every variable keeps its type, and the count of the fresh blocks never  *)
(* leaves 0 .. NumBlocks (the counters of kv_mgr_ctl_t).                   *)
THEOREM TypeCorrect ==
  ASSUME ~LossBeforeDone, ~LossStaleDone
  PROVE  Spec => []TypeOK
<1>1. ASSUME IInv PROVE TypeOK
  <2>1. Typed /\ TableInv
    BY <1>1 DEF IInv
  <2>2. ASSUME NEW b \in Blocks
        PROVE  /\ flash[b].magic \in BOOLEAN /\ flash[b].src \in BOOLEAN
               /\ flash[b].dst \in BOOLEAN /\ flash[b].done \in BOOLEAN
               /\ Used(b) <= Slots /\ \A s \in 1 .. Used(b) : flash[b].items[s] \in Item
    BY <2>1 DEF Typed, BlockType, Used
  <2>3. mgr.numFresh \in 0 .. NumBlocks
    BY <2>1, FreshCount DEF Typed, TableInv, Counted
  <2>4. /\ mgr.blk \in [Blocks -> [fresh : BOOLEAN, inuse : BOOLEAN, dirty : BOOLEAN, free : 0 .. Slots]]
        /\ mgr.numInuse \in 0 .. CounterSize - 1
    BY <2>1 DEF Typed, TableType, EntryType
  <2>5. /\ workspace \in {0} \cup Blocks /\ op.pos \in {0} \cup Positions
        /\ gc.src \in {0} \cup Blocks /\ gc.dst \in {0} \cup Blocks /\ gc.next \in 1 .. Slots + 1
        /\ result \in {"none", "ok", "failed"}
    BY <2>1 DEF Typed, OpType, GcType
  <2>6. QED
    BY <2>2, <2>3, <2>4, <2>5 DEF TypeOK
<1>2. Spec => []IInv
  BY Invariance
<1>3. QED
  BY <1>1, <1>2, PTL

(* Between calls the block table is what a walk of the whole flash would   *)
(* make of it: the flags and free sizes the search of a block relies on    *)
(* are kept up by saves, deletes, collections and boots alike.             *)
THEOREM TableAlwaysMatches ==
  ASSUME ~LossBeforeDone, ~LossStaleDone
  PROVE  Spec => []TableMatchesFlash
<1>1. ASSUME IInv PROVE TableMatchesFlash
  <2>1. SUFFICES ASSUME pc = "idle"
                 PROVE  /\ mgr.numFresh = Cardinality(FreshBlocks)
                        /\ \A b \in Blocks :
                             /\ mgr.blk[b].free = Slots - Used(b)
                             /\ mgr.blk[b].fresh => Used(b) = 0
                             /\ mgr.blk[b].inuse <=> ~mgr.blk[b].fresh /\ Used(b) < Slots
                             /\ Garbage(b) # {} => mgr.blk[b].dirty
    BY DEF TableMatchesFlash
  <2>2. Typed /\ TableInv /\ Unlisted = {}
    BY <1>1, <2>1 DEF IInv, Unlisted
  <2>3. mgr.numFresh = Cardinality(FreshBlocks)
    BY <2>2, SetsOfTable DEF TableInv, Counted
  <2>4. ASSUME NEW b \in Blocks
        PROVE  /\ mgr.blk[b].free = Slots - Used(b)
               /\ mgr.blk[b].fresh => Used(b) = 0
               /\ mgr.blk[b].inuse <=> ~mgr.blk[b].fresh /\ Used(b) < Slots
               /\ Garbage(b) # {} => mgr.blk[b].dirty
    <3>1. EntryOK(b) /\ mgr.blk[b] \in EntryType /\ Used(b) \in 0 .. Slots
      BY <2>2, TableFacts
    <3>2. Ahead(b) = 0 /\ ~Filling(b) /\ mgr.blk[b].free \in 0 .. Slots
      BY <2>1, <3>1 DEF Ahead, Filling, WriteSteps, EntryType
    <3>3. QED
      BY <3>1, <3>2, Numbers DEF EntryOK
  <2>5. QED
    BY <2>3, <2>4
<1>2. Spec => []IInv
  BY Invariance
<1>3. QED
  BY <1>1, <1>2, PTL

(* No interrupted collection is left when ln_kv_init has returned, however *)
(* often power was lost during it (comment of kv_handle_incomplete_gc).    *)
THEOREM GcAlwaysRepaired ==
  ASSUME ~LossBeforeDone, ~LossStaleDone
  PROVE  Spec => []GcRepaired
<1>1. IInv => GcRepaired
  BY DEF IInv, TagsInv, GcRepaired, SrcBlocks, DstBlocks
<1>2. Spec => []IInv
  BY Invariance
<1>3. QED
  BY <1>1, <1>2, PTL

(* A power loss never leaves tags on which kv_handle_incomplete_gc gives   *)
(* up (KV_ERR_BLK_STATUS_ERROR).                                           *)
THEOREM InitAlwaysSucceeds ==
  ASSUME ~LossBeforeDone, ~LossStaleDone
  PROVE  Spec => []InitSucceeds
<1>1. IInv => InitSucceeds
  BY DEF IInv, Typed, Steps, GcSteps, WriteSteps, InitSucceeds
<1>2. Spec => []IInv
  BY Invariance
<1>3. QED
  BY <1>1, <1>2, PTL

(* A set fails only when no fresh block is left: in particular the search  *)
(* for the copy of a moved item (kv_item_find_new_copy) always finds it,   *)
(* because the collection copies every live item before it erases one.     *)
THEOREM FailuresExplained ==
  ASSUME ~LossBeforeDone, ~LossStaleDone
  PROVE  Spec => FailsOnlyWithoutSpare
<1>1. ASSUME IInv, [Next]_vars, pc # "idle", result' = "failed"
      PROVE  mgr.numFresh = 0 \/ UNCHANGED vars
  <2>1. Typed /\ TableInv /\ OpInv /\ SpareInv /\ result = "none"
    BY <1>1 DEF IInv, OpInv
  <2>2. CASE SearchFails
    <3>1. CASE NoWriteableBlock
      BY <3>1 DEF NoWriteableBlock
    <3>2. CASE workspace = 0
      <4>1. ~Booting
        BY <2>2 DEF SearchFails, Booting, GcSteps
      <4>2. FreshIn(mgr) = {}
        BY <2>1, <3>2, <4>1 DEF SpareInv
      <4>3. QED
        BY <2>1, <4>2, SetsOfTable
    <3>3. CASE NoneInuse /\ mgr.numFresh < 1
      <4>1. mgr.numFresh \in Nat
        BY <2>1, SetsOfTable
      <4>2. QED
        BY <3>3, <4>1
    <3>4. QED
      BY <2>2, <3>1, <3>2, <3>3 DEF SearchFails
  <2>3. CASE FixPrev
    <3>1. ~(Moved /\ NewCopy = 0)
      <4>1. pc = "fix" /\ (Moved => op.pos # 0)
        BY <2>3 DEF FixPrev, Moved
      <4>2. QED
        BY <2>1, <4>1, NewCopyExists, WrittenFacts
    <3>2. QED
      BY <1>1, <2>1, <2>3, <3>1 DEF FixPrev
  <2>4. CASE WriteBody \/ DiscardOld \/ PowerLoss
    BY <1>1, <2>1, <2>4 DEF WriteBody, DiscardOld, PowerLoss, Return
  <2>5. CASE Boot \/ Gc \/ UseWorkspace \/ UseInuse \/ UseFresh \/ Collect \/ WriteHeader \/ WriteMagic
    <3>1. result' = result
      BY <2>5 DEF Boot, PowerOn, ScanHeader, ScanItem, ScanBlockEnd, HandleIncompleteGc, FormatDst, RescueGc,
                  LocateWorkspace, Gc, MarkSrc, MarkDst, CopyItem, EraseSrc, FormatSrc, MarkDone,
                  UseWorkspace, UseInuse, UseFresh, UseBlock, Collect, WriteHeader, WriteMagic
    <3>2. QED
      BY <1>1, <2>1, <3>1
  <2>6. CASE \E k \in Keys : LookUp(k) \/ BeginDel(k) \/ \E v \in Values : BeginSet(k, v)
    BY <1>1, <2>6 DEF LookUp, BeginDel, BeginSet, BeginOp
  <2>7. QED
    BY <1>1, <2>2, <2>3, <2>4, <2>5, <2>6 DEF Next, Serve, Search
<1>2. IInv /\ [Next]_vars => [pc # "idle" /\ result' = "failed" => mgr.numFresh = 0]_vars
  BY <1>1
<1>3. Spec => []IInv
  BY Invariance
<1>4. QED
  BY <1>2, <1>3, PTL DEF Spec, FailsOnlyWithoutSpare
=============================================================================
