---------------------------- MODULE KvAtomicProofs ----------------------------
(***************************************************************************)
(* The calls of the key/value store are atomic: KvStore implements the     *)
(* dictionary of AtomicKv, and a get returns what that dictionary holds,   *)
(* for every number of blocks, slots, keys and values.                     *)
(***************************************************************************)
EXTENDS KvStoreProofs

-----------------------------------------------------------------------------
(* The live items of some blocks.  Kept, from which Store is computed, is  *)
(* one of these sets.                                                      *)
LiveSlots(b) == {s \in 1 .. Used(b) : flash[b].items[s].state = "live"}
In(b) == {[at |-> PosOf(b, s), item |-> flash[b].items[s]] : s \in LiveSlots(b)}
Found(B) == UNION {In(b) : b \in B}

KeptBlocks == {b \in Blocks : ~(SrcBlocks # {} /\ b \in DstBlocks)}
Others == Blocks \ {gc.dst}

SameKey(c, d) == c.item.key = d.item.key
Single(found) == \A c, d \in found : SameKey(c, d) => c = d

(* Two copies of a key: the new one names the old one as its predecessor,  *)
(* or, if positions were reused, also the other way round.                 *)
Pair(found, c, d) ==
  /\ c.item.prev = d.at \/ d.item.prev = c.at
  /\ \A e \in found : SameKey(c, e) => e \in {c, d}

(* The items of a boot's cursor it has looked at.                          *)
Passed(p) ==
  \/ BlockOf(p) < scan.blk
  \/ BlockOf(p) = scan.blk /\ scan.slot # 0 /\ SlotOf(p) < scan.slot

Updating == pc = "discard" /\ op.val # NoValue

(* The copies of each key.  A power loss between the write of a new item   *)
(* and the discarding of the old one leaves two, which the boot makes one  *)
(* before any collection; a collection copies each item once.              *)
BootCopies ==
  /\ \A c, d \in Kept : c # d /\ SameKey(c, d) => SrcBlocks = {} /\ Pair(Kept, c, d)
  /\ \A c \in Found(DstBlocks) : \E d \in Found(SrcBlocks) : d.item = c.item

ScanCopies ==
  \A c, d \in Kept : c # d /\ SameKey(c, d) /\ c.item.prev = d.at => ~Passed(c.at)

GcCopies ==
  /\ Single(Found(Others)) /\ Single(In(gc.dst))
  /\ \A c \in In(gc.dst) : \E d \in In(gc.src) : d.item = c.item /\ SlotOf(d.at) < gc.next

UpdateCopies ==
  /\ \A c, d \in Kept : c # d /\ SameKey(c, d) => c.item.key = op.key
  /\ \E n \in Kept :
       /\ n.item.key = op.key /\ n.item.val = op.val /\ n.item.prev = op.pos /\ n.at # op.pos
       /\ \A c \in Kept : c.item.key = op.key => c = n \/ c.at = op.pos

Copied ==
  /\ pc \in {"off", "scan"} => BootCopies
  /\ pc = "scan" => ScanCopies
  /\ pc = "copy" => GcCopies
  /\ Updating => UpdateCopies
  /\ pc \notin {"off", "scan", "copy"} /\ ~Updating => Single(Kept)

(* The call being served: what it replaces is what is stored, and it would *)
(* change it.                                                              *)
Replaces ==
  /\ InCall => op.key \in Keys /\ op.val \in Values \cup {NoValue}
  /\ InCall /\ pc # "discard" => Store[op.key] # op.val /\ (op.pos = 0 <=> Store[op.key] = NoValue)
  /\ InCall /\ pc \in {"search", "fix"} \cup GcSteps /\ op.pos # 0 => op.item.key = op.key /\ op.item.state = "live"
  /\ pc \in {"writeHeader", "writeMagic", "writeBody", "discard"} /\ op.pos # 0 =>
       \E c \in Kept : c.at = op.pos /\ c.item.key = op.key

AtomicInv == Copied /\ Replaces

-----------------------------------------------------------------------------
(* The live items as positions.                                            *)
LEMMA InFacts ==
  ASSUME Typed, NEW b \in Blocks, NEW c \in In(b)
  PROVE  /\ c.at \in Positions /\ BlockOf(c.at) = b /\ SlotOf(c.at) \in LiveSlots(b)
         /\ c.item = flash[b].items[SlotOf(c.at)] /\ c.item.state = "live"
         /\ c.item.key \in Keys /\ c.item.val \in Values /\ c.item.prev \in {0} \cup Positions
         /\ c = [at |-> c.at, item |-> c.item] /\ c.at = PosOf(b, SlotOf(c.at))
<1>1. PICK s \in LiveSlots(b) : c = [at |-> PosOf(b, s), item |-> flash[b].items[s]]
  BY DEF In
<1>2. flash[b] \in BlockType /\ Used(b) \in 0 .. Slots /\ s \in 1 .. Used(b) /\ flash[b].items[s].state = "live"
  <2>1. flash[b] \in BlockType /\ Used(b) <= Slots
    BY DEF Typed
  <2>2. Used(b) \in Nat
    BY <2>1 DEF BlockType, Used
  <2>3. QED
    BY <1>1, <2>1, <2>2, Numbers DEF LiveSlots
<1>3. s \in 1 .. Slots
  BY <1>2, Numbers
<1>4. PosOf(b, s) \in Positions /\ BlockOf(PosOf(b, s)) = b /\ SlotOf(PosOf(b, s)) = s
  BY <1>3, PosFacts
<1>5. flash[b].items[s] \in Item
  BY <1>2 DEF BlockType, Used
<1>6. flash[b].items[s] \in [key : Keys, val : Values, prev : {0} \cup Positions, state : {"live"}]
  BY <1>2, <1>5 DEF Item, Broken
<1>7. c.at = PosOf(b, s) /\ c.item = flash[b].items[s] /\ c = [at |-> c.at, item |-> c.item]
  BY <1>1
<1>8. c.item.key \in Keys /\ c.item.val \in Values /\ c.item.prev \in {0} \cup Positions /\ c.item.state = "live"
  BY <1>6, <1>7
<1>9. QED
  BY <1>1, <1>4, <1>7, <1>8, Zenon

LEMMA InMember ==
  ASSUME NEW b \in Blocks, NEW s \in LiveSlots(b)
  PROVE  \E c \in In(b) : c.at = PosOf(b, s) /\ c.item = flash[b].items[s]
<1> DEFINE c == [at |-> PosOf(b, s), item |-> flash[b].items[s]]
<1>1. c \in In(b)
  BY DEF In
<1>2. c.at = PosOf(b, s) /\ c.item = flash[b].items[s]
  OBVIOUS
<1>3. QED
  BY <1>1, <1>2

LEMMA FoundFacts ==
  ASSUME Typed, NEW B \in SUBSET Blocks, NEW c \in Found(B)
  PROVE  /\ c.at \in Positions /\ BlockOf(c.at) \in B /\ c \in In(BlockOf(c.at))
         /\ c.at \in Nat /\ c.at # 0
         /\ c.item.key \in Keys /\ c.item.val \in Values /\ c.item.prev \in {0} \cup Positions
         /\ c.item.state = "live" /\ c = [at |-> c.at, item |-> c.item]
<1>1. PICK b \in B : c \in In(b)
  BY DEF Found
<1>2. b \in Blocks
  OBVIOUS
<1>3. /\ c.at \in Positions /\ BlockOf(c.at) = b
      /\ c.item.key \in Keys /\ c.item.val \in Values /\ c.item.prev \in {0} \cup Positions
      /\ c.item.state = "live" /\ c = [at |-> c.at, item |-> c.item]
  BY <1>1, <1>2, InFacts
<1>4. c.at \in Nat /\ c.at # 0
  BY <1>3, Numbers
<1>5. QED
  BY <1>1, <1>3, <1>4, Zenon

LEMMA FoundIn ==
  ASSUME NEW B, NEW b \in B, NEW c \in In(b)
  PROVE  c \in Found(B)
BY DEF Found

(* An item is known by its position.                                       *)
LEMMA SameAt ==
  ASSUME Typed, NEW B \in SUBSET Blocks, NEW C \in SUBSET Blocks, NEW c \in Found(B), NEW d \in Found(C), c.at = d.at
  PROVE  c = d
<1> DEFINE b == BlockOf(c.at)
<1>1. b \in Blocks /\ c \in In(b) /\ d \in In(b)
  BY FoundFacts, Zenon
<1>2. c.item = flash[b].items[SlotOf(c.at)] /\ d.item = flash[b].items[SlotOf(d.at)]
  BY <1>1, InFacts, Zenon
<1>3. c = [at |-> c.at, item |-> c.item] /\ d = [at |-> d.at, item |-> d.item]
  BY <1>1, InFacts, Zenon
<1>4. QED
  BY <1>2, <1>3

(* What StoredIn is computed from.                                         *)
LEMMA KeptIs ==
  Kept = Found(KeptBlocks) /\ Kept' = Found(KeptBlocks)'
<1>1. KeptBlocks = {c \in Blocks : ~((\E b \in Blocks : IsSrc(b)) /\ IsDstNotDone(c))}
  BY DEF KeptBlocks, SrcBlocks, DstBlocks
<1>2. Kept = Found(KeptBlocks)
  BY <1>1, Zenon DEF Kept, Found, In, LiveSlots
<1>3. (Kept = Found(KeptBlocks))'
  BY <1>2, PTL
<1>4. QED
  BY <1>2, <1>3

LEMMA KeptAll ==
  /\ SrcBlocks = {} \/ DstBlocks = {} => Kept = Found(Blocks) /\ KeptBlocks = Blocks
  /\ SrcBlocks' = {} \/ DstBlocks' = {} => Kept' = Found(Blocks)' /\ KeptBlocks' = Blocks
<1>1. SrcBlocks = {} \/ DstBlocks = {} => KeptBlocks = Blocks
  BY DEF KeptBlocks
<1>2. SrcBlocks' = {} \/ DstBlocks' = {} => KeptBlocks' = Blocks
  BY DEF KeptBlocks, Blocks
<1>3. QED
  BY <1>1, <1>2, KeptIs DEF Found

LEMMA KeptBlocksIn == KeptBlocks \in SUBSET Blocks
BY DEF KeptBlocks

LEMMA InSame ==
  ASSUME NEW b \in Blocks, LiveSlots(b)' = LiveSlots(b),
         \A s \in LiveSlots(b) : flash'[b].items[s] = flash[b].items[s]
  PROVE  In(b)' = In(b)
<1>1. In(b)' = {[at |-> PosOf(b, s), item |-> flash'[b].items[s]] : s \in LiveSlots(b)'}
  BY DEF In, PosOf
<1>2. QED
  BY <1>1 DEF In

LEMMA InOfItems ==
  ASSUME NEW b \in Blocks, flash'[b].items = flash[b].items
  PROVE  In(b)' = In(b)
BY InSame DEF LiveSlots, Used

LEMMA FoundSame ==
  ASSUME NEW B, \A b \in B : In(b)' = In(b)
  PROVE  Found(B)' = Found(B)
BY DEF Found

-----------------------------------------------------------------------------
(* What a set of live items stores for a key.                              *)
LEMMA StoredNone ==
  ASSUME NEW kept, NEW k, \A c \in kept : c.item.key # k
  PROVE  StoredIn(kept, k) = NoValue
<1>1. {c \in kept : c.item.key = k} = {}
  OBVIOUS
<1>2. QED
  BY <1>1 DEF StoredIn

(* Copy n lasts, and those that hold another value do not.                 *)
Decides(kept, k, n, v) ==
  /\ n \in kept /\ n.item.key = k
  /\ \A c \in kept : c.at \in Nat
  /\ \A d \in kept : d.item.key = k => ~Overrules(d, n)
  /\ \A c \in kept : c.item.key = k => c.item.val = v \/ \E d \in kept : d.item.key = k /\ Overrules(d, c)

LEMMA StoredValue ==
  ASSUME NEW kept, NEW k, NEW v, NEW n, Decides(kept, k, n, v)
  PROVE  StoredIn(kept, k) = v
<1> DEFINE copies == {c \in kept : c.item.key = k}
           lasting == {c \in copies : \A d \in copies : ~Overrules(d, c)}
           first == CHOOSE c \in lasting : \A d \in lasting : c.at <= d.at
           T == {c.at : c \in lasting}
<1>1. n \in lasting
  BY DEF Decides
<1>2. T \in SUBSET Nat /\ T # {}
  BY <1>1 DEF Decides
<1>3. PICK x \in T : \A y \in T : x <= y
  BY <1>2, LeastNat
<1>4. \E c \in lasting : \A d \in lasting : c.at <= d.at
  <2>1. PICK c \in lasting : x = c.at
    BY <1>3
  <2>2. QED
    BY <1>3, <2>1
<1>5. first \in lasting
  BY <1>4
<1>6. first.item.val = v
  BY <1>5 DEF Decides
<1>7. StoredIn(kept, k) = first.item.val
  BY <1>1 DEF StoredIn
<1>8. QED
  BY <1>6, <1>7

LEMMA StoredSingle ==
  ASSUME NEW kept, NEW n \in kept, \A c \in kept : c.at \in Nat,
         \A c \in kept : SameKey(c, n) => c = n
  PROVE  StoredIn(kept, n.item.key) = n.item.val
<1>1. \A d \in kept : d.item.key = n.item.key => ~Overrules(d, n)
  BY DEF SameKey, Overrules
<1>2. \A c \in kept : c.item.key = n.item.key => c.item.val = n.item.val
  BY DEF SameKey
<1>3. Decides(kept, n.item.key, n, n.item.val)
  BY <1>1, <1>2 DEF Decides
<1>4. QED
  BY <1>3, StoredValue

(* Two copies of which one overrules the other.                            *)
LEMMA StoredPair ==
  ASSUME NEW kept, NEW n \in kept, NEW o \in kept, n.at # o.at, \A c \in kept : c.at \in Nat,
         Overrules(n, o), \A c \in kept : SameKey(c, n) => c \in {n, o}
  PROVE  StoredIn(kept, n.item.key) = n.item.val
<1>1. ~Overrules(o, n)
  <2>1. n.at \in Nat /\ o.at \in Nat
    OBVIOUS
  <2>2. QED
    BY <2>1 DEF Overrules
<1>2. \A d \in kept : d.item.key = n.item.key => ~Overrules(d, n)
  BY <1>1 DEF SameKey, Overrules
<1>3. \A c \in kept : c.item.key = n.item.key =>
        c.item.val = n.item.val \/ \E d \in kept : d.item.key = n.item.key /\ Overrules(d, c)
  BY DEF SameKey
<1>4. Decides(kept, n.item.key, n, n.item.val)
  BY <1>2, <1>3 DEF Decides
<1>5. QED
  BY <1>4, StoredValue

(* Two copies with the same value.                                         *)
LEMMA StoredTwins ==
  ASSUME NEW kept, NEW n \in kept, NEW o \in kept, n.item = o.item, n.at # o.at, \A c \in kept : c.at \in Nat,
         \A c \in kept : SameKey(c, n) => c \in {n, o}
  PROVE  StoredIn(kept, n.item.key) = n.item.val
<1>1. PICK m \in {n, o} : \A d \in {n, o} : ~Overrules(d, m)
  <2>1. ~(Overrules(n, o) /\ Overrules(o, n)) /\ ~Overrules(n, n) /\ ~Overrules(o, o)
    <3>1. n.at \in Nat /\ o.at \in Nat
      OBVIOUS
    <3>2. QED
      BY <3>1 DEF Overrules
  <2>2. QED
    BY <2>1
<1>2. m \in kept /\ m.item.key = n.item.key /\ \A d \in kept : d.item.key = n.item.key => ~Overrules(d, m)
  BY <1>1 DEF SameKey
<1>3. \A c \in kept : c.item.key = n.item.key => c.item.val = n.item.val
  BY DEF SameKey
<1>4. Decides(kept, n.item.key, m, n.item.val)
  BY <1>2, <1>3 DEF Decides
<1>5. QED
  BY <1>4, StoredValue

(* A set of live items that stores the value of each of its members.       *)
Faithful(found) == \A n \in found : StoredIn(found, n.item.key) = n.item.val

LEMMA SingleFaithful ==
  ASSUME Typed, NEW B \in SUBSET Blocks, Single(Found(B))
  PROVE  Faithful(Found(B))
<1>1. SUFFICES ASSUME NEW n \in Found(B) PROVE StoredIn(Found(B), n.item.key) = n.item.val
  BY DEF Faithful
<1>2. \A c \in Found(B) : c.at \in Nat
  BY FoundFacts, Zenon
<1>3. \A c \in Found(B) : SameKey(c, n) => c = n
  BY DEF Single
<1>4. PICK F : F = Found(B)
  OBVIOUS
<1>5. QED
  BY <1>2, <1>3, <1>4, StoredSingle

(* Nothing is stored for a key, or the value of one of its copies.         *)
LEMMA FaithfulStores ==
  ASSUME Typed, NEW B \in SUBSET Blocks, Faithful(Found(B)), NEW k
  PROVE  /\ StoredIn(Found(B), k) = NoValue <=> \A c \in Found(B) : c.item.key # k
         /\ \A c \in Found(B) : c.item.key = k => StoredIn(Found(B), k) = c.item.val
<1>1. \A c \in Found(B) : c.item.key = k => StoredIn(Found(B), k) = c.item.val
  BY DEF Faithful
<1>2. \A c \in Found(B) : c.item.val # NoValue
  <2>1. \A c \in Found(B) : c.item.val \in Values
    BY FoundFacts, Zenon
  <2>2. QED
    BY <2>1, KvAssumption DEF KvAssumption
<1>3. (\A c \in Found(B) : c.item.key # k) => StoredIn(Found(B), k) = NoValue
  BY StoredNone
<1>4. QED
  BY <1>1, <1>2, <1>3

LEMMA SameStored ==
  ASSUME NEW F, NEW G, Faithful(F), Faithful(G), NEW k,
         \A f \in F : \E g \in G : g.item = f.item,
         \A g \in G : \E f \in F : g.item = f.item
  PROVE  StoredIn(F, k) = StoredIn(G, k)
<1>1. CASE \E f \in F : f.item.key = k
  <2>1. PICK f \in F : f.item.key = k
    BY <1>1
  <2>2. PICK g \in G : g.item = f.item
    OBVIOUS
  <2>3. StoredIn(F, f.item.key) = f.item.val /\ StoredIn(G, g.item.key) = g.item.val
    BY DEF Faithful
  <2>4. QED
    BY <2>1, <2>2, <2>3
<1>2. CASE \A f \in F : f.item.key # k
  <2>1. \A g \in G : g.item.key # k
    BY <1>2
  <2>2. QED
    BY <1>2, <2>1, StoredNone
<1>3. QED
  BY <1>1, <1>2

(* The copies of a collection store what the originals do.                 *)
LEMMA GcFaithful ==
  ASSUME Typed, GcCopies, gc.dst \in Blocks, gc.src \in Others
  PROVE  /\ Faithful(Found(Others)) /\ Faithful(Found(Blocks))
         /\ \A k : StoredIn(Found(Blocks), k) = StoredIn(Found(Others), k)
<1> DEFINE F == Found(Others)
           A == Found(Blocks)
<1>1. Others \in SUBSET Blocks /\ Blocks \in SUBSET Blocks /\ Others \cup {gc.dst} = Blocks
  BY DEF Others
<1>2. A = F \cup In(gc.dst)
  BY <1>1 DEF Found
<1>3. Single(F) /\ Single(In(gc.dst)) /\ \A c \in In(gc.dst) : \E d \in In(gc.src) : d.item = c.item
  BY DEF GcCopies
<1>4. \A c \in In(gc.dst) : \E d \in F : d.item = c.item
  <2>1. \A d \in In(gc.src) : d \in F
    BY FoundIn
  <2>2. QED
    BY <1>3, <2>1
<1>5. Faithful(F)
  BY <1>1, <1>3, SingleFaithful, Zenon
<1>6. \A c \in A : c.at \in Nat
  BY <1>1, FoundFacts, Zenon
<1>7. \A c \in F, d \in In(gc.dst) : c.at # d.at
  <2>1. SUFFICES ASSUME NEW c \in F, NEW d \in In(gc.dst) PROVE c.at # d.at
    OBVIOUS
  <2>2. BlockOf(c.at) \in Others
    BY <1>1, FoundFacts, Zenon
  <2>3. BlockOf(d.at) = gc.dst
    BY InFacts, Zenon
  <2>4. QED
    BY <2>2, <2>3 DEF Others
<1>8. Faithful(A)
  <2>1. SUFFICES ASSUME NEW n \in A PROVE StoredIn(A, n.item.key) = n.item.val
    BY DEF Faithful
  <2>2. PICK f \in F : f.item = n.item
    BY <1>2, <1>4
  <2>3. \A c \in F : SameKey(c, f) => c = f
    BY <1>3 DEF Single
  <2>4. CASE \E d \in In(gc.dst) : SameKey(d, f)
    <3>1. PICK d \in In(gc.dst) : SameKey(d, f)
      BY <2>4
    <3>2. PICK g \in F : g.item = d.item
      BY <1>4
    <3>3. d.item = f.item
      BY <2>3, <3>1, <3>2 DEF SameKey
    <3>4. \A c \in In(gc.dst) : SameKey(c, f) => c = d
      BY <1>3, <3>1 DEF Single, SameKey
    <3>5. \A c \in A : SameKey(c, f) => c \in {f, d}
      BY <1>2, <2>3, <3>4
    <3>6. f \in A /\ d \in A /\ f.at # d.at
      BY <1>2, <1>7
    <3>7. PICK G : G = A
      OBVIOUS
    <3>8. StoredIn(G, f.item.key) = f.item.val
      BY <1>6, <3>3, <3>5, <3>6, <3>7, StoredTwins
    <3>9. QED
      BY <2>2, <3>7, <3>8
  <2>5. CASE \A d \in In(gc.dst) : ~SameKey(d, f)
    <3>1. \A c \in A : SameKey(c, f) => c = f
      BY <1>2, <2>3, <2>5
    <3>2. f \in A
      BY <1>2
    <3>3. PICK G : G = A
      OBVIOUS
    <3>4. StoredIn(G, f.item.key) = f.item.val
      BY <1>6, <3>1, <3>2, <3>3, StoredSingle
    <3>5. QED
      BY <2>2, <3>3, <3>4
  <2>6. QED
    BY <2>4, <2>5
<1>9. \A f \in F : \E g \in A : g.item = f.item
  BY <1>2
<1>10. \A g \in A : \E f \in F : g.item = f.item
  BY <1>2, <1>4
<1> HIDE DEF F, A
<1>11. \A k : StoredIn(A, k) = StoredIn(F, k)
  BY <1>5, <1>8, <1>9, <1>10, SameStored
<1>12. QED
  BY <1>5, <1>8, <1>11 DEF F, A

(* The store is a function of the live items that are kept.                *)
LEMMA StoreOf ==
  /\ Store = [k \in Keys |-> StoredIn(Kept, k)]
  /\ Store' = [k \in Keys |-> StoredIn(Kept', k)]
BY DEF Store

LEMMA StoreSame ==
  ASSUME \A k \in Keys : StoredIn(Kept', k) = StoredIn(Kept, k)
  PROVE  Store' = Store
BY StoreOf

LEMMA KeptSame ==
  ASSUME Kept' = Kept
  PROVE  Store' = Store
BY StoreSame

LEMMA TagsKept ==
  ASSUME \A b \in Blocks : In(b)' = In(b), SrcBlocks' = SrcBlocks, DstBlocks' = DstBlocks
  PROVE  /\ Kept' = Kept /\ Found(DstBlocks)' = Found(DstBlocks) /\ Found(SrcBlocks)' = Found(SrcBlocks)
         /\ Store' = Store
<1>1. KeptBlocks' = KeptBlocks
  BY DEF KeptBlocks
<1>2. DstBlocks \in SUBSET Blocks /\ SrcBlocks \in SUBSET Blocks /\ KeptBlocks \in SUBSET Blocks
  BY DEF DstBlocks, SrcBlocks, KeptBlocks
<1>3. Found(KeptBlocks)' = UNION {In(b)' : b \in KeptBlocks'} /\ Found(KeptBlocks) = UNION {In(b) : b \in KeptBlocks}
  BY DEF Found
<1>4. /\ Found(DstBlocks)' = UNION {In(b)' : b \in DstBlocks'} /\ Found(DstBlocks) = UNION {In(b) : b \in DstBlocks}
      /\ Found(SrcBlocks)' = UNION {In(b)' : b \in SrcBlocks'} /\ Found(SrcBlocks) = UNION {In(b) : b \in SrcBlocks}
  BY DEF Found
<1>5. Found(KeptBlocks)' = Found(KeptBlocks)
  BY <1>1, <1>2, <1>3
<1>6. Found(DstBlocks)' = Found(DstBlocks) /\ Found(SrcBlocks)' = Found(SrcBlocks)
  BY <1>2, <1>4
<1>7. Kept' = Kept
  BY <1>5, KeptIs
<1>8. QED
  BY <1>6, <1>7, KeptSame

LEMMA FlashKept ==
  ASSUME UNCHANGED flash
  PROVE  /\ Kept' = Kept /\ Found(DstBlocks)' = Found(DstBlocks) /\ Found(SrcBlocks)' = Found(SrcBlocks)
         /\ SrcBlocks' = SrcBlocks /\ DstBlocks' = DstBlocks
         /\ Store' = Store /\ \A b \in Blocks : In(b)' = In(b)
<1>1. \A b \in Blocks : In(b)' = In(b)
  BY InOfItems
<1>2. SrcBlocks' = SrcBlocks /\ DstBlocks' = DstBlocks
  BY DEF SrcBlocks, DstBlocks, IsSrc, IsDstNotDone
<1>3. QED
  BY <1>1, <1>2, TagsKept

LEMMA NotInCall ==
  ASSUME ~InCall'
  PROVE  Replaces'
BY DEF Replaces, InCall, GcSteps

(* The copies of the keys stay one each while no collection copies.        *)
LEMMA StillSingle ==
  ASSUME Copied, Kept' = Kept, pc \notin {"off", "scan", "copy"}, ~Updating,
         pc' \notin {"off", "scan", "copy"}, ~Updating'
  PROVE  Copied'
<1>1. Single(Kept)
  BY DEF Copied
<1>2. Single(Kept)'
  BY <1>1 DEF Single
<1>3. QED
  BY <1>2 DEF Copied

(* The same for the call it serves.                                        *)
LEMMA StillReplaces ==
  ASSUME Replaces, Store' = Store, Kept' = Kept, op' = op, InCall, pc # "discard", pc' # "discard",
         pc' \in {"writeHeader", "writeMagic", "writeBody"} => pc \in {"writeHeader", "writeMagic", "writeBody"},
         pc' \in {"search", "fix"} \cup GcSteps => pc \in {"search", "fix"} \cup GcSteps
  PROVE  Replaces'
BY DEF Replaces

-----------------------------------------------------------------------------
(* The boot.                                                               *)
LEMMA PowerOnAtomic ==
  ASSUME IInv, Copied, PowerOn
  PROVE  Copied' /\ Replaces' /\ Store' = Store
<1>1. pc = "off" /\ pc' = "scan" /\ UNCHANGED <<flash, op, gc, scan>>
  BY DEF PowerOn
<1>2. ~InCall'
  BY <1>1 DEF InCall, GcSteps
<1>3. scan = NoScan /\ Typed
  BY <1>1 DEF IInv, ScanInv
<1>4. \A c \in Found(KeptBlocks) : ~Passed(c.at)'
  <2>1. SUFFICES ASSUME NEW c \in Found(KeptBlocks) PROVE ~Passed(c.at)'
    OBVIOUS
  <2>2. BlockOf(c.at) \in Blocks
    BY <1>3, KeptBlocksIn, FoundFacts, Zenon
  <2>3. scan'.blk = 1 /\ scan'.slot = 0
    BY <1>1, <1>3 DEF NoScan
  <2>4. QED
    BY <2>2, <2>3 DEF Passed, Blocks
<1>5. BootCopies
  BY <1>1 DEF Copied
<1>6. /\ Kept' = Kept /\ Found(DstBlocks)' = Found(DstBlocks) /\ Found(SrcBlocks)' = Found(SrcBlocks)
      /\ SrcBlocks' = SrcBlocks /\ Store' = Store
  BY <1>1, FlashKept
<1>7. BootCopies'
  BY <1>5, <1>6 DEF BootCopies, Pair
<1>8. ScanCopies'
  BY <1>4, <1>6, KeptIs DEF ScanCopies
<1>9. QED
  BY <1>1, <1>2, <1>6, <1>7, <1>8, NotInCall DEF Copied, Updating

(* The next cursor has passed no item of a key that has two copies but     *)
(* those the boot has looked at.                                           *)
LEMMA ScanMoves ==
  ASSUME IInv, Copied, pc = "scan", Kept' = Kept,
         \A c, d \in Kept : c # d /\ SameKey(c, d) /\ c.item.prev = d.at /\ ~Passed(c.at) => ~Passed(c.at)'
  PROVE  ScanCopies'
<1>1. ScanCopies
  BY DEF Copied
<1>2. QED
  BY <1>1 DEF ScanCopies

LEMMA BootKept ==
  ASSUME Copied, pc \in {"off", "scan"}, Kept' = Kept, SrcBlocks' = SrcBlocks,
         Found(DstBlocks)' = Found(DstBlocks), Found(SrcBlocks)' = Found(SrcBlocks)
  PROVE  BootCopies'
<1>1. BootCopies
  BY DEF Copied
<1>2. QED
  BY <1>1 DEF BootCopies, Pair

LEMMA ScanHeaderAtomic ==
  ASSUME IInv, Copied, ScanHeader
  PROVE  Copied' /\ Replaces' /\ Store' = Store
<1> DEFINE b == scan.blk
<1>1. pc = "scan" /\ pc' = "scan" /\ b \in Blocks /\ scan.slot = 0 /\ UNCHANGED op
  BY DEF ScanHeader
<1>2. /\ Typed /\ Mendable /\ ScanInv /\ flash \in [Blocks -> BlockType] /\ scan \in ScanType
      /\ \A c \in Blocks : ~flash[c].magic => flash[c] = Erased
      /\ \A c \in Blocks : c \in Int
  BY <1>1, ScanFacts
<1>3. ~InCall' /\ ~Updating' /\ pc' # "copy"
  BY <1>1 DEF InCall, GcSteps, Updating
<1>4. /\ \A c \in Blocks : In(c)' = In(c)
      /\ SrcBlocks' = SrcBlocks /\ DstBlocks' = DstBlocks
  <2>1. CASE ~flash[b].magic
    <3>1. flash[b] = Erased /\ flash' = [flash EXCEPT ![b] = Formatted]
      BY <1>1, <1>2, <2>1 DEF ScanHeader
    <3>2. flash'[b] = Formatted /\ \A c \in Blocks \ {b} : flash'[c] = flash[c]
      BY <1>1, <1>2, <3>1, BlockFacts, ErasedType
    <3>3. \A c \in Blocks : flash'[c].items = flash[c].items /\ flash'[c].src = flash[c].src
            /\ flash'[c].dst = flash[c].dst /\ flash'[c].done = flash[c].done
      <4>1. /\ Formatted.items = Erased.items /\ Formatted.src = Erased.src
            /\ Formatted.dst = Erased.dst /\ Formatted.done = Erased.done
        BY DEF Erased, Formatted
      <4>2. QED
        BY <3>1, <3>2, <4>1
    <3>4. QED
      BY <3>3, InOfItems DEF SrcBlocks, DstBlocks, IsSrc, IsDstNotDone
  <2>2. CASE flash[b].magic
    BY <2>2, FlashKept DEF ScanHeader
  <2>3. QED
    BY <2>1, <2>2
<1>5. /\ Kept' = Kept /\ Found(DstBlocks)' = Found(DstBlocks) /\ Found(SrcBlocks)' = Found(SrcBlocks)
      /\ Store' = Store
  BY <1>4, TagsKept
<1>6. BootCopies'
  BY <1>1, <1>4, <1>5, BootKept
<1>7. \/ scan'.blk = b + 1 /\ scan'.slot = 0 /\ (In(b) = {} \/ SrcBlocks # {})
      \/ scan'.blk = b /\ scan'.slot = 1
  <2>1. CASE ~flash[b].magic
    <3>1. flash[b] = Erased /\ scan' = NextBlock([scan EXCEPT !.fresh = b])
      BY <1>1, <1>2, <2>1 DEF ScanHeader
    <3>2. In(b) = {}
      BY <3>1, ErasedType DEF In, LiveSlots, Used
    <3>3. QED
      BY <1>2, <3>1, <3>2 DEF NextBlock, ScanType
  <2>2. CASE flash[b].magic /\ IsSrc(b)
    BY <1>1, <1>2, <2>2 DEF ScanHeader, NextBlock, ScanType, SrcBlocks
  <2>3. CASE flash[b].magic /\ ~IsSrc(b) /\ IsDstNotDone(b)
    <3>1. DstBlocks # {} /\ scan' = NextBlock([scan EXCEPT !.dsts = @ \cup {b}])
      BY <1>1, <2>3 DEF ScanHeader, DstBlocks
    <3>2. SrcBlocks # {}
      BY <1>2, <3>1 DEF Mendable
    <3>3. QED
      BY <1>2, <3>1, <3>2 DEF NextBlock, ScanType
  <2>4. CASE flash[b].magic /\ ~IsSrc(b) /\ ~IsDstNotDone(b)
    <3>1. scan' = [scan EXCEPT !.slot = 1]
      BY <2>4 DEF ScanHeader
    <3>2. QED
      BY <1>2, <3>1 DEF ScanType
  <2>5. QED
    BY <2>1, <2>2, <2>3, <2>4
<1>8. ASSUME NEW c \in Kept, NEW d \in Kept, c # d, SameKey(c, d), ~Passed(c.at)
      PROVE  ~Passed(c.at)'
  <2>1. SrcBlocks = {}
    BY <1>1, <1>8 DEF Copied, BootCopies
  <2>2. c \in Found(KeptBlocks)
    BY <1>8, KeptIs
  <2>3. BlockOf(c.at) \in Blocks /\ c \in In(BlockOf(c.at)) /\ c.at \in Positions
    BY <1>2, <2>2, KeptBlocksIn, FoundFacts, Zenon
  <2>4. SlotOf(c.at) \in 1 .. Slots
    BY <2>3, PosInverse
  <2>5. BlockOf(c.at) \in Int /\ b \in Int
    BY <1>1, <1>2, <2>3
  <2>6. ~(BlockOf(c.at) < b)
    BY <1>8 DEF Passed
  <2>7. CASE scan'.blk = b + 1 /\ scan'.slot = 0 /\ In(b) = {}
    <3>1. BlockOf(c.at) # b
      BY <2>3, <2>7
    <3>2. QED
      BY <2>5, <2>6, <2>7, <3>1 DEF Passed
  <2>8. CASE scan'.blk = b /\ scan'.slot = 1
    BY <2>4, <2>5, <2>6, <2>8 DEF Passed
  <2>9. QED
    BY <1>7, <2>1, <2>7, <2>8
<1>9. ScanCopies'
  BY <1>1, <1>5, <1>8, ScanMoves
<1>10. QED
  BY <1>1, <1>3, <1>5, <1>6, <1>9, NotInCall DEF Copied

(* A discarded item is kept no more; one that was not live was not kept.   *)
LEMMA DiscardKept ==
  ASSUME Typed, NEW q \in Written, flash' = Discard(q)
  PROVE  /\ SrcBlocks' = SrcBlocks /\ DstBlocks' = DstBlocks
         /\ \A b \in Blocks : In(b)' = {c \in In(b) : c.at # q}
         /\ Kept' = {c \in Kept : c.at # q}
         /\ At(q).state # "live" => \A b \in Blocks : In(b)' = In(b)
<1> DEFINE e == BlockOf(q)
           t == SlotOf(q)
<1>1. /\ e \in Blocks /\ flash' \in [Blocks -> BlockType] /\ \A c \in Blocks \ {e} : flash'[c] = flash[c]
      /\ SameTags(flash'[e], flash[e]) /\ Len(flash'[e].items) = Used(e)
      /\ flash'[e].items[t].state = "discarded"
      /\ \A s \in 1 .. Used(e) : s # t => flash'[e].items[s] = flash[e].items[s]
  BY DiscardFacts
<1>2. /\ q \in Positions /\ t \in 1 .. Used(e) /\ q = PosOf(e, t) /\ Used(e) \in 1 .. Slots
  BY WrittenFacts
<1>3. SrcBlocks' = SrcBlocks /\ DstBlocks' = DstBlocks
  <2>1. \A b \in Blocks : SameTags(flash'[b], flash[b])
    BY <1>1 DEF SameTags
  <2>2. QED
    BY <2>1, TagsSame
<1> HIDE DEF e, t
<1>4. ASSUME NEW b \in Blocks, b # e
      PROVE  In(b)' = {c \in In(b) : c.at # q} /\ In(b)' = In(b)
  <2>1. In(b)' = In(b)
    BY <1>1, <1>4, InOfItems
  <2>2. \A c \in In(b) : c.at # q
    <3>1. \A c \in In(b) : BlockOf(c.at) = b
      BY InFacts, Zenon
    <3>2. QED
      BY <3>1, <1>4 DEF e
  <2>3. QED
    BY <2>1, <2>2
<1>5. LiveSlots(e)' = LiveSlots(e) \ {t}
  <2>1. Used(e)' = Used(e)
    BY <1>1 DEF Used
  <2>2. QED
    BY <1>1, <1>2, <2>1 DEF LiveSlots
<1>6. \A s \in LiveSlots(e) : PosOf(e, s) = q <=> s = t
  <2>1. SUFFICES ASSUME NEW s \in LiveSlots(e) PROVE PosOf(e, s) = q <=> s = t
    OBVIOUS
  <2>2. s \in 1 .. Slots
    BY <1>2, Numbers DEF LiveSlots
  <2>3. SlotOf(PosOf(e, s)) = s
    BY <1>1, <2>2, PosFacts
  <2>4. QED
    BY <1>2, <2>3 DEF t
<1>7. In(e)' = {c \in In(e) : c.at # q}
  <2>1. In(e)' = {[at |-> PosOf(e, s), item |-> flash'[e].items[s]] : s \in LiveSlots(e)'}
    BY DEF In, PosOf
  <2>2. In(e)' = {[at |-> PosOf(e, s), item |-> flash[e].items[s]] : s \in LiveSlots(e) \ {t}}
    <3>1. \A s \in LiveSlots(e) \ {t} : flash'[e].items[s] = flash[e].items[s]
      BY <1>1 DEF LiveSlots
    <3>2. QED
      BY <1>5, <2>1, <3>1
  <2>3. QED
    BY <1>6, <2>2 DEF In
<1>8. \A b \in Blocks : In(b)' = {c \in In(b) : c.at # q}
  BY <1>4, <1>7
<1>9. Kept' = {c \in Kept : c.at # q}
  <2>1. KeptBlocks' = KeptBlocks /\ KeptBlocks \in SUBSET Blocks
    BY <1>3 DEF KeptBlocks
  <2>2. Kept' = UNION {In(b)' : b \in KeptBlocks} /\ Kept = UNION {In(b) : b \in KeptBlocks}
    BY <2>1, KeptIs DEF Found
  <2>3. QED
    BY <1>8, <2>1, <2>2
<1>10. ASSUME At(q).state # "live" PROVE \A b \in Blocks : In(b)' = In(b)
  <2>1. t \notin LiveSlots(e)
    BY <1>10 DEF LiveSlots, At, e, t
  <2>2. \A c \in In(e) : c.at # q
    BY <1>6, <2>1 DEF In
  <2>3. In(e)' = In(e)
    BY <1>7, <2>2
  <2>4. QED
    BY <1>4, <2>3
<1>11. QED
  BY <1>3, <1>8, <1>9, <1>10

LEMMA PosOrder ==
  ASSUME NEW p \in Positions, NEW q \in Positions, p < q
  PROVE  BlockOf(p) < BlockOf(q) \/ (BlockOf(p) = BlockOf(q) /\ SlotOf(p) < SlotOf(q))
<1>1. PICK x, y, s, t : x = BlockOf(p) /\ y = BlockOf(q) /\ s = SlotOf(p) /\ t = SlotOf(q)
  OBVIOUS
<1>2. /\ x \in Blocks /\ s \in 1 .. Slots /\ p = PosOf(x, s)
      /\ y \in Blocks /\ t \in 1 .. Slots /\ q = PosOf(y, t)
  BY <1>1, PosInverse
<1>3. x \in Int /\ y \in Int /\ Slots \in Nat /\ s \in 1 .. Slots /\ t \in 1 .. Slots
  BY <1>2, Numbers
<1>4. p = (x - 1) * Slots + s /\ q = (y - 1) * Slots + t
  BY <1>2 DEF PosOf
<1>5. CASE x > y
  <2>1. PICK d \in Nat : x = y + 1 + d
    <3>1. x - y - 1 \in Nat
      BY <1>3, <1>5
    <3>2. x = y + 1 + (x - y - 1)
      BY <1>3
    <3>3. QED
      BY <3>1, <3>2
  <2>2. (x - 1) * Slots = (y - 1) * Slots + Slots + d * Slots
    BY <1>3, <2>1
  <2>3. d * Slots \in Nat /\ (y - 1) * Slots \in Int
    BY <1>3, <2>1
  <2>4. QED
    BY <1>3, <1>4, <2>2, <2>3
<1>6. CASE x = y
  <2>1. (x - 1) * Slots \in Int
    BY <1>3
  <2>2. s < t
    BY <1>3, <1>4, <1>6, <2>1
  <2>3. QED
    BY <1>1, <1>6, <2>2
<1>7. QED
  BY <1>1, <1>3, <1>5, <1>6

(* A kept item and its position.                                           *)
LEMMA KeptFacts ==
  ASSUME Typed, NEW c \in Kept
  PROVE  /\ c \in Found(Blocks) /\ BlockOf(c.at) \in KeptBlocks /\ BlockOf(c.at) \in Blocks /\ c \in In(BlockOf(c.at))
         /\ c.at \in Positions /\ c.at \in Nat /\ c.at # 0 /\ c.at \in Live /\ At(c.at) = c.item
         /\ c.item.key \in Keys /\ c.item.val \in Values /\ c.item.prev \in {0} \cup Positions
         /\ SlotOf(c.at) \in LiveSlots(BlockOf(c.at))
<1>1. c \in Found(KeptBlocks) /\ KeptBlocks \in SUBSET Blocks
  BY KeptIs, KeptBlocksIn
<1>2. /\ BlockOf(c.at) \in KeptBlocks /\ c \in In(BlockOf(c.at)) /\ c.at \in Positions /\ c.at \in Nat /\ c.at # 0
      /\ c.item.key \in Keys /\ c.item.val \in Values /\ c.item.prev \in {0} \cup Positions /\ c.item.state = "live"
  BY <1>1, FoundFacts, Zenon
<1>3. PICK b \in Blocks : b = BlockOf(c.at)
  BY <1>1, <1>2
<1>4. SlotOf(c.at) \in LiveSlots(b) /\ c.item = flash[b].items[SlotOf(c.at)]
  BY <1>2, <1>3, InFacts, Zenon
<1>5. At(c.at) = c.item
  BY <1>3, <1>4 DEF At
<1>6. c.at \in Live
  <2>1. SlotOf(c.at) <= Used(BlockOf(c.at))
    <3>1. SlotOf(c.at) \in 1 .. Used(b) /\ flash[b] \in BlockType /\ Used(b) <= Slots
      BY <1>4 DEF LiveSlots, Typed
    <3>2. Used(b) \in Nat
      BY <3>1 DEF BlockType, Used
    <3>3. QED
      BY <1>3, <3>1, <3>2
  <2>2. QED
    BY <1>2, <1>5, <2>1 DEF Live, Written
<1>7. c \in Found(Blocks)
  BY <1>2, <1>3, FoundIn
<1>8. QED
  BY <1>2, <1>3, <1>4, <1>5, <1>6, <1>7

(* Every live position of a kept block is the position of a kept item.     *)
LEMMA LiveFacts ==
  ASSUME Typed, NEW p \in Live
  PROVE  \E c \in In(BlockOf(p)) : c.at = p /\ c.item = At(p) /\ (BlockOf(p) \in KeptBlocks => c \in Kept)
<1>1. p \in Written /\ At(p).state = "live"
  BY DEF Live
<1>2. PICK b \in Blocks : b = BlockOf(p)
  BY <1>1, WrittenFacts
<1>3. SlotOf(p) \in 1 .. Used(b) /\ p = PosOf(b, SlotOf(p))
  BY <1>1, <1>2, WrittenFacts
<1>4. SlotOf(p) \in LiveSlots(b) /\ At(p) = flash[b].items[SlotOf(p)]
  BY <1>1, <1>2, <1>3 DEF LiveSlots, At
<1>5. PICK c \in In(b) : c.at = PosOf(b, SlotOf(p)) /\ c.item = flash[b].items[SlotOf(p)]
  BY <1>4, InMember, Zenon
<1>6. BlockOf(p) \in KeptBlocks => c \in Kept
  BY <1>2, KeptIs, FoundIn
<1>7. QED
  BY <1>2, <1>3, <1>4, <1>5, <1>6

(* The cursor moves over one item.                                         *)
LEMMA ScanPassed ==
  ASSUME IInv, ScanItem, NEW c \in Kept, ~Passed(c.at), Passed(c.at)'
  PROVE  c.at = PosOf(scan.blk, scan.slot)
<1>1. PICK b, s : b = scan.blk /\ s = scan.slot
  OBVIOUS
<1>2. pc = "scan" /\ b \in Blocks /\ s \in 1 .. Used(b) /\ scan' = [scan EXCEPT !.slot = After(scan.blk, @)]
  BY <1>1 DEF ScanItem
<1>3. Typed /\ scan \in ScanType /\ \A e \in Blocks : Used(e) \in 0 .. Slots /\ e \in Int
  BY <1>2, ScanFacts
<1>4. scan'.blk = b /\ scan'.slot = After(b, s)
  BY <1>1, <1>2, <1>3 DEF ScanType
<1>5. PICK e, t : e \in Blocks /\ t \in LiveSlots(e) /\ e = BlockOf(c.at) /\ t = SlotOf(c.at)
  <2>1. BlockOf(c.at) \in Blocks /\ SlotOf(c.at) \in LiveSlots(BlockOf(c.at))
    BY <1>3, KeptFacts
  <2>2. QED
    BY <2>1
<1>6. s \in Nat /\ s # 0 /\ t \in 1 .. Used(e) /\ flash[e].items[t].state = "live"
  BY <1>2, <1>3, <1>5 DEF LiveSlots
<1>7. e = b /\ t < After(b, s) /\ ~(t < s)
  BY <1>1, <1>3, <1>4, <1>5, <1>6 DEF Passed
<1>8. After(b, s) \in s + 1 .. Used(b) + 1 /\ \A u \in s + 1 .. After(b, s) - 1 : flash[b].items[u].state = "rest"
  <2>1. Used(b) \in Nat
    BY <1>2, <1>3
  <2>2. QED
    BY <1>2, <2>1, AfterFacts
<1>9. t = s
  <2>1. t \in Int /\ After(b, s) \in Int /\ s \in Int
    BY <1>2, <1>3, <1>6, <1>8
  <2>2. t \notin s + 1 .. After(b, s) - 1
    BY <1>6, <1>7, <1>8
  <2>3. QED
    BY <1>7, <2>1, <2>2
<1>10. c.at = PosOf(BlockOf(c.at), SlotOf(c.at))
  BY <1>3, KeptFacts, PosInverse
<1>11. QED
  BY <1>1, <1>5, <1>7, <1>9, <1>10

(* The item of the cursor, as kv_item_do_recovery sees it.                 *)
LEMMA Cursor ==
  ASSUME IInv, ScanItem
  PROVE  LET p == PosOf(scan.blk, scan.slot) IN
         /\ Typed /\ Mendable /\ pc = "scan" /\ pc' = "scan" /\ UNCHANGED op /\ RecoverItem
         /\ p \in Written /\ BlockOf(p) \in KeptBlocks /\ BlockOf(p) \in Blocks \ (SrcBlocks \cup DstBlocks)
         /\ scan.slot # 0 /\ BlockOf(p) = scan.blk /\ SlotOf(p) = scan.slot
<1>1. PICK b, s : b = scan.blk /\ s = scan.slot
  OBVIOUS
<1>2. pc = "scan" /\ pc' = "scan" /\ b \in Blocks /\ s \in 1 .. Used(b) /\ UNCHANGED op /\ RecoverItem
  BY <1>1 DEF ScanItem
<1>3. Typed /\ Mendable /\ ScanInv /\ \A e \in Blocks : Used(e) \in 0 .. Slots
  BY <1>2, ScanFacts
<1>4. PosOf(b, s) \in Written /\ BlockOf(PosOf(b, s)) = b /\ SlotOf(PosOf(b, s)) = s
  BY <1>2, <1>3, SlotWritten
<1>5. s # 0
  BY <1>2, <1>3
<1>6. b \in Blocks \ (SrcBlocks \cup DstBlocks)
  BY <1>1, <1>2, <1>3, <1>5 DEF ScanInv
<1>7. b \in KeptBlocks
  BY <1>6 DEF KeptBlocks
<1>8. QED
  BY <1>1, <1>2, <1>3, <1>4, <1>5, <1>6, <1>7

LEMMA ScanQuiet ==
  ASSUME IInv, Copied, ScanItem,
         \A b \in Blocks : In(b)' = In(b), SrcBlocks' = SrcBlocks, DstBlocks' = DstBlocks,
         LET p == PosOf(scan.blk, scan.slot) IN At(p).state # "live" \/ ~IsUpdateOf(p, At(p).prev)
  PROVE  Copied' /\ Replaces' /\ Store' = Store
<1>1. PICK p : p = PosOf(scan.blk, scan.slot)
  OBVIOUS
<1>2. Typed /\ pc = "scan" /\ pc' = "scan"
  BY Cursor
<1>3. /\ Kept' = Kept /\ Found(DstBlocks)' = Found(DstBlocks) /\ Found(SrcBlocks)' = Found(SrcBlocks)
      /\ Store' = Store
  BY TagsKept
<1>4. BootCopies'
  BY <1>2, <1>3, BootKept
<1>5. ASSUME NEW c \in Kept, NEW d \in Kept, c # d, SameKey(c, d), c.item.prev = d.at, ~Passed(c.at)
      PROVE  ~Passed(c.at)'
  <2>1. SUFFICES ASSUME Passed(c.at)' PROVE FALSE
    OBVIOUS
  <2>2. c.at = p
    BY <1>1, <1>5, <2>1, ScanPassed
  <2>3. At(p) = c.item /\ p \in Live /\ At(d.at) = d.item /\ d.at \in Live
    BY <1>2, <2>2, KeptFacts
  <2>4. p # d.at
    BY <1>2, <1>5, <2>2, SameAt, KeptFacts
  <2>5. IsUpdateOf(p, At(p).prev) /\ At(p).state = "live"
    BY <1>5, <2>3, <2>4 DEF IsUpdateOf, Copies, SameKey, Live
  <2>6. QED
    BY <1>1, <2>5
<1>6. ScanCopies'
  BY <1>2, <1>3, <1>5, ScanMoves
<1>7. ~InCall' /\ ~Updating'
  BY <1>2 DEF InCall, GcSteps, Updating
<1>8. QED
  BY <1>2, <1>3, <1>4, <1>6, <1>7, NotInCall DEF Copied

(* The item a boot discards is one of two copies, and the one that does    *)
(* not count.                                                              *)
LEMMA ScanUpdate ==
  ASSUME IInv, Copied, ScanItem, NEW p, p = PosOf(scan.blk, scan.slot),
         At(p).state = "live", NEW q, q = At(p).prev, IsUpdateOf(p, q)
  PROVE  \E c, d \in Kept :
           /\ c.at = p /\ d.at = q /\ c # d /\ SameKey(c, d) /\ c.item.prev = d.at
           /\ SrcBlocks = {} /\ Pair(Kept, c, d) /\ Overrules(c, d)
<1>1. /\ Typed /\ Mendable /\ pc = "scan" /\ p \in Written /\ BlockOf(p) \in KeptBlocks
      /\ BlockOf(p) \in Blocks \ (SrcBlocks \cup DstBlocks)
      /\ scan.slot # 0 /\ BlockOf(p) = scan.blk /\ SlotOf(p) = scan.slot
  BY Cursor
<1>2. BootCopies /\ ScanCopies
  BY <1>1 DEF Copied
<1>3. p \in Live /\ q \in Live /\ p # q /\ At(q).key = At(p).key
  BY <1>1 DEF Live, IsUpdateOf, Copies
<1>4. PICK c \in Kept : c.at = p /\ c.item = At(p)
  BY <1>1, <1>3, LiveFacts
<1>5. PICK d \in In(BlockOf(q)) : d.at = q /\ d.item = At(q) /\ (BlockOf(q) \in KeptBlocks => d \in Kept)
  BY <1>1, <1>3, LiveFacts
<1>6. c # d /\ SameKey(c, d) /\ c.item.prev = d.at
  BY <1>3, <1>4, <1>5 DEF SameKey
<1>7. d \in Kept
  <2>1. SUFFICES ASSUME BlockOf(q) \notin KeptBlocks PROVE FALSE
    BY <1>5
  <2>2. BlockOf(q) \in DstBlocks /\ SrcBlocks # {}
    <3>1. BlockOf(q) \in Blocks
      BY <1>1, <1>3, WrittenFacts DEF Live
    <3>2. QED
      BY <2>1, <3>1 DEF KeptBlocks
  <2>3. d \in Found(DstBlocks)
    BY <1>5, <2>2, FoundIn
  <2>4. PICK e \in Found(SrcBlocks) : e.item = d.item
    BY <1>2, <2>3 DEF BootCopies
  <2>5. BlockOf(e.at) \in SrcBlocks /\ e \in In(BlockOf(e.at))
    <3>1. SrcBlocks \in SUBSET Blocks
      BY DEF SrcBlocks
    <3>2. QED
      BY <1>1, <2>4, <3>1, FoundFacts, Zenon
  <2>6. BlockOf(e.at) \in KeptBlocks
    BY <1>1, <2>5 DEF KeptBlocks, Mendable, SrcBlocks
  <2>7. e \in Kept
    BY <2>5, <2>6, KeptIs, FoundIn
  <2>8. c # e
    BY <1>1, <1>4, <2>5
  <2>9. SameKey(c, e)
    BY <1>6, <2>4 DEF SameKey
  <2>10. QED
    BY <1>2, <1>4, <2>2, <2>7, <2>8, <2>9 DEF BootCopies
<1>8. SrcBlocks = {} /\ Pair(Kept, c, d)
  BY <1>2, <1>4, <1>6, <1>7 DEF BootCopies
<1>9. ~(d.item.prev = c.at /\ d.at < c.at)
  <2>1. SUFFICES ASSUME d.item.prev = c.at, d.at < c.at PROVE FALSE
    OBVIOUS
  <2>2. ~Passed(d.at)
    BY <1>2, <1>4, <1>6, <1>7, <2>1 DEF ScanCopies, SameKey
  <2>3. c.at \in Positions /\ d.at \in Positions
    BY <1>1, <1>4, <1>7, KeptFacts
  <2>4. BlockOf(d.at) < BlockOf(c.at) \/ (BlockOf(d.at) = BlockOf(c.at) /\ SlotOf(d.at) < SlotOf(c.at))
    BY <2>1, <2>3, PosOrder
  <2>5. QED
    BY <1>1, <1>4, <2>2, <2>4 DEF Passed
<1>10. Overrules(c, d)
  BY <1>6, <1>9 DEF Overrules
<1>11. QED
  BY <1>4, <1>5, <1>6, <1>7, <1>8, <1>10

(* Only the copies of a key count for it.                                  *)
LEMMA StoredOther ==
  ASSUME NEW F, NEW G, NEW k, \A c \in F : c.item.key = k => c \in G, \A c \in G : c.item.key = k => c \in F
  PROVE  StoredIn(F, k) = StoredIn(G, k)
<1> DEFINE Of(H) == {c \in H : c.item.key = k}
           Value(S) == LET lasting == {c \in S : \A d \in S : ~Overrules(d, c)}
                       IN  IF lasting = {} THEN NoValue
                           ELSE (CHOOSE c \in lasting : \A d \in lasting : c.at <= d.at).item.val
<1>1. Of(F) = Of(G)
  OBVIOUS
<1>2. StoredIn(F, k) = Value(Of(F)) /\ StoredIn(G, k) = Value(Of(G))
  BY Zenon DEF StoredIn
<1> HIDE DEF Of, Value
<1>3. QED
  BY <1>1, <1>2

LEMMA KeptNat ==
  ASSUME Typed
  PROVE  /\ \A c \in Kept : c.at \in Nat
         /\ \A c, d \in Kept : c.at = d.at => c = d
<1>1. \A c \in Kept : c.at \in Nat
  BY KeptFacts
<1>2. \A c, d \in Kept : c.at = d.at => c = d
  <2>1. \A c \in Kept : c \in Found(Blocks)
    BY KeptFacts
  <2>2. QED
    BY <2>1, SameAt
<1>3. QED
  BY <1>1, <1>2

LEMMA DropOverruled ==
  ASSUME Typed, NEW c \in Kept, NEW d \in Kept, c # d, SameKey(c, d), Overrules(c, d),
         \A e \in Kept : SameKey(c, e) => e \in {c, d}, Kept' = {e \in Kept : e.at # d.at}
  PROVE  Store' = Store
<1>1. PICK F, G : F = Kept /\ G = Kept'
  OBVIOUS
<1>2. (\A e \in F : e.at \in Nat) /\ c.at # d.at
  BY <1>1, KeptNat
<1>3. SUFFICES ASSUME NEW k \in Keys PROVE StoredIn(G, k) = StoredIn(F, k)
  BY <1>1, StoreSame
<1>4. CASE k = c.item.key
  <2>1. \A e \in F : SameKey(e, c) => e \in {c, d}
    BY <1>1 DEF SameKey
  <2>2. StoredIn(F, c.item.key) = c.item.val
    BY <1>1, <1>2, <2>1, StoredPair
  <2>3. c \in G /\ \A e \in G : SameKey(e, c) => e = c
    BY <1>1, <1>2, <2>1
  <2>4. \A e \in G : e.at \in Nat
    BY <1>1, <1>2
  <2>5. StoredIn(G, c.item.key) = c.item.val
    BY <2>3, <2>4, StoredSingle
  <2>6. QED
    BY <1>4, <2>2, <2>5
<1>5. CASE k # c.item.key
  <2>1. \A e \in F : e.item.key = k => e \in G
    <3>1. SUFFICES ASSUME NEW e \in F, e.item.key = k PROVE e.at # d.at
      BY <1>1
    <3>2. e # d
      BY <1>5, <3>1 DEF SameKey
    <3>3. QED
      BY <1>1, <3>2, KeptNat
  <2>2. \A e \in G : e.item.key = k => e \in F
    BY <1>1
  <2>3. QED
    BY <2>1, <2>2, StoredOther
<1>6. QED
  BY <1>4, <1>5

LEMMA ScanItemAtomic ==
  ASSUME IInv, Copied, ScanItem
  PROVE  Copied' /\ Replaces' /\ Store' = Store
<1>1. PICK p : p = PosOf(scan.blk, scan.slot)
  OBVIOUS
<1>2. PICK q : q = At(p).prev
  OBVIOUS
<1>3. Typed /\ Mendable /\ p \in Written /\ pc = "scan" /\ pc' = "scan" /\ RecoverItem
  BY <1>1, Cursor
<1>4. CASE At(p).state \in {"torn", "partial"}
  <2>1. flash' = Discard(p)
    BY <1>1, <1>3, <1>4 DEF RecoverItem
  <2>2. (\A b \in Blocks : In(b)' = In(b)) /\ SrcBlocks' = SrcBlocks /\ DstBlocks' = DstBlocks
    BY <1>3, <1>4, <2>1, DiscardKept
  <2>3. QED
    BY <1>1, <1>4, <2>2, ScanQuiet
<1>5. CASE UNCHANGED flash /\ (At(p).state # "live" \/ ~IsUpdateOf(p, q))
  <2>1. (\A b \in Blocks : In(b)' = In(b)) /\ SrcBlocks' = SrcBlocks /\ DstBlocks' = DstBlocks
    BY <1>5, FlashKept
  <2>2. QED
    BY <1>1, <1>2, <1>5, <2>1, ScanQuiet
<1>6. CASE At(p).state = "live" /\ IsUpdateOf(p, q) /\ flash' = Discard(q)
  <2>1. PICK c, d \in Kept :
           /\ c.at = p /\ d.at = q /\ c # d /\ SameKey(c, d) /\ c.item.prev = d.at
           /\ SrcBlocks = {} /\ Pair(Kept, c, d) /\ Overrules(c, d)
    BY <1>1, <1>2, <1>6, ScanUpdate
  <2>2. q \in Written
    BY <1>6 DEF IsUpdateOf, Copies, Live
  <2>3. SrcBlocks' = {} /\ DstBlocks' = DstBlocks /\ Kept' = {e \in Kept : e.at # d.at}
    BY <1>3, <1>6, <2>1, <2>2, DiscardKept
  <2>4. DstBlocks = {}
    BY <1>3, <2>1 DEF Mendable
  <2>5. Store' = Store
    BY <1>3, <2>1, <2>3, DropOverruled DEF Pair
  <2>6. BootCopies
    BY <1>3 DEF Copied
  <2>7. BootCopies'
    <3>1. \A e \in Found(DstBlocks)' : FALSE
      BY <2>3, <2>4 DEF Found
    <3>2. ASSUME NEW e \in Kept', NEW f \in Kept', e # f, SameKey(e, f)
          PROVE  SrcBlocks' = {} /\ Pair(Kept', e, f)
      <4>1. e \in Kept /\ f \in Kept
        BY <2>3
      <4>2. Pair(Kept, e, f)
        BY <2>6, <3>2, <4>1 DEF BootCopies
      <4>3. Pair(Kept', e, f)
        BY <2>3, <4>2 DEF Pair
      <4>4. QED
        BY <2>3, <4>3
    <3>3. QED
      BY <3>1, <3>2 DEF BootCopies, SameKey, Pair
  <2>8. ASSUME NEW e \in Kept', NEW f \in Kept', e # f, SameKey(e, f), e.item.prev = f.at, Passed(e.at)'
        PROVE  FALSE
    <3>1. e \in Kept /\ f \in Kept /\ e.at # d.at /\ f.at # d.at
      BY <2>3, <2>8
    <3>2. ~Passed(e.at)
      BY <1>3, <2>8, <3>1 DEF Copied, ScanCopies
    <3>3. e.at = p
      BY <1>1, <2>8, <3>1, <3>2, ScanPassed
    <3>4. e = c
      BY <1>3, <2>1, <3>1, <3>3, KeptNat
    <3>5. f \in {c, d}
      BY <2>1, <2>8, <3>1, <3>4 DEF Pair, SameKey
    <3>6. QED
      BY <2>8, <3>1, <3>4, <3>5
  <2>9. ScanCopies'
    BY <2>8 DEF ScanCopies, SameKey
  <2>10. ~InCall' /\ ~Updating'
    BY <1>3 DEF InCall, GcSteps, Updating
  <2>11. QED
    BY <1>3, <2>5, <2>7, <2>9, <2>10, NotInCall DEF Copied
<1>7. QED
  <2>1. \/ At(p).state \in {"torn", "partial"}
        \/ UNCHANGED flash /\ (At(p).state # "live" \/ ~IsUpdateOf(p, q))
        \/ At(p).state = "live" /\ IsUpdateOf(p, q) /\ flash' = Discard(q)
    BY <1>1, <1>2, <1>3 DEF RecoverItem
  <2>2. QED
    BY <1>4, <1>5, <1>6, <2>1

LEMMA ScanBlockEndAtomic ==
  ASSUME IInv, Copied, ScanBlockEnd
  PROVE  Copied' /\ Replaces' /\ Store' = Store
<1>1. PICK b : b = scan.blk
  OBVIOUS
<1>2. pc = "scan" /\ pc' = "scan" /\ b \in Blocks /\ scan.slot > Used(b) /\ UNCHANGED <<flash, op>>
  BY <1>1 DEF ScanBlockEnd
<1>3. Typed /\ scan \in ScanType /\ \A c \in Blocks : Used(c) \in 0 .. Slots /\ c \in Int
  BY <1>2, ScanFacts
<1>4. scan'.blk = b + 1 /\ scan'.slot = 0
  <2>1. PICK f : f = IF Used(scan.blk) = 0 THEN scan.blk ELSE scan.fresh
    OBVIOUS
  <2>2. f \in {0} \cup Blocks
    BY <1>1, <1>2, <1>3, <2>1 DEF ScanType
  <2>3. scan' = NextBlock([scan EXCEPT !.fresh = f])
    BY <2>1 DEF ScanBlockEnd
  <2>4. QED
    BY <1>1, <1>2, <1>3, <2>2, <2>3, NextBlockFresh
<1>5. /\ Kept' = Kept /\ Found(DstBlocks)' = Found(DstBlocks) /\ Found(SrcBlocks)' = Found(SrcBlocks)
      /\ SrcBlocks' = SrcBlocks /\ Store' = Store
  BY <1>2, FlashKept
<1>6. BootCopies'
  BY <1>2, <1>5, BootKept
<1>7. ASSUME NEW c \in Kept, ~Passed(c.at)
      PROVE  ~Passed(c.at)'
  <2>1. PICK e, t : e = BlockOf(c.at) /\ t = SlotOf(c.at)
    OBVIOUS
  <2>2. e \in Blocks /\ t \in LiveSlots(e)
    BY <1>3, <2>1, KeptFacts
  <2>3. t \in 1 .. Used(e) /\ Used(e) \in Nat /\ e \in Int /\ b \in Int /\ scan.slot \in Int
    BY <1>2, <1>3, <2>2 DEF LiveSlots, ScanType
  <2>4. ~(e < b) /\ (e = b => scan.slot = 0 \/ ~(t < scan.slot))
    BY <1>1, <1>7, <2>1 DEF Passed
  <2>5. e # b
    BY <1>2, <2>3, <2>4
  <2>6. QED
    BY <1>4, <2>1, <2>3, <2>4, <2>5 DEF Passed
<1>8. ScanCopies'
  BY <1>2, <1>5, <1>7, ScanMoves
<1>9. ~InCall' /\ ~Updating'
  BY <1>2 DEF InCall, GcSteps, Updating
<1>10. QED
  BY <1>2, <1>5, <1>6, <1>8, <1>9, NotInCall DEF Copied

(* A boot that has looked at every item has left one copy of each.         *)
LEMMA ScannedSingle ==
  ASSUME IInv, Copied, pc = "scan", scan.blk = NumBlocks + 1
  PROVE  Single(Kept)
<1>1. BootCopies /\ ScanCopies /\ Typed
  BY ScanFacts DEF Copied
<1>2. ASSUME NEW c \in Kept PROVE Passed(c.at)
  <2>1. BlockOf(c.at) \in Blocks
    BY <1>1, KeptFacts
  <2>2. BlockOf(c.at) < NumBlocks + 1
    BY <2>1, Numbers DEF Blocks
  <2>3. QED
    BY <2>2 DEF Passed
<1>3. SUFFICES ASSUME NEW c \in Kept, NEW d \in Kept, SameKey(c, d), c # d PROVE FALSE
  BY DEF Single
<1>4. c.item.prev = d.at \/ d.item.prev = c.at
  BY <1>1, <1>3 DEF BootCopies, Pair
<1>5. SameKey(d, c)
  BY <1>3 DEF SameKey
<1>6. QED
  BY <1>1, <1>2, <1>3, <1>4, <1>5 DEF ScanCopies

LEMMA KeptSingle ==
  ASSUME Single(Kept), Kept' = Kept
  PROVE  Single(Kept)'
BY DEF Single

LEMMA HandleIncompleteGcAtomic ==
  ASSUME IInv, Copied, HandleIncompleteGc
  PROVE  Copied' /\ Replaces' /\ Store' = Store
<1>1. /\ pc = "scan" /\ UNCHANGED op /\ pc' \in {"locate", "markDst", "formatDst"}
      /\ (pc' = "markDst" => gc'.for = "init")
      /\ \/ UNCHANGED flash
         \/ /\ SrcBlocks = {FirstOf(scan.srcs)} /\ FirstOf(scan.srcs) \in Blocks
            /\ DstBlocks = {FirstOf(scan.dsts)} /\ FirstOf(scan.dsts) \in Blocks
            /\ flash' = [flash EXCEPT ![FirstOf(scan.dsts)] = Erased]
  BY ScanEnded, StartedGc
<1>2. scan.blk = NumBlocks + 1 /\ Typed /\ flash \in [Blocks -> BlockType] /\ Mendable
  BY <1>1, ScanFacts DEF HandleIncompleteGc
<1>3. Single(Kept)
  BY <1>1, <1>2, ScannedSingle
<1>4. ~InCall' /\ ~Updating' /\ pc' \notin {"off", "scan", "copy"}
  BY <1>1 DEF InCall, GcSteps, Updating
<1>5. Kept' = Kept
  <2>1. CASE UNCHANGED flash
    BY <2>1, FlashKept
  <2>2. CASE /\ SrcBlocks = {FirstOf(scan.srcs)} /\ FirstOf(scan.srcs) \in Blocks
             /\ DstBlocks = {FirstOf(scan.dsts)} /\ FirstOf(scan.dsts) \in Blocks
             /\ flash' = [flash EXCEPT ![FirstOf(scan.dsts)] = Erased]
    <3>1. PICK a, d : a = FirstOf(scan.srcs) /\ d = FirstOf(scan.dsts)
      OBVIOUS
    <3>2. a \in Blocks /\ d \in Blocks /\ SrcBlocks = {a} /\ DstBlocks = {d} /\ a # d
      BY <1>2, <2>2, <3>1 DEF Mendable
    <3>3. flash'[d] = Erased /\ \A c \in Blocks \ {d} : flash'[c] = flash[c]
      BY <1>2, <2>2, <3>1, <3>2, BlockFacts, ErasedType
    <3>4. DstBlocks' = {}
      <4>1. ~IsDstNotDone(d)'
        BY <3>3 DEF IsDstNotDone, Erased
      <4>2. \A c \in Blocks \ {d} : ~IsDstNotDone(c)'
        BY <3>2, <3>3 DEF DstBlocks, IsDstNotDone
      <4>3. QED
        BY <4>1, <4>2 DEF DstBlocks
    <3>5. KeptBlocks = Blocks \ {d}
      BY <3>2 DEF KeptBlocks
    <3>6. Kept' = Found(Blocks)'
      BY <3>4, KeptAll
    <3>7. \A c \in Blocks \ {d} : In(c)' = In(c)
      BY <3>3, InOfItems
    <3>8. In(d)' = {}
      BY <3>3, ErasedType DEF In, LiveSlots, Used
    <3>9. Found(Blocks)' = UNION {In(b)' : b \in Blocks}
      BY DEF Found
    <3>10. Kept = UNION {In(b) : b \in Blocks \ {d}}
      BY <3>5, KeptIs DEF Found
    <3>11. QED
      BY <3>6, <3>7, <3>8, <3>9, <3>10
  <2>3. QED
    BY <1>1, <2>1, <2>2
<1>6. QED
  BY <1>3, <1>4, <1>5, KeptSame, KeptSingle, NotInCall DEF Copied

(* A step that changes no item and serves no call, or goes on with one     *)
(* before it writes.                                                       *)
QuietPcs == {"formatDst", "locate", "rescued", "idle", "search", "fix", "writeHeader", "writeMagic", "writeBody",
             "markSrc", "markDst", "formatSrc", "markDone"}

LEMMA QuietStep ==
  ASSUME AtomicInv, Kept' = Kept, op' = op, pc \in QuietPcs, pc' \in QuietPcs, InCall' => InCall,
         pc' \in {"writeHeader", "writeMagic", "writeBody"} => pc \in {"writeHeader", "writeMagic", "writeBody"},
         pc' \in {"search", "fix"} \cup GcSteps => pc \in {"search", "fix"} \cup GcSteps \/ ~InCall'
  PROVE  Copied' /\ Replaces' /\ Store' = Store
<1>1. Store' = Store
  BY KeptSame
<1>2. Copied /\ Replaces
  BY DEF AtomicInv
<1>3. pc # "discard" /\ pc' # "discard" /\ ~Updating /\ ~Updating'
  BY DEF QuietPcs, Updating
<1>4. pc \notin {"off", "scan", "copy"} /\ pc' \notin {"off", "scan", "copy"}
  BY DEF QuietPcs
<1>5. Copied'
  BY <1>2, <1>3, <1>4, StillSingle
<1>6. Replaces'
  <2>1. CASE ~InCall'
    BY <2>1, NotInCall
  <2>2. CASE InCall'
    BY <1>1, <1>2, <1>3, <2>2, StillReplaces
  <2>3. QED
    BY <2>1, <2>2
<1>7. QED
  BY <1>1, <1>5, <1>6

LEMMA RescueGcAtomic ==
  ASSUME IInv, AtomicInv, RescueGc
  PROVE  Copied' /\ Replaces' /\ Store' = Store
<1>1. pc = "locate" /\ pc' = "markSrc" /\ UNCHANGED <<flash, op>> /\ gc'.for # "search"
  BY DEF RescueGc, StartGc, NoGc
<1>2. ~InCall'
  BY <1>1 DEF InCall
<1>3. Kept' = Kept
  BY <1>1, FlashKept
<1>4. QED
  BY <1>1, <1>2, <1>3, QuietStep DEF QuietPcs, GcSteps

LEMMA LocateWorkspaceAtomic ==
  ASSUME IInv, AtomicInv, LocateWorkspace
  PROVE  Copied' /\ Replaces' /\ Store' = Store
<1>1. pc \in {"locate", "rescued"} /\ pc' = "idle" /\ UNCHANGED <<flash, op>>
  BY DEF LocateWorkspace
<1>2. ~InCall'
  BY <1>1 DEF InCall, GcSteps
<1>3. Kept' = Kept
  BY <1>1, FlashKept
<1>4. QED
  BY <1>1, <1>2, <1>3, QuietStep DEF QuietPcs, GcSteps

(* A step that writes no item, and tags that leave out no block.           *)
LEMMA TagsOnly ==
  ASSUME \A b \in Blocks : In(b)' = In(b),
         SrcBlocks = {} \/ DstBlocks = {}, SrcBlocks' = {} \/ DstBlocks' = {}
  PROVE  Kept' = Kept
<1>1. Kept = Found(Blocks) /\ Kept' = Found(Blocks)'
  BY KeptAll
<1>2. Found(Blocks)' = UNION {In(b)' : b \in Blocks} /\ Found(Blocks) = UNION {In(b) : b \in Blocks}
  BY DEF Found
<1>3. QED
  BY <1>1, <1>2

LEMMA FormatKept ==
  ASSUME Typed, NEW b \in Blocks, flash[b] = Erased, flash' = [flash EXCEPT ![b] = Formatted]
  PROVE  /\ \A c \in Blocks : In(c)' = In(c)
         /\ SrcBlocks' = SrcBlocks /\ DstBlocks' = DstBlocks
<1>1. flash'[b] = Formatted /\ \A c \in Blocks \ {b} : flash'[c] = flash[c]
  BY BlockFacts, ErasedType DEF Typed
<1>2. \A c \in Blocks : flash'[c].items = flash[c].items /\ flash'[c].src = flash[c].src
        /\ flash'[c].dst = flash[c].dst /\ flash'[c].done = flash[c].done
  <2>1. /\ Formatted.items = Erased.items /\ Formatted.src = Erased.src
        /\ Formatted.dst = Erased.dst /\ Formatted.done = Erased.done
    BY DEF Erased, Formatted
  <2>2. QED
    BY <1>1, <2>1
<1>3. QED
  BY <1>2, InOfItems DEF SrcBlocks, DstBlocks, IsSrc, IsDstNotDone

LEMMA FormatDstAtomic ==
  ASSUME IInv, AtomicInv, FormatDst
  PROVE  Copied' /\ Replaces' /\ Store' = Store
<1>1. pc = "formatDst" /\ pc' = "markDst" /\ UNCHANGED <<op, gc>> /\ flash' = [flash EXCEPT ![gc.dst] = Formatted]
  BY DEF FormatDst
<1>2. flash[gc.dst] = Erased /\ gc.for = "init" /\ gc.dst \in Blocks /\ Typed
  BY <1>1 DEF IInv, GcInv
<1>3. Kept' = Kept
  BY <1>1, <1>2, FormatKept, TagsKept
<1>4. ~InCall'
  BY <1>1, <1>2 DEF InCall
<1>5. QED
  BY <1>1, <1>3, <1>4, QuietStep DEF QuietPcs, GcSteps

LEMMA FormatSrcAtomic ==
  ASSUME IInv, AtomicInv, FormatSrc
  PROVE  Copied' /\ Replaces' /\ Store' = Store
<1>1. pc = "formatSrc" /\ pc' = "markDone" /\ UNCHANGED <<op, gc>> /\ flash' = [flash EXCEPT ![gc.src] = Formatted]
  BY DEF FormatSrc
<1>2. flash[gc.src] = Erased /\ gc.src \in Blocks /\ Typed
  BY <1>1 DEF IInv, GcInv, GcSteps
<1>3. Kept' = Kept
  BY <1>1, <1>2, FormatKept, TagsKept
<1>4. InCall' => InCall
  BY <1>1 DEF InCall, GcSteps
<1>5. QED
  BY <1>1, <1>3, <1>4, QuietStep DEF QuietPcs, GcSteps

(* One tag of one block is written.                                        *)
LEMMA TagWritten ==
  ASSUME Typed, NEW b \in Blocks, NEW x \in BlockType, x.items = flash[b].items, flash' = [flash EXCEPT ![b] = x]
  PROVE  /\ \A c \in Blocks : In(c)' = In(c)
         /\ flash'[b] = x /\ \A c \in Blocks \ {b} : flash'[c] = flash[c]
<1>1. flash'[b] = x /\ \A c \in Blocks \ {b} : flash'[c] = flash[c]
  BY BlockFacts DEF Typed
<1>2. \A c \in Blocks : flash'[c].items = flash[c].items
  BY <1>1
<1>3. QED
  BY <1>1, <1>2, InOfItems

LEMMA MarkSrcAtomic ==
  ASSUME IInv, AtomicInv, MarkSrc
  PROVE  Copied' /\ Replaces' /\ Store' = Store
<1>1. pc = "markSrc" /\ pc' = "markDst" /\ UNCHANGED <<op, gc>> /\ flash' = [flash EXCEPT ![gc.src].src = TRUE]
  BY DEF MarkSrc
<1>2. Typed /\ gc.src \in Blocks /\ TagsInv
  BY <1>1, GcBlocks DEF GcSteps
<1>3. PICK x : x = [flash[gc.src] EXCEPT !.src = TRUE]
  OBVIOUS
<1>4. flash[gc.src] \in BlockType
  BY <1>2 DEF Typed
<1>5. x \in BlockType /\ x.items = flash[gc.src].items /\ x.dst = flash[gc.src].dst /\ x.done = flash[gc.src].done
  BY <1>3, <1>4, TagFacts
<1>6. flash' = [flash EXCEPT ![gc.src] = x]
  BY <1>1, <1>3
<1>7. (\A c \in Blocks : In(c)' = In(c)) /\ flash'[gc.src] = x /\ \A c \in Blocks \ {gc.src} : flash'[c] = flash[c]
  BY <1>2, <1>5, <1>6, TagWritten
<1>8. DstBlocks = {} /\ DstBlocks' = DstBlocks
  <2>1. DstBlocks = {}
    BY <1>1, <1>2 DEF TagsInv
  <2>2. \A c \in Blocks : flash'[c].dst = flash[c].dst /\ flash'[c].done = flash[c].done
    BY <1>5, <1>7
  <2>3. QED
    BY <2>1, <2>2 DEF DstBlocks, IsDstNotDone
<1>9. Kept' = Kept
  BY <1>7, <1>8, TagsOnly
<1>10. InCall' => InCall
  BY <1>1 DEF InCall, GcSteps
<1>11. QED
  BY <1>1, <1>9, <1>10, QuietStep DEF QuietPcs, GcSteps

LEMMA MarkDoneAtomic ==
  ASSUME IInv, AtomicInv, MarkDone
  PROVE  Copied' /\ Replaces' /\ Store' = Store
<1>1. /\ pc = "markDone" /\ UNCHANGED op /\ gc' = NoGc /\ flash' = [flash EXCEPT ![gc.dst].done = TRUE]
      /\ pc' = CASE gc.for = "search" -> "search" [] gc.for = "locate" -> "rescued" [] gc.for = "init" -> "locate"
  BY DEF MarkDone, GcEnds
<1>2. Typed /\ gc.dst \in Blocks /\ TagsInv /\ gc.for \in {"search", "locate", "init"}
  BY <1>1, GcBlocks DEF GcSteps
<1>3. PICK x : x = [flash[gc.dst] EXCEPT !.done = TRUE]
  OBVIOUS
<1>4. flash[gc.dst] \in BlockType
  BY <1>2 DEF Typed
<1>5. x \in BlockType /\ x.items = flash[gc.dst].items /\ x.src = flash[gc.dst].src
  BY <1>3, <1>4, TagFacts
<1>6. flash' = [flash EXCEPT ![gc.dst] = x]
  BY <1>1, <1>3
<1>7. (\A c \in Blocks : In(c)' = In(c)) /\ flash'[gc.dst] = x /\ \A c \in Blocks \ {gc.dst} : flash'[c] = flash[c]
  BY <1>2, <1>5, <1>6, TagWritten
<1>8. SrcBlocks = {} /\ SrcBlocks' = SrcBlocks
  <2>1. SrcBlocks = {}
    BY <1>1, <1>2 DEF TagsInv
  <2>2. \A c \in Blocks : flash'[c].src = flash[c].src
    BY <1>5, <1>7
  <2>3. QED
    BY <2>1, <2>2 DEF SrcBlocks, IsSrc
<1>9. Kept' = Kept
  BY <1>7, <1>8, TagsOnly
<1>10. pc' \in {"search", "rescued", "locate"} /\ (pc' = "search" => gc.for = "search")
  BY <1>1, <1>2
<1>11. InCall' => InCall
  BY <1>1, <1>10 DEF InCall, GcSteps
<1>12. QED
  BY <1>1, <1>9, <1>10, <1>11, QuietStep DEF QuietPcs, GcSteps

(* While a collection copies, the blocks but its destination decide what   *)
(* is stored, whether or not the destination still has an old gc_done tag. *)
Copying == Typed /\ GcCopies /\ DstBlocks \subseteq {gc.dst} /\ gc.dst \in Blocks /\ gc.src \in Others

OthersDecide == \A k : StoredIn(Kept, k) = StoredIn(Found(Others), k)

LEMMA CopyingStore ==
  /\ Copying => OthersDecide
  /\ Copying' => OthersDecide'
<1>1. Copying => OthersDecide
  <2>1. SUFFICES ASSUME Copying PROVE OthersDecide
    OBVIOUS
  <2>2. Kept = Found(Blocks) \/ Kept = Found(Others)
    <3>1. KeptBlocks = Blocks \/ KeptBlocks = Others
      <4>1. DstBlocks = {} \/ DstBlocks = {gc.dst}
        BY <2>1 DEF Copying
      <4>2. QED
        BY <4>1 DEF KeptBlocks, Others
    <3>2. QED
      BY <3>1, KeptIs
  <2>3. \A k : StoredIn(Found(Blocks), k) = StoredIn(Found(Others), k)
    BY <2>1, GcFaithful DEF Copying
  <2>4. QED
    BY <2>2, <2>3 DEF OthersDecide
<1>2. (Copying => OthersDecide)'
  BY <1>1, PTL
<1>3. QED
  BY <1>1, <1>2

LEMMA MarkDstAtomic ==
  ASSUME IInv, AtomicInv, MarkDst
  PROVE  Copied' /\ Replaces' /\ Store' = Store
<1>1. pc = "markDst" /\ pc' = "copy" /\ UNCHANGED <<op, gc>> /\ flash' = [flash EXCEPT ![gc.dst].dst = TRUE]
  BY DEF MarkDst
<1>2. Typed /\ gc.dst \in Blocks /\ gc.src \in Blocks /\ gc.src # gc.dst /\ TagsInv /\ GcInv
  BY <1>1, GcBlocks DEF GcSteps
<1>3. PICK x, b : x = [flash[gc.dst] EXCEPT !.dst = TRUE] /\ b = gc.dst
  OBVIOUS
<1>4. flash[b] \in BlockType
  BY <1>2, <1>3 DEF Typed
<1>5. x \in BlockType /\ x.items = flash[b].items /\ x.src = flash[b].src
  BY <1>3, <1>4, TagFacts
<1>6. flash' = [flash EXCEPT ![b] = x]
  BY <1>1, <1>3
<1>7. (\A c \in Blocks : In(c)' = In(c)) /\ flash'[b] = x /\ \A c \in Blocks \ {b} : flash'[c] = flash[c]
  <2>1. b \in Blocks
    BY <1>2, <1>3
  <2>2. QED
    BY <1>2, <1>5, <1>6, <2>1, TagWritten
<1>8. DstBlocks = {} /\ DstBlocks' \subseteq {b}
  <2>1. DstBlocks = {}
    BY <1>1, <1>2 DEF TagsInv
  <2>2. \A c \in Blocks \ {b} : flash'[c].dst = flash[c].dst /\ flash'[c].done = flash[c].done
    BY <1>7
  <2>3. QED
    BY <2>1, <2>2 DEF DstBlocks, IsDstNotDone
<1>9. In(b) = {} /\ In(b)' = {}
  <2>1. Used(b) = 0
    BY <1>1, <1>2, <1>3 DEF GcInv
  <2>2. In(b) = {}
    BY <2>1 DEF In, LiveSlots
  <2>3. QED
    BY <1>2, <1>3, <1>7, <2>2
<1>10. Kept = Found(Blocks) /\ Found(Blocks) = Found(Others)
  <2>1. Kept = Found(Blocks)
    BY <1>8, KeptAll
  <2>2. QED
    BY <1>3, <1>9, <2>1 DEF Found, Others
<1>11. Found(Others)' = Found(Others) /\ Others' = Others
  <2>1. Others' = Others /\ Others \subseteq Blocks
    BY <1>1 DEF Others, Blocks
  <2>2. Found(Others)' = UNION {In(c)' : c \in Others} /\ Found(Others) = UNION {In(c) : c \in Others}
    BY <2>1 DEF Found
  <2>3. QED
    BY <1>7, <2>1, <2>2
<1>12. Kept' = Kept
  <2>1. Kept' = UNION {In(c)' : c \in KeptBlocks'} /\ KeptBlocks' \subseteq Blocks /\ Others \subseteq KeptBlocks'
    BY <1>3, <1>8, KeptIs DEF Found, KeptBlocks, Others, Blocks
  <2>2. Kept' \subseteq UNION {In(c) : c \in Blocks} /\ UNION {In(c) : c \in Others} \subseteq Kept'
    <3>1. Others \subseteq Blocks
      BY DEF Others
    <3>2. QED
      BY <1>7, <2>1, <3>1
  <2>3. Kept = UNION {In(c) : c \in Blocks} /\ Kept = UNION {In(c) : c \in Others}
    BY <1>10 DEF Found
  <2>4. QED
    BY <2>2, <2>3
<1>13. Single(Kept)
  BY <1>1 DEF AtomicInv, Copied, Updating
<1>14. GcCopies'
  <2>1. Single(Found(Others))'
    BY <1>10, <1>11, <1>13 DEF Single
  <2>2. In(gc.dst)' = {}
    BY <1>1, <1>3, <1>9
  <2>3. Single(In(gc.dst))'
    BY <2>2 DEF Single
  <2>4. QED
    BY <2>1, <2>2, <2>3 DEF GcCopies
<1>15. Store' = Store
  BY <1>12, KeptSame
<1>16. Replaces'
  <2>1. InCall' => InCall
    BY <1>1 DEF InCall, GcSteps
  <2>2. CASE ~InCall'
    BY <2>2, NotInCall
  <2>3. CASE InCall
    BY <1>1, <1>12, <1>15, <2>3, StillReplaces DEF AtomicInv, GcSteps
  <2>4. QED
    BY <2>1, <2>2, <2>3
<1>17. QED
  BY <1>1, <1>14, <1>15, <1>16 DEF Copied, Updating

(* The live items of the destination: those that were there, and the one   *)
(* that is copied.                                                         *)
LEMMA CopyItemFacts ==
  ASSUME IInv, CopyItem
  PROVE  /\ pc = "copy" /\ pc' = "copy" /\ UNCHANGED op /\ Typed /\ TagsInv
         /\ gc.src \in Blocks /\ gc.dst \in Blocks /\ gc.src # gc.dst
         /\ gc'.src = gc.src /\ gc'.dst = gc.dst /\ gc'.next > gc.next /\ gc.next \in 1 .. Used(gc.src)
         /\ \A c \in Blocks \ {gc.dst} : flash'[c] = flash[c]
         /\ \A c \in Blocks : SameTags(flash'[c], flash[c])
         /\ \A c \in In(gc.dst)' :
              \/ c \in In(gc.dst)
              \/ /\ flash[gc.src].items[gc.next].state = "live"
                 /\ c = [at |-> PosOf(gc.dst, Used(gc.dst) + 1), item |-> flash[gc.src].items[gc.next]]
<1>1. pc = "copy" /\ pc' = "copy" /\ UNCHANGED op /\ gc.next <= Used(gc.src)
  BY DEF CopyItem
<1>2. Typed /\ TagsInv /\ gc.src \in Blocks /\ gc.dst \in Blocks /\ gc.src # gc.dst
  BY <1>1, GcBlocks DEF GcSteps
<1>3. PICK a, b, n : a = gc.src /\ b = gc.dst /\ n = gc.next
  OBVIOUS
<1>4. PICK u, e : u = Units(a, n) /\ e = After(a, n)
  OBVIOUS
<1>5. /\ flash \in [Blocks -> BlockType] /\ a \in Blocks /\ b \in Blocks /\ a # b
      /\ flash[b].items \in Seq(Item) /\ Used(a) \in Nat /\ Used(b) \in Nat /\ n \in 1 .. Used(a)
      /\ gc \in GcType
  <2>1. flash \in [Blocks -> BlockType] /\ gc \in GcType /\ flash[gc.src] \in BlockType /\ flash[gc.dst] \in BlockType
    BY <1>2 DEF Typed
  <2>2. flash[b].items \in Seq(Item) /\ Used(a) \in Nat /\ Used(b) \in Nat
    BY <1>3, <2>1 DEF BlockType, Used
  <2>3. n \in 1 .. Slots + 1
    BY <1>3, <2>1 DEF GcType
  <2>4. QED
    BY <1>1, <1>2, <1>3, <2>1, <2>2, <2>3, Numbers
<1>6. /\ u \in Seq(Item) /\ e \in n + 1 .. Used(a) + 1
      /\ \A i \in 2 .. Len(u) : u[i].state = "rest"
      /\ Head(u) = flash[a].items[n] /\ Len(u) = e - n
  BY <1>4, <1>5, UnitsFacts
<1>7. gc' = [gc EXCEPT !.next = e]
  BY <1>3, <1>4, Zenon DEF CopyItem
<1>8. gc'.src = gc.src /\ gc'.dst = gc.dst /\ gc'.next > gc.next
  BY <1>3, <1>5, <1>6, <1>7 DEF GcType
<1>9. IF Head(u).state = "discarded" THEN flash' = flash
      ELSE flash' = [flash EXCEPT ![b].items = flash[b].items \o u]
  BY <1>3, <1>4, Zenon DEF CopyItem
<1>10. CASE flash' = flash
  <2>1. In(b)' = In(b)
    BY <1>5, <1>10, InOfItems
  <2>2. \A c \in Blocks : SameTags(flash'[c], flash[c])
    BY <1>10 DEF SameTags
  <2>3. QED
    BY <1>1, <1>2, <1>3, <1>5, <1>8, <1>10, <2>1, <2>2
<1>11. CASE flash' = [flash EXCEPT ![b].items = flash[b].items \o u]
  <2>1. PICK x, q : x = flash[b].items /\ q = x \o u
    OBVIOUS
  <2>2. /\ q \in Seq(Item) /\ Len(q) = Len(x) + Len(u)
        /\ \A i \in 1 .. Len(x) : q[i] = x[i]
        /\ \A i \in Len(x) + 1 .. Len(x) + Len(u) : q[i] = u[i - Len(x)] /\ i - Len(x) \in 1 .. Len(u)
    <3>1. x \in Seq(Item) /\ u \in Seq(Item)
      BY <1>5, <1>6, <2>1
    <3>2. /\ x \o u \in Seq(Item) /\ Len(x \o u) = Len(x) + Len(u)
          /\ \A i \in 1 .. Len(x) : (x \o u)[i] = x[i]
          /\ \A i \in Len(x) + 1 .. Len(x) + Len(u) : (x \o u)[i] = u[i - Len(x)] /\ i - Len(x) \in 1 .. Len(u)
      BY <3>1, Joined, Zenon
    <3>3. QED
      BY <2>1, <3>2, Zenon
  <2>3. /\ \A c \in Blocks \ {b} : flash'[c] = flash[c]
        /\ SameTags(flash'[b], flash[b]) /\ flash'[b].items = q
    <3>1. flash' = [flash EXCEPT ![b].items = q]
      BY <1>11, <2>1, Zenon
    <3>2. q \in Seq(Item)
      BY <2>2
    <3>3. QED
      BY <1>5, <3>1, <3>2, ItemsFacts
  <2>4. \A c \in Blocks : SameTags(flash'[c], flash[c])
    BY <2>3 DEF SameTags
  <2>5. ASSUME NEW c \in In(b)'
        PROVE  \/ c \in In(b)
               \/ /\ flash[a].items[n].state = "live"
                  /\ c = [at |-> PosOf(b, Used(b) + 1), item |-> flash[a].items[n]]
    <3>1. In(b)' = {[at |-> PosOf(b, s), item |-> flash'[b].items[s]] : s \in LiveSlots(b)'}
      BY DEF In, PosOf
    <3>2. PICK s \in LiveSlots(b)' : c = [at |-> PosOf(b, s), item |-> q[s]]
      BY <2>3, <2>5, <3>1
    <3>3. s \in 1 .. Len(q) /\ q[s].state = "live"
      BY <2>3 DEF LiveSlots, Used
    <3>4. Len(x) = Used(b) /\ Len(x) \in Nat /\ Len(u) \in Nat /\ Len(u) >= 1 /\ u[1] = flash[a].items[n]
      <4>1. Len(x) = Used(b)
        BY <2>1 DEF Used
      <4>2. Len(u) \in Nat /\ Len(u) >= 1
        BY <1>5, <1>6
      <4>3. Head(u) = u[1]
        BY <1>6, <4>2
      <4>4. QED
        BY <1>5, <1>6, <4>1, <4>2, <4>3
    <3>5. CASE s <= Len(x)
      <4>1. s \in 1 .. Used(b) /\ q[s] = flash[b].items[s]
        BY <2>1, <2>2, <3>3, <3>4, <3>5
      <4>2. s \in LiveSlots(b)
        BY <3>3, <4>1 DEF LiveSlots
      <4>3. QED
        BY <3>2, <4>1, <4>2 DEF In
    <3>6. CASE s > Len(x)
      <4>1. s \in Len(x) + 1 .. Len(x) + Len(u)
        BY <2>2, <3>3, <3>4, <3>6
      <4>2. PICK i : i = s - Len(x)
        OBVIOUS
      <4>3. q[s] = u[i] /\ i \in 1 .. Len(u)
        BY <2>2, <4>1, <4>2
      <4>4. i \notin 2 .. Len(u)
        BY <1>6, <3>3, <4>3
      <4>5. i = 1
        BY <3>4, <4>3, <4>4
      <4>6. s = Used(b) + 1
        BY <3>3, <3>4, <4>1, <4>2, <4>5
      <4>7. QED
        BY <3>2, <3>3, <3>4, <4>3, <4>5, <4>6
    <3>7. QED
      BY <3>3, <3>4, <3>5, <3>6
  <2>6. QED
    BY <1>1, <1>2, <1>3, <1>5, <1>8, <2>3, <2>4, <2>5
<1>12. QED
  BY <1>9, <1>10, <1>11

LEMMA CopyItemAtomic ==
  ASSUME IInv, AtomicInv, CopyItem
  PROVE  Copied' /\ Replaces' /\ Store' = Store
<1>1. /\ pc = "copy" /\ pc' = "copy" /\ UNCHANGED op /\ Typed /\ TagsInv
      /\ gc.src \in Blocks /\ gc.dst \in Blocks /\ gc.src # gc.dst
      /\ gc'.src = gc.src /\ gc'.dst = gc.dst /\ gc'.next > gc.next /\ gc.next \in 1 .. Used(gc.src)
      /\ \A c \in Blocks \ {gc.dst} : flash'[c] = flash[c]
      /\ \A c \in Blocks : SameTags(flash'[c], flash[c])
      /\ \A c \in In(gc.dst)' :
              \/ c \in In(gc.dst)
              \/ /\ flash[gc.src].items[gc.next].state = "live"
                 /\ c = [at |-> PosOf(gc.dst, Used(gc.dst) + 1), item |-> flash[gc.src].items[gc.next]]
  BY CopyItemFacts
<1>2. PICK a, b, n : a = gc.src /\ b = gc.dst /\ n = gc.next
  OBVIOUS
<1>3. /\ a \in Blocks /\ b \in Blocks /\ a # b /\ n \in 1 .. Used(a) /\ n \in Int /\ gc'.next \in Int
      /\ gc'.src = a /\ gc'.dst = b /\ gc'.next > n
  <2>1. gc.next \in Int /\ gc'.next \in Int
    <3>1. Typed'
      BY CopyItemKeeps DEF IInv
    <3>2. QED
      BY <1>1, <3>1, Numbers DEF Typed, GcType
  <2>2. QED
    BY <1>1, <1>2, <2>1
<1>4. GcCopies
  BY <1>1 DEF AtomicInv, Copied
<1>5. SrcBlocks' = SrcBlocks /\ DstBlocks' = DstBlocks /\ DstBlocks \subseteq {b}
  BY <1>1, <1>2, TagsSame DEF TagsInv
<1>6. /\ Others = Blocks \ {b} /\ Others' = Others /\ a \in Others
      /\ \A c \in Others : In(c)' = In(c)
      /\ Found(Others)' = Found(Others)
  <2>1. Others = Blocks \ {b} /\ Others' = Others
    BY <1>1, <1>2 DEF Others, Blocks
  <2>2. \A c \in Others : In(c)' = In(c)
    BY <1>1, <1>2, <2>1, InOfItems
  <2>3. Found(Others)' = UNION {In(c)' : c \in Others} /\ Found(Others) = UNION {In(c) : c \in Others}
    BY <2>1 DEF Found
  <2>4. Found(Others)' = Found(Others)
    BY <2>2, <2>3
  <2>5. a \in Others
    BY <1>3, <2>1
  <2>6. QED
    BY <2>1, <2>2, <2>4, <2>5
<1>7. PICK h : h = [at |-> PosOf(a, n), item |-> flash[a].items[n]]
  OBVIOUS
<1>8. PICK w : w = [at |-> PosOf(b, Used(b) + 1), item |-> flash[a].items[n]]
  OBVIOUS
<1>9. \A c \in In(b)' : c \in In(b) \/ (c = w /\ flash[a].items[n].state = "live")
  BY <1>1, <1>2, <1>8
<1>10. \A c \in In(b) : \E d \in In(a) : d.item = c.item /\ SlotOf(d.at) < n
  BY <1>2, <1>4 DEF GcCopies
<1>11. ASSUME flash[a].items[n].state = "live"
       PROVE  h \in In(a) /\ h.item = w.item /\ SlotOf(h.at) = n
  <2>1. n \in LiveSlots(a)
    BY <1>3, <1>11 DEF LiveSlots
  <2>2. h \in In(a)
    BY <1>7, <2>1 DEF In
  <2>3. SlotOf(PosOf(a, n)) = n
    BY <1>1, <1>3, SlotWritten
  <2>4. QED
    BY <1>7, <1>8, <2>2, <2>3
<1>12. \A c \in In(b)' : \E d \in In(a) : d.item = c.item /\ SlotOf(d.at) < gc'.next
  <2>1. SUFFICES ASSUME NEW c \in In(b)' PROVE \E d \in In(a) : d.item = c.item /\ SlotOf(d.at) < gc'.next
    OBVIOUS
  <2>2. CASE c \in In(b)
    <3>1. PICK d \in In(a) : d.item = c.item /\ SlotOf(d.at) < n
      BY <1>10, <2>2
    <3>2. SlotOf(d.at) \in LiveSlots(a)
      BY <1>1, <1>3, InFacts, Zenon
    <3>3. SlotOf(d.at) \in Int
      <4>1. Used(a) \in Int
        BY <1>1, <1>3, SlotWritten, WrittenFacts
      <4>2. QED
        BY <3>2, <4>1 DEF LiveSlots
    <3>4. QED
      BY <1>3, <3>1, <3>3
  <2>3. CASE c = w /\ flash[a].items[n].state = "live"
    BY <1>3, <1>11, <2>3
  <2>4. QED
    BY <1>9, <2>1, <2>2, <2>3
<1>13. ASSUME NEW c \in In(b), flash[a].items[n].state = "live"
       PROVE  ~SameKey(c, w)
  <2>1. PICK d \in In(a) : d.item = c.item /\ SlotOf(d.at) < n
    BY <1>10
  <2>2. d \in Found(Others) /\ h \in Found(Others) /\ h.item = w.item /\ SlotOf(h.at) = n
    BY <1>6, <1>11, <1>13, FoundIn
  <2>3. SUFFICES ASSUME SameKey(c, w) PROVE FALSE
    OBVIOUS
  <2>4. SameKey(d, h)
    BY <2>1, <2>2, <2>3 DEF SameKey
  <2>5. d = h
    BY <1>4, <2>2, <2>4 DEF GcCopies, Single
  <2>6. QED
    BY <1>3, <2>1, <2>2, <2>5
<1>14. \A c, d \in In(b)' : SameKey(c, d) => c = d
  <2>1. \A c, d \in In(b) : SameKey(c, d) => c = d
    BY <1>2, <1>4 DEF GcCopies, Single
  <2>2. QED
    BY <1>9, <1>13, <2>1 DEF SameKey
<1>15. GcCopies'
  <2>1. \A c, d \in Found(Others)' : SameKey(c, d) => c = d
    BY <1>4, <1>6 DEF GcCopies, Single
  <2>2. In(a)' = In(a)
    BY <1>6
  <2>3. Single(Found(Others))'
    BY <2>1 DEF Single, SameKey
  <2>4. In(gc.dst)' = In(b)' /\ In(gc.src)' = In(a)'
    BY <1>3
  <2>5. Single(In(gc.dst))'
    BY <1>14, <2>4 DEF Single, SameKey
  <2>6. \A c \in In(gc.dst)' : \E d \in In(gc.src)' : d.item = c.item /\ SlotOf(d.at) < gc'.next
    BY <1>12, <2>2, <2>4
  <2>7. QED
    BY <2>3, <2>5, <2>6 DEF GcCopies, SlotOf
<1>16. Store' = Store
  <2>1. Copying
    BY <1>1, <1>2, <1>4, <1>5, <1>6 DEF Copying
  <2>2. Typed'
    BY CopyItemKeeps DEF IInv
  <2>3. Copying'
    BY <1>3, <1>5, <1>6, <1>15, <2>2 DEF Copying, Blocks
  <2>4. \A k : StoredIn(Kept, k) = StoredIn(Found(Others), k)
    BY <2>1, CopyingStore DEF OthersDecide
  <2>5. \A k : StoredIn(Kept', k) = StoredIn(Found(Others)', k)
    BY <2>3, CopyingStore DEF OthersDecide, StoredIn, Overrules
  <2>6. QED
    BY <1>6, <2>4, <2>5, StoreSame
<1>17. Replaces'
  <2>1. InCall' <=> InCall
    <3>1. gc'.for = gc.for
      BY <1>1 DEF CopyItem, Typed, GcType
    <3>2. QED
      BY <1>1, <3>1 DEF InCall
  <2>2. CASE ~InCall'
    BY <2>2, NotInCall
  <2>3. CASE InCall
    BY <1>1, <1>16, <2>1, <2>3 DEF AtomicInv, Replaces, GcSteps
  <2>4. QED
    BY <2>1, <2>2, <2>3
<1>18. QED
  BY <1>1, <1>15, <1>16, <1>17 DEF Copied, Updating

(* The source of a collection may go: each of its live items has a copy.   *)
LEMMA SourceCopied ==
  ASSUME Typed, GcCopies, CopiedSoFar, gc.next > Used(gc.src), gc.next \in Int,
         gc.src \in Blocks, gc.dst \in Blocks, gc.src # gc.dst
  PROVE  /\ Single(Found(Blocks \ {gc.src}))
         /\ \A k : StoredIn(Found(Blocks \ {gc.src}), k) = StoredIn(Found(Others), k)
<1> DEFINE F == Found(Others)
           G == Found(Blocks \ {gc.src})
<1>1. PICK a, b : a = gc.src /\ b = gc.dst
  OBVIOUS
<1>2. a \in Blocks /\ b \in Blocks /\ a # b /\ Others = Blocks \ {b} /\ a \in Others /\ gc.src = a
  BY <1>1 DEF Others
<1>3. /\ \A c, d \in F : SameKey(c, d) => c = d
      /\ \A c, d \in In(b) : SameKey(c, d) => c = d
      /\ \A c \in In(b) : \E d \in In(a) : d.item = c.item
  BY <1>1 DEF GcCopies, Single
<1>4. \A c \in In(a) : c \in F
  BY <1>2, FoundIn
<1>5. \A c \in G : c \in In(b) \/ (c \in F /\ c \notin In(a))
  <2>1. SUFFICES ASSUME NEW c \in G, c \notin In(b) PROVE c \in F /\ c \notin In(a)
    OBVIOUS
  <2>2. PICK e \in Blocks \ {a} : c \in In(e)
    BY <1>2, <2>1 DEF Found
  <2>3. e # b
    BY <2>1, <2>2
  <2>4. c \in F
    BY <1>2, <2>2, <2>3, FoundIn
  <2>5. BlockOf(c.at) = e
    BY <2>2, InFacts, Zenon
  <2>6. c \notin In(a)
    <3>1. SUFFICES ASSUME c \in In(a) PROVE FALSE
      OBVIOUS
    <3>2. BlockOf(c.at) = a
      BY <1>2, <3>1, InFacts, Zenon
    <3>3. QED
      BY <2>2, <2>5, <3>2
  <2>7. QED
    BY <2>4, <2>6
<1>6. \A c \in In(b) : c \in G
  BY <1>2, FoundIn
<1>7. \A c \in F : c \in In(a) \/ c \in G
  <2>1. SUFFICES ASSUME NEW c \in F, c \notin In(a) PROVE c \in G
    OBVIOUS
  <2>2. PICK e \in Others : c \in In(e)
    BY <2>1 DEF Found
  <2>3. e \in Blocks \ {a}
    BY <1>2, <2>1, <2>2
  <2>4. QED
    BY <1>2, <2>2, <2>3, FoundIn
<1> HIDE DEF F, G
<1>8. ASSUME NEW c \in In(b), NEW d \in F, d \notin In(a)
      PROVE  ~SameKey(c, d)
  <2>1. PICK e \in In(a) : e.item = c.item
    BY <1>3
  <2>2. QED
    BY <1>3, <1>4, <1>8, <2>1 DEF SameKey
<1>9. Single(G)
  <2>1. SUFFICES ASSUME NEW c \in G, NEW d \in G, SameKey(c, d) PROVE c = d
    BY DEF Single
  <2>2. SameKey(d, c)
    BY <2>1 DEF SameKey
  <2>3. QED
    BY <1>3, <1>5, <1>8, <2>1, <2>2
<1>10. \A c \in In(a) : \E d \in In(b) : d.item = c.item
  <2>1. SUFFICES ASSUME NEW c \in In(a) PROVE \E d \in In(b) : d.item = c.item
    OBVIOUS
  <2>2. PICK s : s = SlotOf(c.at)
    OBVIOUS
  <2>3. s \in LiveSlots(a) /\ c.item = flash[a].items[s]
    BY <1>2, <2>2, InFacts, Zenon
  <2>4. s \in 1 .. Used(a) /\ flash[a].items[s].state = "live"
    BY <2>3 DEF LiveSlots
  <2>5. s < gc.next
    <3>1. Used(a) \in Nat
      BY <1>2, <2>4, SlotWritten, WrittenFacts
    <3>2. QED
      BY <1>1, <2>4, <3>1
  <2>6. PICK t \in 1 .. Used(b) : flash[b].items[t] = flash[a].items[s]
    BY <1>1, <2>4, <2>5 DEF CopiedSoFar
  <2>7. t \in LiveSlots(b)
    BY <2>4, <2>6 DEF LiveSlots
  <2>8. PICK d \in In(b) : d.item = flash[b].items[t]
    BY <1>2, <2>7, InMember, Zenon
  <2>9. QED
    BY <2>3, <2>6, <2>8
<1>11. Faithful(F) /\ Faithful(G)
  <2>1. Single(F)
    BY <1>3 DEF Single
  <2>2. Others \in SUBSET Blocks /\ Blocks \ {gc.src} \in SUBSET Blocks
    BY <1>2
  <2>3. QED
    BY <1>9, <2>1, <2>2, SingleFaithful DEF F, G
<1>12. \A f \in F : \E g \in G : g.item = f.item
  BY <1>6, <1>7, <1>10
<1>13. \A g \in G : \E f \in F : f.item = g.item
  BY <1>3, <1>4, <1>5
<1>14. \A k : StoredIn(G, k) = StoredIn(F, k)
  BY <1>11, <1>12, <1>13, SameStored
<1>15. QED
  BY <1>9, <1>14 DEF F, G

LEMMA EraseSrcAtomic ==
  ASSUME IInv, AtomicInv, EraseSrc
  PROVE  Copied' /\ Replaces' /\ Store' = Store
<1>1. /\ pc = "copy" /\ pc' = "formatSrc" /\ gc.next > Used(gc.src) /\ UNCHANGED <<op, gc>>
      /\ flash' = [flash EXCEPT ![gc.src] = Erased]
  BY DEF EraseSrc
<1>2. /\ Typed /\ TagsInv /\ gc.src \in Blocks /\ gc.dst \in Blocks /\ gc.src # gc.dst
      /\ CopiedSoFar /\ gc.next \in Int
  <2>1. Typed /\ TagsInv /\ GcInv /\ gc.src \in Blocks /\ gc.dst \in Blocks /\ gc.src # gc.dst
    BY <1>1, GcBlocks DEF GcSteps
  <2>2. CopiedSoFar
    BY <1>1, <2>1 DEF GcInv
  <2>3. gc.next \in Int
    BY <2>1, Numbers DEF Typed, GcType
  <2>4. QED
    BY <2>1, <2>2, <2>3
<1>3. GcCopies
  BY <1>1 DEF AtomicInv, Copied
<1>4. PICK a : a = gc.src
  OBVIOUS
<1>5. flash'[a] = Erased /\ \A c \in Blocks \ {a} : flash'[c] = flash[c]
  BY <1>1, <1>2, <1>4, BlockFacts, ErasedType DEF Typed
<1>6. SrcBlocks' = {}
  <2>1. SrcBlocks = {a}
    BY <1>1, <1>2, <1>4 DEF TagsInv
  <2>2. ~IsSrc(a)'
    BY <1>5, ErasedType DEF IsSrc
  <2>3. \A c \in Blocks \ {a} : ~IsSrc(c)'
    BY <1>5, <2>1 DEF SrcBlocks, IsSrc
  <2>4. QED
    BY <2>2, <2>3 DEF SrcBlocks
<1>7. Kept' = Found(Blocks \ {a})
  <2>1. Kept' = Found(Blocks)'
    BY <1>6, KeptAll
  <2>2. \A c \in Blocks \ {a} : In(c)' = In(c)
    BY <1>5, InOfItems
  <2>3. In(a)' = {}
    BY <1>5, ErasedType DEF In, LiveSlots, Used
  <2>4. Found(Blocks)' = UNION {In(c)' : c \in Blocks} /\ Found(Blocks \ {a}) = UNION {In(c) : c \in Blocks \ {a}}
    BY DEF Found
  <2>5. Found(Blocks)' = Found(Blocks \ {a})
    BY <2>2, <2>3, <2>4
  <2>6. QED
    BY <2>1, <2>5
<1>8. Single(Found(Blocks \ {a})) /\ \A k : StoredIn(Found(Blocks \ {a}), k) = StoredIn(Found(Others), k)
  BY <1>1, <1>2, <1>3, <1>4, SourceCopied
<1>9. Copying
  BY <1>1, <1>2, <1>3 DEF Copying, TagsInv, Others
<1>10. \A k : StoredIn(Kept, k) = StoredIn(Found(Others), k)
  BY <1>9, CopyingStore DEF OthersDecide
<1>11. Store' = Store
  BY <1>7, <1>8, <1>10, StoreSame
<1>12. Single(Kept)'
  BY <1>7, <1>8 DEF Single, SameKey
<1>13. Replaces'
  <2>1. InCall' <=> InCall
    BY <1>1 DEF InCall, GcSteps
  <2>2. CASE ~InCall'
    BY <2>1, <2>2, NotInCall
  <2>3. CASE InCall
    BY <1>1, <1>11, <2>1, <2>3 DEF AtomicInv, Replaces, GcSteps
  <2>4. QED
    BY <2>1, <2>2, <2>3
<1>14. QED
  BY <1>1, <1>11, <1>12, <1>13 DEF Copied, Updating

-----------------------------------------------------------------------------
(* The calls.  When the block table describes the flash, what is found by  *)
(* it is what is kept.                                                     *)
LEMMA FoundByTable ==
  ASSUME IInv, pc \in {"idle", "fix"}, NEW k
  PROVE  /\ Find(k) = 0 <=> \A c \in Kept : c.item.key # k
         /\ Find(k) # 0 => \E c \in Kept : c.at = Find(k) /\ c.item = At(Find(k)) /\ c.item.key = k /\ c.item.state = "live"
<1>1. Typed /\ TableInv /\ TagsInv
  BY DEF IInv
<1>2. KeptBlocks = Blocks
  <2>1. SrcBlocks = {}
    BY <1>1 DEF TagsInv
  <2>2. QED
    BY <2>1, KeptAll
<1>3. Copies(k) \in SUBSET Positions /\ \A p \in Copies(k) : p \in Live /\ p \in Written /\ At(p).key = k
  BY DEF Copies, Live, Written
<1>4. PICK p : p = Find(k)
  OBVIOUS
<1>5. /\ p # 0 => p \in Copies(k)
      /\ p = 0 => \A q \in Copies(k) : mgr.blk[BlockOf(q)].fresh
  BY <1>3, <1>4, FindFacts DEF Find
<1>6. Copies(k) # {} => p # 0
  <2>1. SUFFICES ASSUME NEW q \in Copies(k), p = 0 PROVE FALSE
    OBVIOUS
  <2>2. PICK b : b = BlockOf(q)
    OBVIOUS
  <2>3. b \in Blocks /\ Used(b) \in 1 .. Slots /\ mgr.blk[b].fresh
    BY <1>1, <1>3, <1>5, <2>1, <2>2, WrittenFacts
  <2>4. EntryOK(b) /\ ~Filling(b)
    <3>1. Unlisted = {}
      BY DEF Unlisted
    <3>2. QED
      BY <1>1, <2>3, <3>1 DEF TableInv, Filling, WriteSteps
  <2>5. Used(b) = 0
    BY <2>3, <2>4 DEF EntryOK
  <2>6. QED
    BY <2>3, <2>5, Numbers
<1>7. ASSUME NEW c \in Kept, c.item.key = k PROVE c.at \in Copies(k)
  <2>1. c.at \in Live /\ At(c.at) = c.item
    BY <1>1, KeptFacts
  <2>2. QED
    BY <1>7, <2>1 DEF Copies
<1>8. ASSUME p # 0
      PROVE  \E c \in Kept : c.at = p /\ c.item = At(p) /\ c.item.key = k /\ c.item.state = "live"
  <2>1. p \in Live /\ At(p).key = k /\ At(p).state = "live" /\ BlockOf(p) \in Blocks
    BY <1>1, <1>3, <1>5, <1>8, WrittenFacts DEF Live
  <2>2. PICK c \in In(BlockOf(p)) : c.at = p /\ c.item = At(p) /\ (BlockOf(p) \in KeptBlocks => c \in Kept)
    BY <1>1, <2>1, LiveFacts
  <2>3. QED
    BY <1>2, <2>1, <2>2
<1>9. QED
  BY <1>4, <1>6, <1>7, <1>8

(* One copy of each key: the store is what a get finds.                    *)
LEMMA StoreByTable ==
  ASSUME IInv, Single(Kept), pc \in {"idle", "fix"}, NEW k \in Keys
  PROVE  /\ Store[k] = IF Find(k) = 0 THEN NoValue ELSE At(Find(k)).val
         /\ Find(k) = 0 <=> Store[k] = NoValue
<1>1. Typed /\ Kept = Found(KeptBlocks) /\ KeptBlocks \in SUBSET Blocks
  BY KeptIs, KeptBlocksIn DEF IInv
<1>2. Faithful(Kept)
  BY <1>1, SingleFaithful
<1>3. /\ StoredIn(Kept, k) = NoValue <=> \A c \in Kept : c.item.key # k
      /\ \A c \in Kept : c.item.key = k => StoredIn(Kept, k) = c.item.val
  BY <1>1, <1>2, FaithfulStores
<1>4. Store[k] = StoredIn(Kept, k)
  BY StoreOf
<1>5. QED
  BY <1>3, <1>4, FoundByTable

LEMMA LookUpAtomic ==
  ASSUME IInv, AtomicInv, NEW k \in Keys, LookUp(k)
  PROVE  Copied' /\ Replaces' /\ Store' = Store
<1>1. pc = "idle" /\ pc' = "idle" /\ UNCHANGED <<flash, op>>
  BY DEF LookUp
<1>2. ~InCall'
  BY <1>1 DEF InCall, GcSteps
<1>3. Kept' = Kept
  BY <1>1, FlashKept
<1>4. QED
  BY <1>1, <1>2, <1>3, QuietStep DEF QuietPcs, GcSteps

(* The beginning of a call that has something to do.                       *)
LEMMA BeginSetAtomic ==
  ASSUME IInv, AtomicInv, NEW k \in Keys, NEW v \in Values, BeginSet(k, v)
  PROVE  /\ Copied' /\ Replaces' /\ Store' = Store
         /\ op = NoOp /\ op' # NoOp /\ op'.key = k /\ op'.val = v /\ result' = "none"
<1>1. PICK p, it : p = Find(k) /\ it = IF p = 0 THEN NoOp.item ELSE At(p)
  OBVIOUS
<1>2. /\ pc = "idle" /\ pc' = "search" /\ UNCHANGED flash /\ result' = "none"
      /\ op' = [key |-> k, val |-> v, pos |-> p, item |-> it]
      /\ p # 0 => At(p).val # v
  BY <1>1 DEF BeginSet, BeginOp
<1>3. op'.key = k /\ op'.val = v /\ op'.pos = p /\ op'.item = it
  BY <1>2
<1>4. Kept' = Kept /\ Store' = Store
  BY <1>2, FlashKept
<1>5. Single(Kept)
  BY <1>2 DEF AtomicInv, Copied, Updating
<1>6. Copied'
  <2>1. Single(Kept)'
    BY <1>4, <1>5, KeptSingle
  <2>2. QED
    BY <1>2, <2>1 DEF Copied, Updating
<1>7. v # NoValue
  BY KvAssumption DEF KvAssumption
<1>8. Store[k] # v /\ (p = 0 <=> Store[k] = NoValue)
  BY <1>1, <1>2, <1>5, <1>7, StoreByTable
<1>9. p # 0 => it.key = k /\ it.state = "live"
  BY <1>1, <1>2, FoundByTable
<1>10. Replaces'
  BY <1>2, <1>3, <1>4, <1>8, <1>9 DEF Replaces
<1>11. op = NoOp /\ op' # NoOp
  <2>1. op = NoOp
    BY <1>2 DEF IInv, OpInv, InCall, GcSteps
  <2>2. op'.val # NoOp.val
    BY <1>3, <1>7 DEF NoOp
  <2>3. QED
    BY <2>1, <2>2
<1>12. QED
  BY <1>2, <1>3, <1>4, <1>6, <1>10, <1>11

LEMMA BeginDelAtomic ==
  ASSUME IInv, AtomicInv, NEW k \in Keys, BeginDel(k)
  PROVE  /\ Copied' /\ Replaces' /\ Store' = Store
         /\ op = NoOp /\ op' # NoOp /\ op'.key = k /\ op'.val = NoValue /\ result' = "none"
<1>1. PICK p, it : p = Find(k) /\ it = IF p = 0 THEN NoOp.item ELSE At(p)
  OBVIOUS
<1>2. /\ pc = "idle" /\ pc' = "discard" /\ UNCHANGED flash /\ result' = "none"
      /\ op' = [key |-> k, val |-> NoValue, pos |-> p, item |-> it]
      /\ p # 0
  BY <1>1 DEF BeginDel, BeginOp
<1>3. op'.key = k /\ op'.val = NoValue /\ op'.pos = p
  BY <1>2
<1>4. Kept' = Kept /\ Store' = Store
  BY <1>2, FlashKept
<1>5. Single(Kept)
  BY <1>2 DEF AtomicInv, Copied, Updating
<1>6. Copied'
  <2>1. Single(Kept)'
    BY <1>4, <1>5, KeptSingle
  <2>2. QED
    BY <1>2, <1>3, <2>1 DEF Copied, Updating
<1>7. \E c \in Kept' : c.at = op'.pos /\ c.item.key = op'.key
  BY <1>1, <1>2, <1>3, <1>4, FoundByTable
<1>8. Replaces'
  BY <1>2, <1>3, <1>7 DEF Replaces, GcSteps
<1>9. op = NoOp /\ op' # NoOp
  <2>1. op = NoOp
    BY <1>2 DEF IInv, OpInv, InCall, GcSteps
  <2>2. op'.pos # NoOp.pos
    BY <1>2, <1>3 DEF NoOp
  <2>3. QED
    BY <2>1, <2>2
<1>10. QED
  BY <1>2, <1>3, <1>4, <1>6, <1>8, <1>9

LEMMA SearchFailsAtomic ==
  ASSUME IInv, AtomicInv, SearchFails
  PROVE  Copied' /\ Replaces' /\ Store' = Store /\ op.key \in Keys /\ Store[op.key] # op.val
<1>1. pc = "search" /\ pc' = "idle" /\ UNCHANGED flash
  BY DEF SearchFails, Return
<1>2. InCall /\ ~InCall'
  BY <1>1 DEF InCall, GcSteps
<1>3. Kept' = Kept /\ Store' = Store
  BY <1>1, FlashKept
<1>4. Copied'
  BY <1>1, <1>3, StillSingle DEF AtomicInv, Updating
<1>5. QED
  BY <1>1, <1>2, <1>3, <1>4, NotInCall DEF AtomicInv, Replaces

LEMMA SearchAtomic ==
  ASSUME IInv, AtomicInv, UseWorkspace \/ UseInuse \/ UseFresh \/ Collect
  PROVE  Copied' /\ Replaces' /\ Store' = Store /\ UNCHANGED <<op, result>>
<1>1. pc = "search" /\ pc' \in {"fix", "markSrc"} /\ UNCHANGED <<flash, op, result>>
  BY DEF UseWorkspace, UseInuse, UseFresh, Collect, UseBlock, StartGc, Searching, NoneInuse
<1>2. InCall
  BY <1>1 DEF InCall
<1>3. Kept' = Kept
  BY <1>1, FlashKept
<1>4. QED
  BY <1>1, <1>2, <1>3, QuietStep DEF QuietPcs, GcSteps

(* Wherever the item that is replaced was moved to, kv_item_fix finds a    *)
(* copy of the same key.                                                   *)
LEMMA FixPrevAtomic ==
  ASSUME IInv, AtomicInv, FixPrev
  PROVE  /\ Copied' /\ Replaces' /\ Store' = Store
         /\ UNCHANGED result /\ op'.key = op.key /\ op'.val = op.val /\ op'.val \in Values
<1>1. pc = "fix" /\ UNCHANGED flash /\ InCall
  BY DEF FixPrev, InCall
<1>2. Typed /\ OpInv /\ TagsInv /\ op.val \in Values
  BY <1>1 DEF IInv, OpInv
<1>3. /\ pc' = "writeHeader" /\ UNCHANGED result
      /\ \/ ~Moved /\ op' = op
         \/ Moved /\ op' = [op EXCEPT !.pos = NewCopy]
  <2>1. Moved => NewCopy # 0
    <3>1. SUFFICES ASSUME Moved PROVE NewCopy # 0
      OBVIOUS
    <3>2. NewCopy \in Written
      BY <1>1, <1>2, <3>1, NewCopyExists DEF Moved
    <3>3. QED
      BY <1>2, <3>2, WrittenFacts
  <2>2. QED
    BY <2>1 DEF FixPrev
<1>4. Kept' = Kept /\ Store' = Store
  BY <1>1, FlashKept
<1>5. Copied'
  BY <1>1, <1>3, <1>4, StillSingle DEF AtomicInv, Updating
<1>6. KeptBlocks = Blocks
  <2>1. SrcBlocks = {}
    BY <1>1, <1>2 DEF TagsInv
  <2>2. QED
    BY <2>1, KeptAll
<1>7. op.pos # 0 => op.item.key = op.key /\ op.item.state = "live"
  BY <1>1 DEF AtomicInv, Replaces
<1>8. /\ op.key \in Keys /\ op.val \in Values \cup {NoValue}
      /\ Store[op.key] # op.val /\ (op.pos = 0 <=> Store[op.key] = NoValue)
  BY <1>1 DEF AtomicInv, Replaces
<1>9. ASSUME NEW p \in Live, At(p).key = op.key
      PROVE  \E c \in Kept : c.at = p /\ c.item.key = op.key
  <2>1. BlockOf(p) \in Blocks
    BY <1>2, WrittenFacts DEF Live
  <2>2. PICK c \in In(BlockOf(p)) : c.at = p /\ c.item = At(p) /\ (BlockOf(p) \in KeptBlocks => c \in Kept)
    BY <1>2, LiveFacts
  <2>3. QED
    BY <1>6, <1>9, <2>1, <2>2
<1>10. CASE ~Moved /\ op' = op
  <2>1. op.pos # 0 => op.pos \in Live /\ At(op.pos).key = op.key
    BY <1>7, <1>10 DEF Moved, Live
  <2>2. op.pos # 0 => \E c \in Kept : c.at = op.pos /\ c.item.key = op.key
    BY <1>9, <2>1
  <2>3. Replaces'
    BY <1>3, <1>4, <1>8, <1>10, <2>2 DEF Replaces, GcSteps
  <2>4. QED
    BY <1>2, <1>3, <1>4, <1>5, <1>10, <2>3
<1>11. CASE Moved /\ op' = [op EXCEPT !.pos = NewCopy]
  <2>1. op.pos # 0
    BY <1>11 DEF Moved
  <2>2. PICK p : p = NewCopy
    OBVIOUS
  <2>3. p \in Written /\ At(p).state = "live" /\ At(p).key = op.item.key /\ p # 0
    BY <1>1, <1>2, <2>1, <2>2, NewCopyExists, WrittenFacts
  <2>4. p \in Live /\ At(p).key = op.key
    BY <1>7, <2>1, <2>3 DEF Live
  <2>5. \E c \in Kept : c.at = p /\ c.item.key = op.key
    BY <1>9, <2>4
  <2>6. op'.pos = p /\ op'.key = op.key /\ op'.val = op.val
    BY <1>2, <1>11, <2>2 DEF Typed, OpType
  <2>7. Replaces'
    BY <1>3, <1>4, <1>8, <2>1, <2>3, <2>5, <2>6 DEF Replaces, GcSteps
  <2>8. QED
    BY <1>2, <1>3, <1>4, <1>5, <2>6, <2>7
<1>12. QED
  BY <1>3, <1>10, <1>11

(* An item that is not complete is not kept.                               *)
LEMMA LiveKept ==
  ASSUME NEW w \in Blocks, \A c \in Blocks \ {w} : flash'[c] = flash[c], SameTags(flash'[w], flash[w]),
         LiveSlots(w)' = LiveSlots(w), \A s \in LiveSlots(w) : flash'[w].items[s] = flash[w].items[s]
  PROVE  Kept' = Kept
<1>1. In(w)' = In(w)
  BY InSame
<1>2. \A c \in Blocks \ {w} : In(c)' = In(c)
  BY InOfItems
<1>3. \A c \in Blocks : SameTags(flash'[c], flash[c])
  BY DEF SameTags
<1>4. SrcBlocks' = SrcBlocks /\ DstBlocks' = DstBlocks
  BY <1>3, TagsSame
<1>5. QED
  BY <1>1, <1>2, <1>4, TagsKept

LEMMA WriteHeaderAtomic ==
  ASSUME IInv, AtomicInv, WriteHeader
  PROVE  Copied' /\ Replaces' /\ Store' = Store /\ UNCHANGED <<op, result>>
<1>1. /\ Typed /\ pc = "writeHeader" /\ pc' = "writeMagic" /\ UNCHANGED <<op, result>>
      /\ workspace \in Blocks
  BY DEF IInv, WriteHeader, WriteInv
<1>2. PICK w \in Blocks : w = workspace
  BY <1>1
<1>3. PICK old, q : old = flash[w].items /\ q = Append(old, Broken("torn"))
  OBVIOUS
<1>4. old \in Seq(Item) /\ Used(w) = Len(old) /\ Len(old) \in Nat
  <2>1. flash[w] \in BlockType
    BY <1>1 DEF Typed
  <2>2. QED
    BY <1>3, <2>1 DEF BlockType, Used
<1>5. Broken("torn") \in Item /\ Broken("torn").state # "live"
  BY DEF Item, Broken
<1>6. /\ q \in Seq(Item) /\ Len(q) = Len(old) + 1 /\ q[Len(old) + 1] = Broken("torn")
      /\ \A i \in 1 .. Len(old) : q[i] = old[i]
  BY <1>3, <1>4, <1>5
<1>7. flash' = [flash EXCEPT ![w].items = q]
  BY <1>2, <1>3, Zenon DEF WriteHeader
<1>8. /\ \A c \in Blocks \ {w} : flash'[c] = flash[c]
      /\ SameTags(flash'[w], flash[w]) /\ flash'[w].items = q
  BY <1>1, <1>6, <1>7, ItemsFacts DEF Typed
<1>9. LiveSlots(w) = {s \in 1 .. Len(old) : old[s].state = "live"}
  BY <1>3, <1>4 DEF LiveSlots
<1>10. LiveSlots(w)' = LiveSlots(w)
  <2>1. LiveSlots(w)' = {s \in 1 .. Len(q) : q[s].state = "live"}
    BY <1>8 DEF LiveSlots, Used
  <2>2. QED
    BY <1>4, <1>5, <1>6, <1>9, <2>1
<1>11. \A s \in LiveSlots(w) : flash'[w].items[s] = flash[w].items[s]
  BY <1>3, <1>6, <1>8, <1>9
<1>12. Kept' = Kept
  BY <1>8, <1>10, <1>11, LiveKept
<1>13. InCall
  BY <1>1 DEF InCall
<1>14. QED
  BY <1>1, <1>12, <1>13, QuietStep DEF QuietPcs, GcSteps

LEMMA WriteMagicAtomic ==
  ASSUME IInv, AtomicInv, WriteMagic
  PROVE  Copied' /\ Replaces' /\ Store' = Store /\ UNCHANGED <<op, result>>
<1>1. /\ pc = "writeMagic" /\ pc' = "writeBody" /\ UNCHANGED <<op, result>> /\ workspace \in Blocks
  BY DEF IInv, WriteMagic, WriteInv
<1>2. PICK w \in Blocks : w = workspace
  BY <1>1
<1>3. PICK old, q, n : old = flash[w].items /\ q = flash'[w].items /\ n = Len(old)
  OBVIOUS
<1>4. /\ Used(w) = n /\ n \in Nat /\ n > 0 /\ old[n] = Broken("torn")
      /\ q[n] = Broken("partial") /\ Len(q) = n + SizeOf(op.val) - 1 /\ SizeOf(op.val) \in 1 .. 2
      /\ \A i \in 1 .. n - 1 : q[i] = old[i]
      /\ \A i \in n + 1 .. Len(q) : q[i].state = "rest"
      /\ \A c \in Blocks \ {w} : flash'[c] = flash[c]
      /\ SameTags(flash'[w], flash[w])
  BY <1>2, <1>3, WriteMagicFacts, Zenon
<1>5. LiveSlots(w) = {s \in 1 .. n : old[s].state = "live"} /\ LiveSlots(w)' = {s \in 1 .. Len(q) : q[s].state = "live"}
  BY <1>3, <1>4 DEF LiveSlots, Used
<1>6. old[n].state # "live" /\ q[n].state # "live"
  BY <1>4 DEF Broken
<1>7. Len(q) \in Nat /\ Len(q) >= n
  BY <1>4
<1>8. \A i \in n + 1 .. Len(q) : q[i].state # "live"
  BY <1>4
<1>9. LiveSlots(w)' = LiveSlots(w) /\ \A s \in LiveSlots(w) : q[s] = old[s]
  <2>1. \A s \in 1 .. n : s # n => s \in 1 .. n - 1
    BY <1>4
  <2>2. \A s \in 1 .. Len(q) : s \in 1 .. n \/ s \in n + 1 .. Len(q)
    BY <1>4, <1>7
  <2>3. \A s \in 1 .. n : s \in 1 .. Len(q)
    BY <1>4, <1>7
  <2>4. \A s \in LiveSlots(w) : q[s] = old[s]
    BY <1>4, <1>5, <1>6, <2>1
  <2>5. QED
    BY <1>4, <1>5, <1>6, <1>8, <2>1, <2>2, <2>3, <2>4
<1>10. Kept' = Kept
  BY <1>3, <1>4, <1>9, LiveKept
<1>11. InCall
  BY <1>1 DEF InCall
<1>12. QED
  BY <1>1, <1>10, <1>11, QuietStep DEF QuietPcs, GcSteps

(* One entry of the dictionary changes.                                    *)
LEMMA EntryChanged ==
  ASSUME NEW k \in Keys, NEW v, StoredIn(Kept', k) = v,
         \A c \in Kept : c.item.key # k => c \in Kept', \A c \in Kept' : c.item.key # k => c \in Kept
  PROVE  Store' = [Store EXCEPT ![k] = v]
<1>1. PICK F, G : F = Kept /\ G = Kept'
  OBVIOUS
<1>2. ASSUME NEW j \in Keys, j # k PROVE StoredIn(G, j) = StoredIn(F, j)
  <2>1. \A c \in G : c.item.key = j => c \in F
    BY <1>1, <1>2
  <2>2. \A c \in F : c.item.key = j => c \in G
    BY <1>1, <1>2
  <2>3. QED
    BY <2>1, <2>2, StoredOther
<1>3. Store' = [j \in Keys |-> StoredIn(G, j)] /\ Store = [j \in Keys |-> StoredIn(F, j)]
  BY <1>1, StoreOf
<1>4. StoredIn(G, k) = v
  BY <1>1
<1>5. QED
  BY <1>2, <1>3, <1>4

(* The item a set has written is one more live item.                       *)
LEMMA WriteBodyKept ==
  ASSUME IInv, WriteBody
  PROVE  \E n : /\ Kept' = Kept \cup {n} /\ n.item = NewItem /\ n.at \in Nat
                /\ \A c \in Kept : c.at # n.at
<1>1. Typed /\ TagsInv /\ pc = "writeBody" /\ workspace \in Blocks
  BY DEF IInv, WriteBody, WriteInv
<1>2. PICK w \in Blocks : w = workspace
  BY <1>1
<1>3. PICK old, q, m : old = flash[w].items /\ q = flash'[w].items /\ m = Len(old)
  OBVIOUS
<1>4. PICK k : k = m - SizeOf(op.val) + 1
  OBVIOUS
<1>5. /\ Used(w) = m /\ m \in 0 .. Slots /\ old[k] = Broken("partial") /\ k \in 1 .. m
      /\ NewItem.state = "live" /\ Len(q) = m /\ q[k] = NewItem
      /\ \A t \in 1 .. m : t # k => q[t] = old[t]
      /\ \A c \in Blocks \ {w} : flash'[c] = flash[c]
      /\ SameTags(flash'[w], flash[w])
  BY <1>2, <1>3, <1>4, WriteBodyFacts, Zenon
<1>6. PICK n : n = [at |-> PosOf(w, k), item |-> NewItem]
  OBVIOUS
<1>7. k \in 1 .. Slots
  BY <1>5, Numbers
<1>8. PosOf(w, k) \in Positions /\ BlockOf(PosOf(w, k)) = w /\ SlotOf(PosOf(w, k)) = k
  BY <1>7, PosFacts
<1>9. k \notin LiveSlots(w) /\ LiveSlots(w)' = LiveSlots(w) \cup {k}
  <2>1. LiveSlots(w) = {s \in 1 .. m : old[s].state = "live"} /\ LiveSlots(w)' = {s \in 1 .. m : q[s].state = "live"}
    BY <1>3, <1>5 DEF LiveSlots, Used
  <2>2. old[k].state # "live"
    BY <1>5 DEF Broken
  <2>3. QED
    BY <1>5, <2>1, <2>2
<1>10. In(w)' = In(w) \cup {n}
  <2>1. In(w)' = {[at |-> PosOf(w, s), item |-> q[s]] : s \in LiveSlots(w)'}
    BY <1>3 DEF In, PosOf
  <2>2. In(w) = {[at |-> PosOf(w, s), item |-> old[s]] : s \in LiveSlots(w)}
    BY <1>3 DEF In
  <2>3. \A s \in LiveSlots(w) : q[s] = old[s]
    BY <1>3, <1>5, <1>9 DEF LiveSlots
  <2>4. QED
    BY <1>5, <1>6, <1>9, <2>1, <2>2, <2>3
<1>11. \A c \in Blocks \ {w} : In(c)' = In(c)
  BY <1>5, InOfItems
<1>12. SrcBlocks = {} /\ SrcBlocks' = {}
  <2>1. SrcBlocks = {}
    BY <1>1 DEF TagsInv
  <2>2. \A c \in Blocks : SameTags(flash'[c], flash[c])
    BY <1>5 DEF SameTags
  <2>3. QED
    BY <2>1, <2>2, TagsSame
<1>13. Kept' = Kept \cup {n}
  <2>1. Kept = Found(Blocks) /\ Kept' = Found(Blocks)'
    BY <1>12, KeptAll
  <2>2. Found(Blocks) = UNION {In(c) : c \in Blocks} /\ Found(Blocks)' = UNION {In(c)' : c \in Blocks}
    BY DEF Found
  <2>3. QED
    BY <1>10, <1>11, <2>1, <2>2
<1>14. \A c \in Kept : c.at # n.at
  <2>1. SUFFICES ASSUME NEW c \in Kept, c.at = n.at PROVE FALSE
    OBVIOUS
  <2>2. SlotOf(c.at) \in LiveSlots(BlockOf(c.at))
    BY <1>1, KeptFacts
  <2>3. QED
    BY <1>6, <1>8, <1>9, <2>1, <2>2
<1>15. n.item = NewItem /\ n.at \in Nat
  BY <1>6, <1>8, Numbers
<1>16. QED
  BY <1>13, <1>14, <1>15

(* The key's first copy, or one that replaces the copy that is there.      *)
LEMMA WriteBodyAtomic ==
  ASSUME IInv, AtomicInv, WriteBody
  PROVE  /\ Copied' /\ Replaces' /\ op.key \in Keys /\ op.val \in Values
         /\ op.pos = 0 => Store' = [Store EXCEPT ![op.key] = op.val] /\ op' = NoOp /\ result' = "ok"
         /\ op.pos # 0 => Store' \in {Store, [Store EXCEPT ![op.key] = op.val]} /\ UNCHANGED <<op, result>>
<1>1. Typed /\ pc = "writeBody" /\ op.key \in Keys /\ op.val \in Values
  BY DEF IInv, WriteBody, OpInv, InCall
<1>2. IF op.pos = 0 THEN pc' = "idle" /\ op' = NoOp /\ result' = "ok"
                    ELSE pc' = "discard" /\ op' = op /\ result' = result
  BY DEF WriteBody, Return
<1>3. PICK n : /\ Kept' = Kept \cup {n} /\ n.item = NewItem /\ n.at \in Nat
               /\ \A c \in Kept : c.at # n.at
  BY WriteBodyKept
<1>4. n.item.key = op.key /\ n.item.val = op.val /\ n.item.prev = op.pos
  BY <1>3 DEF NewItem
<1>5. Single(Kept)
  BY <1>1 DEF AtomicInv, Copied, Updating
<1>6. op.pos = 0 <=> Store[op.key] = NoValue
  BY <1>1 DEF AtomicInv, Replaces, InCall
<1>7. PICK F, G : F = Kept /\ G = Kept'
  OBVIOUS
<1>8. (\A c \in F : c.at \in Nat) /\ G = F \cup {n} /\ n \in G /\ \A c \in G : c.at \in Nat
  BY <1>1, <1>3, <1>7, KeptNat
<1>9. (\A c \in Kept : c.item.key # op.key => c \in Kept') /\ (\A c \in Kept' : c.item.key # op.key => c \in Kept)
  BY <1>3, <1>4
<1>10. Store = [k \in Keys |-> StoredIn(F, k)]
  BY <1>7, StoreOf
<1>11. CASE op.pos = 0
  <2>1. \A c \in F : c.item.key # op.key
    <3>1. F = Found(KeptBlocks) /\ KeptBlocks \in SUBSET Blocks
      BY <1>7, KeptIs, KeptBlocksIn
    <3>2. Faithful(F)
      BY <1>1, <1>5, <1>7, <3>1, SingleFaithful
    <3>3. StoredIn(F, op.key) = NoValue
      BY <1>1, <1>6, <1>10, <1>11
    <3>4. QED
      BY <1>1, <3>1, <3>2, <3>3, FaithfulStores
  <2>2. \A c \in G : SameKey(c, n) => c = n
    BY <1>4, <1>8, <2>1 DEF SameKey
  <2>3. StoredIn(G, op.key) = op.val
    BY <1>4, <1>8, <2>2, StoredSingle
  <2>4. Store' = [Store EXCEPT ![op.key] = op.val]
    BY <1>1, <1>7, <1>9, <2>3, EntryChanged
  <2>5. Single(Kept)'
    <3>1. \A c, d \in F : SameKey(c, d) => c = d
      BY <1>5, <1>7 DEF Single
    <3>2. \A c, d \in G : SameKey(c, d) => c = d
      BY <1>4, <1>8, <2>1, <3>1 DEF SameKey
    <3>3. QED
      BY <1>7, <3>2 DEF Single, SameKey
  <2>6. ~InCall'
    BY <1>2, <1>11 DEF InCall, GcSteps
  <2>7. QED
    BY <1>1, <1>2, <1>11, <2>4, <2>5, <2>6, NotInCall DEF Copied, Updating
<1>12. CASE op.pos # 0
  <2>1. PICK c \in Kept : c.at = op.pos /\ c.item.key = op.key
    BY <1>1, <1>12 DEF AtomicInv, Replaces
  <2>2. c \in F /\ c \in G /\ c.at # n.at /\ \A d \in F : d.item.key = op.key => d = c
    BY <1>3, <1>5, <1>7, <2>1 DEF Single, SameKey
  <2>3. \A d \in G : SameKey(d, n) => d \in {n, c}
    BY <1>4, <1>8, <2>2 DEF SameKey
  <2>4. \A d \in G : SameKey(d, c) => d \in {c, n}
    BY <1>4, <2>1, <2>3 DEF SameKey
  <2>5. StoredIn(F, op.key) = c.item.val
    <3>1. \A d \in F : SameKey(d, c) => d = c
      BY <2>1, <2>2 DEF SameKey
    <3>2. QED
      BY <1>8, <2>1, <2>2, <3>1, StoredSingle
  <2>6. Store' \in {Store, [Store EXCEPT ![op.key] = op.val]}
    <3>1. CASE Overrules(n, c)
      <4>1. StoredIn(G, op.key) = op.val
        BY <1>4, <1>8, <2>2, <2>3, <3>1, StoredPair
      <4>2. Store' = [Store EXCEPT ![op.key] = op.val]
        BY <1>1, <1>7, <1>9, <4>1, EntryChanged
      <4>3. QED
        BY <4>2
    <3>2. CASE ~Overrules(n, c)
      <4>1. c.item.prev = n.at /\ c.at < n.at
        BY <1>4, <2>1, <2>2, <3>2 DEF Overrules
      <4>2. Overrules(c, n)
        BY <1>8, <2>2, <4>1 DEF Overrules
      <4>3. StoredIn(G, op.key) = c.item.val
        BY <1>8, <2>1, <2>2, <2>4, <4>2, StoredPair
      <4>4. Store' = [Store EXCEPT ![op.key] = c.item.val]
        BY <1>1, <1>7, <1>9, <4>3, EntryChanged
      <4>5. Store[op.key] = c.item.val
        BY <1>1, <1>10, <2>5
      <4>6. Store' = Store
        BY <1>1, <1>10, <4>4, <4>5
      <4>7. QED
        BY <4>6
    <3>3. QED
      BY <3>1, <3>2
  <2>7. pc' = "discard" /\ op' = op /\ result' = result
    BY <1>2, <1>12
  <2>8. UpdateCopies'
    <3>1. \A d, e \in G : d # e /\ SameKey(d, e) => d.item.key = op.key
      <4>1. \A d, e \in F : SameKey(d, e) => d = e
        BY <1>5, <1>7 DEF Single
      <4>2. QED
        BY <1>4, <1>8, <4>1 DEF SameKey
    <3>2. /\ n.item.key = op.key /\ n.item.val = op.val /\ n.item.prev = op.pos /\ n.at # op.pos
          /\ \A d \in G : d.item.key = op.key => d = n \/ d.at = op.pos
      BY <1>4, <1>8, <2>1, <2>2
    <3>3. op'.key = op.key /\ op'.val = op.val /\ op'.pos = op.pos
      BY <2>7
    <3>4. QED
      BY <1>7, <1>8, <3>1, <3>2, <3>3 DEF UpdateCopies, SameKey
  <2>9. Updating'
    <3>1. op.val # NoValue
      BY <1>1, KvAssumption DEF KvAssumption
    <3>2. QED
      BY <2>7, <3>1 DEF Updating
  <2>10. Replaces'
    <3>1. c \in Kept'
      BY <1>7, <2>2
    <3>2. QED
      BY <1>1, <2>1, <2>7, <3>1 DEF Replaces, GcSteps
  <2>11. QED
    BY <1>1, <1>12, <2>6, <2>7, <2>8, <2>9, <2>10 DEF Copied
<1>13. QED
  BY <1>11, <1>12

(* The end of an update, and all of a delete.                              *)
LEMMA DiscardOldAtomic ==
  ASSUME IInv, AtomicInv, DiscardOld
  PROVE  /\ Copied' /\ Replaces' /\ op.key \in Keys /\ op # NoOp
         /\ Store' = [Store EXCEPT ![op.key] = op.val] /\ op' = NoOp /\ result' = "ok"
<1>1. /\ Typed /\ pc = "discard" /\ pc' = "idle" /\ op' = NoOp /\ result' = "ok" /\ flash' = Discard(op.pos)
      /\ op.pos # 0 /\ op.pos \in Written
  BY DEF IInv, DiscardOld, Return, OpInv
<1>2. op.key \in Keys /\ op.val \in Values \cup {NoValue}
  BY <1>1 DEF AtomicInv, Replaces, InCall
<1>3. PICK c \in Kept : c.at = op.pos /\ c.item.key = op.key
  BY <1>1 DEF AtomicInv, Replaces
<1>4. Kept' = {e \in Kept : e.at # op.pos}
  BY <1>1, DiscardKept
<1>5. PICK F, G : F = Kept /\ G = Kept'
  OBVIOUS
<1>6. G = {e \in F : e.at # op.pos} /\ \A e \in G : e.at \in Nat
  BY <1>1, <1>4, <1>5, KeptNat
<1>7. \A e \in F : e.at = op.pos => e = c
  BY <1>1, <1>3, <1>5, KeptNat
<1>8. (\A e \in Kept : e.item.key # op.key => e \in Kept') /\ (\A e \in Kept' : e.item.key # op.key => e \in Kept)
  BY <1>3, <1>5, <1>6, <1>7
<1>9. StoredIn(G, op.key) = op.val /\ \A d, e \in G : SameKey(d, e) => d = e
  <2>1. CASE op.val = NoValue
    <3>1. \A d, e \in F : SameKey(d, e) => d = e
      BY <1>1, <1>5, <2>1 DEF AtomicInv, Copied, Updating, Single
    <3>2. \A e \in G : e.item.key # op.key
      BY <1>3, <1>5, <1>6, <3>1 DEF SameKey
    <3>3. StoredIn(G, op.key) = NoValue
      BY <3>2, StoredNone
    <3>4. QED
      BY <1>6, <2>1, <3>1, <3>3
  <2>2. CASE op.val # NoValue
    <3>1. UpdateCopies
      BY <1>1, <2>2 DEF AtomicInv, Copied, Updating
    <3>2. PICK n \in F : /\ n.item.key = op.key /\ n.item.val = op.val /\ n.at # op.pos
                         /\ \A e \in F : e.item.key = op.key => e = n \/ e.at = op.pos
      BY <1>5, <3>1 DEF UpdateCopies
    <3>3. n \in G /\ \A e \in G : e.item.key = op.key => e = n
      BY <1>6, <3>2
    <3>4. \A e \in G : SameKey(e, n) => e = n
      BY <3>2, <3>3 DEF SameKey
    <3>5. StoredIn(G, op.key) = op.val
      BY <1>6, <3>2, <3>3, <3>4, StoredSingle
    <3>6. \A d, e \in F : d # e /\ SameKey(d, e) => d.item.key = op.key
      BY <1>5, <3>1 DEF UpdateCopies
    <3>7. \A d, e \in G : SameKey(d, e) => d = e
      BY <1>6, <3>3, <3>6 DEF SameKey
    <3>8. QED
      BY <3>5, <3>7
  <2>3. QED
    BY <2>1, <2>2
<1>10. Store' = [Store EXCEPT ![op.key] = op.val]
  BY <1>2, <1>5, <1>8, <1>9, EntryChanged
<1>11. Single(Kept)'
  BY <1>5, <1>9 DEF Single, SameKey
<1>12. ~InCall'
  BY <1>1 DEF InCall, GcSteps
<1>13. op # NoOp
  BY <1>1 DEF NoOp
<1>14. QED
  BY <1>1, <1>2, <1>10, <1>11, <1>12, <1>13, NotInCall DEF Copied, Updating

(* What a power loss leaves behind: one copy of each item, the two of an   *)
(* update, or those of an unfinished collection.                           *)
LEMMA LossCopies ==
  ASSUME IInv, AtomicInv, PowerLoss, ~LossBeforeDone, ~LossStaleDone
  PROVE  BootCopies
<1>1. /\ Typed /\ TagsInv /\ GcInv /\ pc # "off"
      /\ pc \in {"formatSrc", "markDone"} => flash[gc.dst].done
      /\ pc = "copy" => ~flash[gc.dst].done
  BY DEF IInv, PowerLoss, BeforeDone, StaleDone
<1>2. CASE pc = "scan"
  BY <1>2 DEF AtomicInv, Copied
<1>3. CASE pc = "copy"
  <2>1. GcCopies /\ gc.dst \in Blocks /\ gc.src \in Blocks /\ gc.src # gc.dst
    BY <1>1, <1>3 DEF AtomicInv, Copied, GcInv, GcSteps
  <2>2. SrcBlocks = {gc.src} /\ DstBlocks = {gc.dst}
    BY <1>1, <1>3, <2>1 DEF TagsInv, DstBlocks, IsDstNotDone
  <2>3. Kept = Found(Others)
    <3>1. KeptBlocks = Others
      BY <2>2 DEF KeptBlocks, Others
    <3>2. QED
      BY <3>1, KeptIs
  <2>4. \A c, d \in Kept : SameKey(c, d) => c = d
    BY <2>1, <2>3 DEF GcCopies, Single
  <2>5. Found(DstBlocks) = In(gc.dst) /\ Found(SrcBlocks) = In(gc.src)
    BY <2>2 DEF Found
  <2>6. \A c \in Found(DstBlocks) : \E d \in Found(SrcBlocks) : d.item = c.item
    BY <2>1, <2>5 DEF GcCopies
  <2>7. QED
    BY <2>4, <2>6 DEF BootCopies
<1>4. CASE pc \notin {"scan", "copy"}
  <2>1. Found(DstBlocks) = {}
    <3>1. DstBlocks = {}
      BY <1>1, <1>4 DEF TagsInv, DstBlocks, IsDstNotDone
    <3>2. QED
      BY <3>1 DEF Found
  <2>2. CASE ~Updating
    <3>1. Single(Kept)
      BY <1>1, <1>4, <2>2 DEF AtomicInv, Copied
    <3>2. QED
      BY <2>1, <3>1 DEF BootCopies, Single
  <2>3. CASE Updating
    <3>1. UpdateCopies /\ SrcBlocks = {}
      BY <1>1, <2>3 DEF AtomicInv, Copied, TagsInv, Updating
    <3>2. PICK n \in Kept :
            /\ n.item.key = op.key /\ n.item.prev = op.pos
            /\ \A c \in Kept : c.item.key = op.key => c = n \/ c.at = op.pos
      BY <3>1 DEF UpdateCopies
    <3>3. ASSUME NEW c \in Kept, NEW d \in Kept, c # d, SameKey(c, d)
          PROVE  Pair(Kept, c, d)
      <4>1. c.item.key = op.key /\ d.item.key = op.key
        BY <3>1, <3>3 DEF UpdateCopies, SameKey
      <4>2. \A e, f \in Kept : e.at = f.at => e = f
        BY <1>1, KeptNat
      <4>3. (c = n /\ d.at = op.pos) \/ (d = n /\ c.at = op.pos)
        BY <3>2, <3>3, <4>1, <4>2
      <4>4. \A e \in Kept : SameKey(c, e) => e \in {c, d}
        BY <3>2, <4>1, <4>2, <4>3 DEF SameKey
      <4>5. c.item.prev = d.at \/ d.item.prev = c.at
        BY <3>2, <4>3
      <4>6. QED
        BY <4>4, <4>5 DEF Pair
    <3>4. QED
      BY <2>1, <3>1, <3>3 DEF BootCopies
  <2>4. QED
    BY <2>2, <2>3
<1>5. QED
  BY <1>2, <1>3, <1>4

LEMMA PowerLossAtomic ==
  ASSUME IInv, AtomicInv, PowerLoss, ~LossBeforeDone, ~LossStaleDone
  PROVE  Copied' /\ Replaces' /\ Store' = Store /\ op' = NoOp /\ result' = "none"
<1>1. pc' = "off" /\ UNCHANGED flash /\ op' = NoOp /\ result' = "none"
  BY DEF PowerLoss
<1>2. /\ Kept' = Kept /\ Found(DstBlocks)' = Found(DstBlocks) /\ Found(SrcBlocks)' = Found(SrcBlocks)
      /\ SrcBlocks' = SrcBlocks /\ Store' = Store
  BY <1>1, FlashKept
<1>3. BootCopies'
  BY <1>2, LossCopies DEF BootCopies, Pair
<1>4. ~InCall' /\ ~Updating'
  BY <1>1 DEF InCall, GcSteps, Updating
<1>5. QED
  BY <1>1, <1>2, <1>3, <1>4, NotInCall DEF Copied

LEMMA InitAtomic ==
  ASSUME Init
  PROVE  AtomicInv /\ Store = [k \in Keys |-> NoValue] /\ op = NoOp /\ result = "none"
<1>1. pc = "off" /\ flash = [b \in Blocks |-> Erased] /\ op = NoOp /\ result = "none"
  BY DEF Init
<1>2. \A b \in Blocks : In(b) = {}
  BY <1>1, ErasedType DEF In, LiveSlots, Used
<1>3. Kept = {} /\ Found(DstBlocks) = {}
  BY <1>2, KeptIs DEF Found, KeptBlocks, DstBlocks
<1>4. BootCopies
  BY <1>3 DEF BootCopies
<1>5. AtomicInv
  BY <1>1, <1>4 DEF AtomicInv, Copied, Replaces, InCall, GcSteps, Updating
<1>6. \A k \in Keys : StoredIn(Kept, k) = NoValue
  BY <1>3, StoredNone
<1>7. QED
  BY <1>1, <1>5, <1>6, StoreOf

LEMMA StutterAtomic ==
  ASSUME AtomicInv, UNCHANGED vars
  PROVE  Copied' /\ Replaces' /\ Store' = Store /\ UNCHANGED <<op, result>>
<1>1. /\ flash' = flash /\ mgr' = mgr /\ workspace' = workspace /\ pc' = pc /\ op' = op
      /\ gc' = gc /\ scan' = scan /\ result' = result
  BY DEF vars
<1>2. /\ Kept' = Kept /\ Found(DstBlocks)' = Found(DstBlocks) /\ Found(SrcBlocks)' = Found(SrcBlocks)
      /\ SrcBlocks' = SrcBlocks /\ DstBlocks' = DstBlocks
      /\ Store' = Store /\ \A b \in Blocks : In(b)' = In(b)
  BY <1>1, FlashKept
<1>3. BootCopies => BootCopies'
  BY <1>2 DEF BootCopies, Pair
<1>4. ScanCopies => ScanCopies'
  BY <1>1, <1>2 DEF ScanCopies, Passed
<1>5. GcCopies => GcCopies'
  <2>1. In(gc.dst)' = In(gc.dst) /\ In(gc.src)' = In(gc.src) /\ Found(Others)' = Found(Others)
    BY <1>1 DEF In, LiveSlots, Used, Found, Others
  <2>2. QED
    BY <1>1, <2>1 DEF GcCopies, Single
<1>6. UpdateCopies => UpdateCopies'
  BY <1>1, <1>2 DEF UpdateCopies
<1>7. Single(Kept) => Single(Kept)'
  BY <1>2 DEF Single
<1>8. Updating' <=> Updating
  BY <1>1 DEF Updating
<1>9. Copied'
  BY <1>1, <1>3, <1>4, <1>5, <1>6, <1>7, <1>8 DEF AtomicInv, Copied
<1>10. InCall' <=> InCall
  BY <1>1 DEF InCall
<1>11. Replaces'
  BY <1>1, <1>2, <1>10 DEF AtomicInv, Replaces
<1>12. QED
  BY <1>1, <1>2, <1>9, <1>11

-----------------------------------------------------------------------------
(* The step of each action.  Quietly is one that the dictionary does not   *)
(* see; the calls themselves are the steps of AtomicKv.                    *)
Quietly == Copied' /\ Replaces' /\ Store' = Store /\ UNCHANGED <<op, result>>
Refines == Copied' /\ Replaces' /\ (Dictionary!Next \/ UNCHANGED Dictionary!vars)

LEMMA QuietlyRefines ==
  ASSUME Quietly
  PROVE  Refines
  BY DEF Quietly, Refines, Dictionary!vars

LEMMA CallFacts ==
  ASSUME op # NoOp
  PROVE  /\ Dictionary!NoCall # <<op.key, op.val>>
         /\ Dictionary!Applied = [Store EXCEPT ![op.key] = op.val]
<1>1. <<>> # <<op.key, op.val>>
  OBVIOUS
<1>2. QED
  BY <1>1 DEF Dictionary!NoCall, Dictionary!Applied

LEMMA ValueOfCall ==
  ASSUME op.val \in Values
  PROVE  op # NoOp
  BY KvAssumption DEF NoOp, KvAssumption

LEMMA BootQuiet ==
  ASSUME IInv, AtomicInv, Boot
  PROVE  Quietly
<1>1. Copied
  BY DEF AtomicInv
<1>2. UNCHANGED <<op, result>>
  BY DEF Boot, PowerOn, ScanHeader, ScanItem, ScanBlockEnd, HandleIncompleteGc, FormatDst, RescueGc,
         LocateWorkspace
<1>3. Copied' /\ Replaces' /\ Store' = Store
  <2>1. CASE PowerOn
    BY <1>1, <2>1, PowerOnAtomic
  <2>2. CASE ScanHeader
    BY <1>1, <2>2, ScanHeaderAtomic
  <2>3. CASE ScanItem
    BY <1>1, <2>3, ScanItemAtomic
  <2>4. CASE ScanBlockEnd
    BY <1>1, <2>4, ScanBlockEndAtomic
  <2>5. CASE HandleIncompleteGc
    BY <1>1, <2>5, HandleIncompleteGcAtomic
  <2>6. CASE FormatDst
    BY <2>6, FormatDstAtomic
  <2>7. CASE RescueGc
    BY <2>7, RescueGcAtomic
  <2>8. CASE LocateWorkspace
    BY <2>8, LocateWorkspaceAtomic
  <2>9. QED
    BY <2>1, <2>2, <2>3, <2>4, <2>5, <2>6, <2>7, <2>8 DEF Boot
<1>4. QED
  BY <1>2, <1>3 DEF Quietly

LEMMA GcQuiet ==
  ASSUME IInv, AtomicInv, Gc
  PROVE  Quietly
<1>1. UNCHANGED <<op, result>>
  BY DEF Gc, MarkSrc, MarkDst, CopyItem, EraseSrc, FormatSrc, MarkDone
<1>2. Copied' /\ Replaces' /\ Store' = Store
  <2>1. CASE MarkSrc
    BY <2>1, MarkSrcAtomic
  <2>2. CASE MarkDst
    BY <2>2, MarkDstAtomic
  <2>3. CASE CopyItem
    BY <2>3, CopyItemAtomic
  <2>4. CASE EraseSrc
    BY <2>4, EraseSrcAtomic
  <2>5. CASE FormatSrc
    BY <2>5, FormatSrcAtomic
  <2>6. CASE MarkDone
    BY <2>6, MarkDoneAtomic
  <2>7. QED
    BY <2>1, <2>2, <2>3, <2>4, <2>5, <2>6 DEF Gc
<1>3. QED
  BY <1>1, <1>2 DEF Quietly

LEMMA BeginRefines ==
  ASSUME IInv, AtomicInv, NEW k \in Keys, BeginDel(k) \/ \E v \in Values : BeginSet(k, v)
  PROVE  Refines
<1>1. PICK w \in Values \cup {NoValue} :
         /\ Copied' /\ Replaces' /\ Store' = Store
         /\ op = NoOp /\ op' # NoOp /\ op'.key = k /\ op'.val = w /\ result' = "none"
  <2>1. CASE BeginDel(k)
    BY <2>1, BeginDelAtomic
  <2>2. ASSUME NEW v \in Values, BeginSet(k, v)
        PROVE  \E w \in Values \cup {NoValue} :
                 /\ Copied' /\ Replaces' /\ Store' = Store
                 /\ op = NoOp /\ op' # NoOp /\ op'.key = k /\ op'.val = w /\ result' = "none"
    BY <2>2, BeginSetAtomic
  <2>3. QED
    BY <2>1, <2>2
<1>2. Dictionary!Begin(k, w)
  BY <1>1 DEF Dictionary!Begin, Dictionary!NoCall
<1>3. Dictionary!Next
  BY <1>1, <1>2 DEF Dictionary!Next, Dictionary!Entries
<1>4. QED
  BY <1>1, <1>3 DEF Refines

LEMMA SearchFailsRefines ==
  ASSUME IInv, AtomicInv, SearchFails
  PROVE  Refines
<1>1. Copied' /\ Replaces' /\ Store' = Store /\ Store[op.key] # op.val /\ op.key \in Keys
  BY SearchFailsAtomic
<1>2. pc = "search" /\ op' = NoOp /\ result' = "failed"
  BY DEF SearchFails, Return
<1>3. op # NoOp
  <2>1. op.val \in Values
    BY <1>2 DEF IInv, OpInv, InCall
  <2>2. QED
    BY <2>1, ValueOfCall
<1>4. Store # [Store EXCEPT ![op.key] = op.val]
  <2>1. Store = [k \in Keys |-> StoredIn(Kept, k)]
    BY DEF Store
  <2>2. QED
    BY <1>1, <2>1
<1>5. Dictionary!Fail
  BY <1>1, <1>2, <1>3, <1>4, CallFacts DEF Dictionary!Fail, Dictionary!NoCall
<1>6. QED
  BY <1>1, <1>5 DEF Refines, Dictionary!Next

LEMMA FixPrevRefines ==
  ASSUME IInv, AtomicInv, FixPrev
  PROVE  Refines
<1>1. /\ Copied' /\ Replaces' /\ Store' = Store
      /\ result' = result /\ op'.key = op.key /\ op'.val = op.val /\ op'.val \in Values
  BY FixPrevAtomic
<1>2. op # NoOp /\ op' # NoOp
  <2>1. op.val # NoOp.val /\ op'.val # NoOp.val
    BY <1>1, KvAssumption DEF NoOp, KvAssumption
  <2>2. QED
    BY <2>1
<1>3. UNCHANGED Dictionary!vars
  BY <1>1, <1>2 DEF Dictionary!vars
<1>4. QED
  BY <1>1, <1>3 DEF Refines

LEMMA Succeeds ==
  ASSUME op # NoOp, op' = NoOp, result' = "ok", Store' = [Store EXCEPT ![op.key] = op.val]
  PROVE  Dictionary!Next
<1>1. Dictionary!Succeed
  BY CallFacts DEF Dictionary!Succeed, Dictionary!NoCall
<1>2. QED
  BY <1>1 DEF Dictionary!Next

LEMMA WriteBodyRefines ==
  ASSUME IInv, AtomicInv, WriteBody
  PROVE  Refines
<1>1. Copied' /\ Replaces' /\ op.val \in Values
  BY WriteBodyAtomic
<1>2. op # NoOp
  BY <1>1, ValueOfCall
<1>3. CASE op.pos = 0
  <2>1. Store' = [Store EXCEPT ![op.key] = op.val] /\ op' = NoOp /\ result' = "ok"
    BY <1>3, WriteBodyAtomic
  <2>2. QED
    BY <1>1, <1>2, <2>1, Succeeds DEF Refines
<1>4. CASE op.pos # 0
  <2>1. /\ Store' = Store \/ Store' = [Store EXCEPT ![op.key] = op.val]
        /\ op' = op /\ result' = result
    BY <1>4, WriteBodyAtomic
  <2>2. CASE Store' = Store
    BY <1>1, <2>1, <2>2 DEF Refines, Dictionary!vars
  <2>3. CASE Store' = [Store EXCEPT ![op.key] = op.val]
    <3>1. Dictionary!Apply
      BY <1>2, <2>1, <2>3, CallFacts DEF Dictionary!Apply
    <3>2. QED
      BY <1>1, <3>1 DEF Refines, Dictionary!Next
  <2>4. QED
    BY <2>1, <2>2, <2>3
<1>5. QED
  BY <1>3, <1>4

LEMMA ServeRefines ==
  ASSUME IInv, AtomicInv, Serve
  PROVE  Refines
<1>1. CASE SearchFails
  BY <1>1, SearchFailsRefines
<1>2. CASE UseWorkspace \/ UseInuse \/ UseFresh \/ Collect
  BY <1>2, SearchAtomic, QuietlyRefines DEF Quietly
<1>3. CASE FixPrev
  BY <1>3, FixPrevRefines
<1>4. CASE WriteHeader
  BY <1>4, WriteHeaderAtomic, QuietlyRefines DEF Quietly
<1>5. CASE WriteMagic
  BY <1>5, WriteMagicAtomic, QuietlyRefines DEF Quietly
<1>6. CASE WriteBody
  BY <1>6, WriteBodyRefines
<1>7. CASE DiscardOld
  BY <1>7, DiscardOldAtomic, Succeeds DEF Refines
<1>8. QED
  BY <1>1, <1>2, <1>3, <1>4, <1>5, <1>6, <1>7 DEF Serve, Search

LEMMA PowerLossRefines ==
  ASSUME IInv, AtomicInv, PowerLoss, ~LossBeforeDone, ~LossStaleDone
  PROVE  Refines
<1>1. Copied' /\ Replaces' /\ Store' = Store /\ op' = NoOp /\ result' = "none"
  BY PowerLossAtomic
<1>2. Dictionary!PowerLoss
  BY <1>1 DEF Dictionary!PowerLoss, Dictionary!NoCall
<1>3. QED
  BY <1>1, <1>2 DEF Refines, Dictionary!Next

LEMMA StepRefines ==
  ASSUME IInv, AtomicInv, [Next]_vars, ~LossBeforeDone, ~LossStaleDone
  PROVE  Refines
<1>1. CASE Boot
  BY <1>1, BootQuiet, QuietlyRefines
<1>2. CASE Gc
  BY <1>2, GcQuiet, QuietlyRefines
<1>3. CASE Serve
  BY <1>3, ServeRefines
<1>4. CASE PowerLoss
  BY <1>4, PowerLossRefines
<1>5. ASSUME NEW k \in Keys, LookUp(k)
      PROVE  Refines
  <2>1. UNCHANGED <<op, result>>
    BY <1>5 DEF LookUp
  <2>2. QED
    BY <1>5, <2>1, LookUpAtomic, QuietlyRefines DEF Quietly
<1>6. ASSUME NEW k \in Keys, BeginDel(k) \/ \E v \in Values : BeginSet(k, v)
      PROVE  Refines
  BY <1>6, BeginRefines
<1>7. CASE UNCHANGED vars
  BY <1>7, StutterAtomic, QuietlyRefines DEF Quietly
<1>8. QED
  BY <1>1, <1>2, <1>3, <1>4, <1>5, <1>6, <1>7 DEF Next

(* The copies of a key and the flash content they stand for, in every      *)
(* reachable state.                                                        *)
THEOREM AtomicInvariance ==
  ASSUME ~LossBeforeDone, ~LossStaleDone
  PROVE  Spec => [](IInv /\ AtomicInv)
<1>1. Init => AtomicInv
  BY InitAtomic
<1>2. IInv /\ AtomicInv /\ [Next]_vars => AtomicInv'
  BY StepRefines DEF Refines, AtomicInv
<1>3. Spec => []IInv
  BY Invariance
<1>4. QED
  BY <1>1, <1>2, <1>3, PTL DEF Spec

(* Between calls, what ln_kv_get finds by the block table and the order of *)
(* the blocks is what the flash holds: a copy that a collection or an      *)
(* interrupted update left behind is never found instead of the value last *)
(* set.                                                                    *)
THEOREM GetAlwaysReturnsStore ==
  ASSUME ~LossBeforeDone, ~LossStaleDone
  PROVE  Spec => []GetReturnsStore
<1>1. IInv /\ AtomicInv => GetReturnsStore
  <2>1. ASSUME IInv, AtomicInv, pc = "idle", NEW k \in Keys
        PROVE  Store[k] = IF Find(k) = 0 THEN NoValue ELSE At(Find(k)).val
    <3>1. Single(Kept)
      BY <2>1 DEF AtomicInv, Copied, Updating
    <3>2. QED
      BY <2>1, <3>1, StoreByTable
  <2>2. QED
    BY <2>1 DEF GetReturnsStore
<1>2. Spec => [](IInv /\ AtomicInv)
  BY AtomicInvariance
<1>3. QED
  BY <1>1, <1>2, PTL

(* A set or a delete is atomic with respect to power loss, whatever flash  *)
(* writes, collections and boots it is made of: KvStore implements the     *)
(* dictionary of AtomicKv.                                                 *)
THEOREM AtomicCalls ==
  ASSUME ~LossBeforeDone, ~LossStaleDone
  PROVE  Spec => CallsAreAtomic
<1>1. Init => Dictionary!Init
  BY InitAtomic DEF Dictionary!Init, Dictionary!NoCall
<1>2. IInv /\ AtomicInv /\ [Next]_vars => [Dictionary!Next]_(Dictionary!vars)
  BY StepRefines DEF Refines
<1>3. Spec => [](IInv /\ AtomicInv)
  BY AtomicInvariance
<1>4. QED
  BY <1>1, <1>2, <1>3, PTL DEF Spec, CallsAreAtomic, Dictionary!Spec
=============================================================================
