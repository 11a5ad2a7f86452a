------------------------------- MODULE KvStore -------------------------------
(***************************************************************************)
(* The key/value store of the SDK (components/fs/kv/kv/ln_kv.c): items     *)
(* appended to the sectors ("blocks") of a flash partition, an update      *)
(* saved before the item it replaces is discarded, a garbage collection    *)
(* that copies the items of one block to a fresh one in five steps, and    *)
(* the boot that repairs what a power loss interrupted.                    *)
(*                                                                         *)
(* One action is one flash program or erase together with the memory       *)
(* updates that follow it, so a power loss can fall between any two.       *)
(*                                                                         *)
(* Abstractions.  A block has Slots units; an item takes one, which holds  *)
(* its header, or two when its value is big, and its address is a position *)
(* 1 .. NumBlocks * Slots, in address order.  An item whose header lacks   *)
(* its magic is "torn", one whose body fails its CRC8 is "partial".  The   *)
(* flash driver does not fail (ln_kv_port.c: the erase always returns 0)   *)
(* and malloc succeeds, so the BAD and HANGING flags never arise.  An      *)
(* erase is not interrupted half-way.  Copying an item during a collection *)
(* is one step, and so is formatting a block whose magic is already gone.  *)
(* A store whose ln_kv_init failed is not used.  Calls hold kv_lock from   *)
(* beginning to end, so they do not interleave.                            *)
(* Every value has a length: ln_kv_set takes an empty one too, and writes  *)
(* an item that kv_item_hdr_verify rejects, so it is never found again.    *)
(***************************************************************************)
EXTENDS Integers, Sequences, FiniteSets, FiniteSetsExt

CONSTANTS
  NumBlocks,      \* KV_MGR_BLK_NUM_TOTAL
  Slots,          \* units of a block, without its header
  Keys, Values,
  Big,            \* the values whose item takes two units
  CounterSize,    \* num_inuse counts modulo this (2^16 in the code, it may drift)
  NoValue,        \* a key that is not there; also the "value" of a delete
  LossBeforeDone, \* may power be lost between the erase of a collected block
                  \* and the gc_done tag of the block it was copied to?
  LossStaleDone   \* may power be lost while the destination of a collection
                  \* still bears the gc_done tag of an earlier one?

ASSUME KvAssumption ==
  /\ NumBlocks \in Nat \ {0, 1}
  /\ Slots \in Nat \ {0}
  /\ CounterSize \in Nat /\ CounterSize > NumBlocks
  /\ NoValue \notin Values
  /\ Big \subseteq Values /\ (Big # {} => Slots > 1)
  /\ LossBeforeDone \in BOOLEAN
  /\ LossStaleDone \in BOOLEAN

VARIABLES
  flash,      \* the blocks: header words and items
  mgr,        \* kv_ctl.mgr_ctl.blk_info: flags and free size per block, and counters
  workspace,  \* KV_MGR_WORKSPACE, 0 when it is no block
  pc,         \* where the call, or ln_kv_init, stands
  op,         \* the set or delete being served
  gc,         \* the collection in progress: source, destination, next slot, caller
  scan,       \* kv_mgr_ctl_build: the cursor and the blocks found so far
  result      \* how the last call ended

vars == <<flash, mgr, workspace, pc, op, gc, scan, result>>

Blocks == 1 .. NumBlocks
Positions == 1 .. NumBlocks * Slots
PosOf(b, s) == (b - 1) * Slots + s
BlockOf(p) == (p - 1) \div Slots + 1
SlotOf(p) == ((p - 1) % Slots) + 1
SizeOf(v) == IF v \in Big THEN 2 ELSE 1

(* Nothing reads the key, the value or the previous position of an item    *)
(* that is not complete and live.  "rest" is the second unit of an item.   *)
Broken(state) == [key |-> NoValue, val |-> NoValue, prev |-> 0, state |-> state]
Item == {Broken(st) : st \in {"torn", "partial", "discarded", "rest"}}
          \cup [key : Keys, val : Values, prev : {0} \cup Positions, state : {"live"}]

Erased == [magic |-> FALSE, src |-> FALSE, dst |-> FALSE, done |-> FALSE, items |-> <<>>]
Formatted == [Erased EXCEPT !.magic = TRUE]

NoOp == [key |-> NoValue, val |-> NoValue, pos |-> 0, item |-> Broken("torn")]
NoGc == [src |-> 0, dst |-> 0, next |-> 1, for |-> "none"]
NoScan == [blk |-> 1, slot |-> 0, srcs |-> {}, dsts |-> {}, fresh |-> 0]
NoFlags == [fresh |-> FALSE, inuse |-> FALSE, dirty |-> FALSE, free |-> 0]
NoMgr == [blk |-> [b \in Blocks |-> NoFlags], numFresh |-> 0, numInuse |-> 0]

FirstOf(S) == IF S = {} THEN 0 ELSE Min(S)

(* KV_BLK_FOR_EACH_FROM: the ring behind the workspace, which it leaves out. *)
NextInRing(S) ==
  LET behind == {b \in S : b > workspace}
      before == {b \in S : b < workspace}
  IN  FirstOf(IF behind # {} THEN behind ELSE before)

-----------------------------------------------------------------------------
(* The block table (ln_kv.h).  Each operator maps a table to the next one. *)

SetFresh(m, b) ==
  [m EXCEPT !.numFresh = IF m.blk[b].fresh THEN @ ELSE @ + 1,
            !.blk[b] = [fresh |-> TRUE, inuse |-> FALSE, dirty |-> FALSE, free |-> Slots]]
ResetFresh(m, b) ==
  [m EXCEPT !.numFresh = IF m.blk[b].fresh THEN @ - 1 ELSE @, !.blk[b].fresh = FALSE]
SetInuse(m, b) ==
  [m EXCEPT !.numInuse = IF m.blk[b].inuse THEN @ ELSE (@ + 1) % CounterSize,
            !.blk[b].inuse = TRUE]
ResetInuse(m, b) ==
  [m EXCEPT !.numInuse = IF m.blk[b].inuse THEN (@ - 1) % CounterSize ELSE @,
            !.blk[b].inuse = FALSE]
SetDirty(m, b) == [m EXCEPT !.blk[b].dirty = TRUE]
SetFree(m, b, n) == [m EXCEPT !.blk[b].free = n]

FreshBlocks == {b \in Blocks : mgr.blk[b].fresh}
InuseBlocks == {b \in Blocks : mgr.blk[b].inuse}
DirtyBlocksUnmarked ==  \* wrong variant: every written block is worth collecting
  {b \in Blocks : ~mgr.blk[b].fresh}
DirtyBlocks == {b \in Blocks : mgr.blk[b].dirty}

(* kv_item_walkthru: what a complete walk of a block makes of its entry.   *)
Used(b) == Len(flash[b].items)
Garbage(b) == {s \in 1 .. Used(b) : flash[b].items[s].state = "discarded"}

WalkEnd(m, b) ==
  CASE Used(b) = 0     -> SetFresh(m, b)
    [] Used(b) = Slots -> ResetInuse(SetFree(m, b, 0), b)
    [] OTHER           -> SetInuse(SetFree(m, b, Slots - Used(b)), b)

Walked(m, b) == WalkEnd(IF Garbage(b) # {} THEN SetDirty(m, b) ELSE m, b)

-----------------------------------------------------------------------------
(* Items.                                                                  *)

At(p) == flash[BlockOf(p)].items[SlotOf(p)]

(* The item behind the one at slot s of block b, and the units of the latter. *)
Starts(b) == {s \in 1 .. Used(b) : flash[b].items[s].state # "rest"}
After(b, s) == Min({t \in Starts(b) : t > s} \cup {Used(b) + 1})
Units(b, s) == SubSeq(flash[b].items, s, After(b, s) - 1)
Written == {p \in Positions : SlotOf(p) <= Used(BlockOf(p))}
Live == {p \in Written : At(p).state = "live"}
Copies(k) == {p \in Live : At(p).key = k}

(* kv_item_find and kv_item_find_new_copy: the first match in the blocks   *)
(* that are not fresh; the blocks walked to the end on the way have their  *)
(* entries recomputed.                                                     *)
FirstMatch(S) == FirstOf({p \in S : ~mgr.blk[BlockOf(p)].fresh})

WalkUpTo(p) ==
  LET passed == {b \in Blocks : ~mgr.blk[b].fresh /\ (p = 0 \/ b < BlockOf(p))}
      emptied == {b \in passed : Used(b) = 0}
      opened == {b \in passed : Used(b) \in 1 .. Slots - 1 /\ ~mgr.blk[b].inuse}
      filled == {b \in passed : Used(b) = Slots /\ mgr.blk[b].inuse}
      garbageBefore(b) == p # 0 /\ b = BlockOf(p) /\ \E s \in Garbage(b) : s < SlotOf(p)
  IN  [blk |-> [b \in Blocks |->
                 IF b \in passed THEN Walked(mgr, b).blk[b]
                 ELSE IF garbageBefore(b) THEN SetDirty(mgr, b).blk[b]
                 ELSE mgr.blk[b]],
       numFresh |-> mgr.numFresh + Cardinality(emptied),
       numInuse |-> (mgr.numInuse + Cardinality(opened) - Cardinality(filled)) % CounterSize]

Put(p, it) == [flash EXCEPT ![BlockOf(p)].items[SlotOf(p)] = it]
Discard(p) == Put(p, Broken("discarded"))

(* kv_item_update saves a new item that remembers where the old one was:   *)
(* after a power loss the boot discards the old one (kv_item_try_delete).  *)
IsUpdateOf(p, q) == p # q /\ At(p).prev = q /\ q \in Copies(At(p).key)

-----------------------------------------------------------------------------
Init ==
  /\ flash = [b \in Blocks |-> Erased]
  /\ mgr = NoMgr
  /\ workspace = 0
  /\ pc = "off"
  /\ op = NoOp /\ gc = NoGc /\ scan = NoScan
  /\ result = "none"

(* Boot: ln_kv_init builds the block table (kv_mgr_ctl_build), one block   *)
(* after the other, repairing the items of each as it walks it.            *)
PowerOn ==
  /\ pc = "off"
  /\ pc' = "scan"
  /\ UNCHANGED <<flash, mgr, workspace, op, gc, scan, result>>

NextBlock(s) == [s EXCEPT !.blk = @ + 1, !.slot = 0]

IsSrc(b) == flash[b].src
IsDstNotDone(b) == flash[b].dst /\ ~flash[b].done

ScanHeader ==
  /\ pc = "scan" /\ scan.blk \in Blocks /\ scan.slot = 0
  /\ LET b == scan.blk IN
     \/ /\ ~flash[b].magic
        /\ flash' = [flash EXCEPT ![b] = Formatted]
        /\ mgr' = SetFresh(mgr, b)
        /\ scan' = NextBlock([scan EXCEPT !.fresh = b])
     \/ /\ flash[b].magic /\ IsSrc(b)
        /\ scan' = NextBlock([scan EXCEPT !.srcs = @ \cup {b}])
        /\ UNCHANGED <<flash, mgr>>
     \/ /\ flash[b].magic /\ ~IsSrc(b) /\ IsDstNotDone(b)
        /\ scan' = NextBlock([scan EXCEPT !.dsts = @ \cup {b}])
        /\ UNCHANGED <<flash, mgr>>
     \/ /\ flash[b].magic /\ ~IsSrc(b) /\ ~IsDstNotDone(b)
        /\ scan' = [scan EXCEPT !.slot = 1]
        /\ UNCHANGED <<flash, mgr>>
  /\ UNCHANGED <<workspace, pc, op, gc, result>>

(* kv_item_do_recovery on a complete item, and what kv_item_walkthru does  *)
(* with an incomplete or a discarded one.                                  *)
RecoverKeepingOld ==  \* wrong variant: the item an update replaced is kept
  LET p == PosOf(scan.blk, scan.slot) IN
  /\ flash' = IF At(p).state \in {"torn", "partial"} THEN Discard(p) ELSE flash
  /\ mgr' = IF At(p).state = "live" THEN mgr ELSE SetDirty(mgr, scan.blk)

RecoverItem ==
  LET p == PosOf(scan.blk, scan.slot) IN
  \/ /\ At(p).state \in {"torn", "partial"}
     /\ flash' = Discard(p) /\ mgr' = SetDirty(mgr, scan.blk)
  \/ /\ At(p).state = "discarded"
     /\ mgr' = SetDirty(mgr, scan.blk) /\ UNCHANGED flash
  \/ /\ At(p).state = "live"
     /\ IF IsUpdateOf(p, At(p).prev)
        THEN /\ flash' = Discard(At(p).prev)
             /\ mgr' = SetDirty(mgr, BlockOf(At(p).prev))
        ELSE UNCHANGED <<flash, mgr>>

ScanItem ==
  /\ pc = "scan" /\ scan.blk \in Blocks /\ scan.slot \in 1 .. Used(scan.blk)
  /\ RecoverItem
  /\ scan' = [scan EXCEPT !.slot = After(scan.blk, @)]
  /\ UNCHANGED <<workspace, pc, op, gc, result>>

ScanBlockEndNoFresh ==  \* wrong variant: an empty block is not kept for the repair
  /\ pc = "scan" /\ scan.blk \in Blocks /\ scan.slot > Used(scan.blk)
  /\ mgr' = WalkEnd(mgr, scan.blk)
  /\ scan' = NextBlock(scan)
  /\ UNCHANGED <<flash, workspace, pc, op, gc, result>>

ScanBlockEnd ==
  /\ pc = "scan" /\ scan.blk \in Blocks /\ scan.slot > Used(scan.blk)
  /\ mgr' = WalkEnd(mgr, scan.blk)
  /\ scan' = NextBlock([scan EXCEPT !.fresh = IF Used(scan.blk) = 0 THEN scan.blk ELSE @])
  /\ UNCHANGED <<flash, workspace, pc, op, gc, result>>

(* kv_handle_incomplete_gc.                                                *)
HandleIncompleteGc ==
  /\ pc = "scan" /\ scan.blk = NumBlocks + 1
  /\ scan' = NoScan
  /\ \/ /\ Cardinality(scan.srcs) > 1 \/ Cardinality(scan.dsts) > 1
        /\ pc' = "failed"                            \* KV_ERR_BLK_STATUS_ERROR
        /\ UNCHANGED <<flash, gc>>
     \/ /\ scan.srcs = {} /\ Cardinality(scan.dsts) <= 1
        /\ pc' = "locate"
        /\ UNCHANGED <<flash, gc>>
     \/ /\ Cardinality(scan.srcs) = 1 /\ scan.dsts = {} /\ scan.fresh = 0
        /\ pc' = "failed"                            \* KV_ERR_BLK_STATUS_ERROR
        /\ UNCHANGED <<flash, gc>>
     \/ /\ Cardinality(scan.srcs) = 1 /\ scan.dsts = {} /\ scan.fresh # 0
        /\ gc' = [NoGc EXCEPT !.src = FirstOf(scan.srcs), !.dst = scan.fresh, !.for = "init"]
        /\ pc' = "markDst"
        /\ UNCHANGED flash
     \/ /\ Cardinality(scan.srcs) = 1 /\ Cardinality(scan.dsts) = 1
        /\ gc' = [NoGc EXCEPT !.src = FirstOf(scan.srcs), !.dst = FirstOf(scan.dsts), !.for = "init"]
        /\ flash' = [flash EXCEPT ![FirstOf(scan.dsts)] = Erased]
        /\ pc' = "formatDst"
  /\ UNCHANGED <<mgr, workspace, op, result>>

FormatDst ==
  /\ pc = "formatDst"
  /\ flash' = [flash EXCEPT ![gc.dst] = Formatted]
  /\ mgr' = SetFresh(mgr, gc.dst)
  /\ pc' = "markDst"
  /\ UNCHANGED <<workspace, op, gc, scan, result>>

(* kv_mgr_workspace_locate, with kv_try_gc when a single fresh block and   *)
(* no other space is left.                                                 *)
StartGc(src, dst, for) ==
  /\ gc' = [NoGc EXCEPT !.src = src, !.dst = dst, !.for = for]
  /\ pc' = "markSrc"

NeedsRescue == mgr.numInuse = 0 /\ mgr.numFresh = 1 /\ DirtyBlocks # {}

RescueGc ==
  /\ pc = "locate" /\ NeedsRescue
  /\ StartGc(FirstOf(DirtyBlocks), FirstOf(FreshBlocks), "locate")
  /\ UNCHANGED <<flash, mgr, workspace, op, scan, result>>

(* KV_ERR_NO_WRITEABLE_BLK leaves a store that can be read.                *)
LocateWorkspace ==
  /\ (pc = "locate" /\ ~NeedsRescue) \/ pc = "rescued"
  /\ workspace' = IF mgr.numInuse = 0 THEN FirstOf(FreshBlocks) ELSE FirstOf(InuseBlocks)
  /\ pc' = "idle"
  /\ UNCHANGED <<flash, mgr, op, gc, scan, result>>

Boot ==
  \/ PowerOn \/ ScanHeader \/ ScanItem \/ ScanBlockEnd
  \/ HandleIncompleteGc \/ FormatDst \/ RescueGc \/ LocateWorkspace

-----------------------------------------------------------------------------
(* kv_do_gc.                                                               *)

MarkSrc ==
  /\ pc = "markSrc"
  /\ flash' = [flash EXCEPT ![gc.src].src = TRUE]
  /\ pc' = "markDst"
  /\ UNCHANGED <<mgr, workspace, op, gc, scan, result>>

MarkDst ==
  /\ pc = "markDst"
  /\ flash' = [flash EXCEPT ![gc.dst].dst = TRUE]
  /\ pc' = "copy"
  /\ UNCHANGED <<mgr, workspace, op, gc, scan, result>>

(* kv_item_do_gc on each item that is not discarded.                       *)
CopyItem ==
  /\ pc = "copy" /\ gc.next <= Used(gc.src)
  /\ LET units == Units(gc.src, gc.next) IN
     IF Head(units).state = "discarded"
     THEN UNCHANGED <<flash, mgr>>
     ELSE /\ flash' = [flash EXCEPT ![gc.dst].items = @ \o units]
          /\ mgr' = SetFree(mgr, gc.dst, mgr.blk[gc.dst].free - Len(units))
  /\ gc' = [gc EXCEPT !.next = After(gc.src, @)]
  /\ UNCHANGED <<workspace, pc, op, scan, result>>

EraseSrc ==
  /\ pc = "copy" /\ gc.next > Used(gc.src)
  /\ mgr' = ResetInuse(Walked(mgr, gc.src), gc.src)
  /\ flash' = [flash EXCEPT ![gc.src] = Erased]
  /\ pc' = "formatSrc"
  /\ UNCHANGED <<workspace, op, gc, scan, result>>

FormatSrc ==
  /\ pc = "formatSrc"
  /\ flash' = [flash EXCEPT ![gc.src] = Formatted]
  /\ mgr' = SetFresh(mgr, gc.src)
  /\ pc' = "markDone"
  /\ UNCHANGED <<workspace, op, gc, scan, result>>

(* The caller goes on: ln_kv_init, or kv_blk_search_suitable through kv_gc,*)
(* which also makes the destination the workspace.                         *)
GcEnds ==
  /\ gc' = NoGc
  /\ pc' = CASE gc.for = "search" -> "search"
             [] gc.for = "locate" -> "rescued"
             [] gc.for = "init"   -> "locate"
  /\ workspace' = IF gc.for = "search" THEN gc.dst ELSE workspace

DstUsable(m) ==
  IF m.blk[gc.dst].free # 0 THEN SetInuse(ResetFresh(m, gc.dst), gc.dst) ELSE ResetFresh(m, gc.dst)

MarkDoneStillFresh ==  \* wrong variant: the destination keeps its FRESH flag
  /\ pc = "markDone"
  /\ flash' = [flash EXCEPT ![gc.dst].done = TRUE]
  /\ mgr' = SetInuse(mgr, gc.dst)
  /\ GcEnds
  /\ UNCHANGED <<op, scan, result>>

MarkDoneUnwritten ==  \* wrong variant: the destination never gets its gc_done tag
  /\ pc = "markDone"
  /\ mgr' = DstUsable(mgr)
  /\ GcEnds
  /\ UNCHANGED <<flash, op, scan, result>>

MarkDone ==
  /\ pc = "markDone"
  /\ flash' = [flash EXCEPT ![gc.dst].done = TRUE]
  /\ mgr' = DstUsable(mgr)
  /\ GcEnds
  /\ UNCHANGED <<op, scan, result>>

Gc == MarkSrc \/ MarkDst \/ CopyItem \/ EraseSrc \/ FormatSrc \/ MarkDone

-----------------------------------------------------------------------------
(* ln_kv_get, ln_kv_has_key, a set of the value that is already there and  *)
(* a delete of a key that is not: they only look.                          *)
Find(k) == FirstMatch(Copies(k))

LookUp(k) ==
  /\ pc = "idle"
  /\ mgr' = WalkUpTo(Find(k))
  /\ UNCHANGED <<flash, workspace, pc, op, gc, scan, result>>

BeginOp(k, v) ==
  /\ pc = "idle"
  /\ op' = [key |-> k, val |-> v, pos |-> Find(k),
            item |-> IF Find(k) = 0 THEN NoOp.item ELSE At(Find(k))]
  /\ mgr' = WalkUpTo(Find(k))
  /\ result' = "none"
  /\ UNCHANGED <<flash, workspace, gc, scan>>

BeginSet(k, v) ==
  /\ Find(k) # 0 => At(Find(k)).val # v
  /\ BeginOp(k, v)
  /\ pc' = "search"

BeginDel(k) ==
  /\ Find(k) # 0
  /\ BeginOp(k, NoValue)
  /\ pc' = "discard"

Return(r) == pc' = "idle" /\ op' = NoOp /\ result' = r

(* One round of the loop of kv_blk_search_suitable.  The block it settles  *)
(* on is the workspace.                                                    *)
Roomy == {b \in InuseBlocks : mgr.blk[b].free >= SizeOf(op.val)}
NoWriteableBlock == mgr.numInuse = 0 /\ mgr.numFresh = 0
WorkspaceFitsAlmost ==  \* wrong variant: one unit too few will do
  workspace # 0 /\ mgr.blk[workspace].free + 1 >= SizeOf(op.val)
WorkspaceFits == workspace # 0 /\ mgr.blk[workspace].free >= SizeOf(op.val)
Searching == pc = "search" /\ ~NoWriteableBlock /\ workspace # 0
NoneInuse == Searching /\ ~WorkspaceFits /\ NextInRing(Roomy) = 0
CanCollect == NextInRing(FreshBlocks) # 0 /\ DirtyBlocks # {}

SearchFails ==
  /\ pc = "search"
  /\ NoWriteableBlock \/ workspace = 0 \/ (NoneInuse /\ mgr.numFresh < 1)
  /\ Return("failed")                                \* KV_ERR_INSUFFICIENT_SPACE
  /\ UNCHANGED <<flash, mgr, workspace, gc, scan>>

UseBlock(b) ==
  /\ workspace' = b
  /\ pc' = "fix"
  /\ UNCHANGED <<flash, mgr, op, gc, scan, result>>

UseWorkspace == Searching /\ WorkspaceFits /\ UseBlock(workspace)

UseInuse == Searching /\ ~WorkspaceFits /\ NextInRing(Roomy) # 0 /\ UseBlock(NextInRing(Roomy))

UseFresh ==
  /\ NoneInuse
  /\ mgr.numFresh > 1 \/ (mgr.numFresh = 1 /\ ~CanCollect)
  /\ UseBlock(NextInRing(FreshBlocks))

Collect ==
  /\ NoneInuse /\ mgr.numFresh = 1 /\ CanCollect
  /\ StartGc(FirstOf(DirtyBlocks), NextInRing(FreshBlocks), "search")
  /\ UNCHANGED <<flash, mgr, workspace, op, scan, result>>

Search == SearchFails \/ UseWorkspace \/ UseInuse \/ UseFresh \/ Collect

(* kv_item_save: a collection may have moved the item being replaced, or   *)
(* others to its place (kv_item_is_moved, kv_item_fix).                    *)
Moved == op.pos # 0 /\ ~(op.pos \in Written /\ At(op.pos) = op.item)
NewCopyUnmoved ==  \* wrong variant: the copy is sought by its old place
  FirstMatch({p \in Copies(op.item.key) : At(p).val = op.item.val /\ p = op.pos})
NewCopy == FirstMatch({p \in Copies(op.item.key) : At(p).val = op.item.val})

FixPrevNot ==  \* wrong variant: the position found before the collection is kept
  /\ pc = "fix"
  /\ pc' = "writeHeader"
  /\ UNCHANGED <<flash, mgr, workspace, op, gc, scan, result>>

FixPrev ==
  /\ pc = "fix"
  /\ \/ /\ ~Moved
        /\ pc' = "writeHeader"
        /\ UNCHANGED <<mgr, op, result>>
     \/ /\ Moved /\ NewCopy # 0
        /\ pc' = "writeHeader"
        /\ op' = [op EXCEPT !.pos = NewCopy]
        /\ mgr' = WalkUpTo(NewCopy)
        /\ UNCHANGED result
     \/ /\ Moved /\ NewCopy = 0
        /\ Return("failed")                          \* KV_ERR_POS_FIX_FAILED
        /\ mgr' = WalkUpTo(0)
  /\ UNCHANGED <<flash, workspace, gc, scan>>

(* kv_item_do_save: the header without its magic, the magic, the body.     *)
WriteHeader ==
  /\ pc = "writeHeader"
  /\ flash' = [flash EXCEPT ![workspace].items = Append(@, Broken("torn"))]
  /\ pc' = "writeMagic"
  /\ UNCHANGED <<mgr, workspace, op, gc, scan, result>>

LastOf(b) == PosOf(b, Max(Starts(b)))
Rest(v) == IF v \in Big THEN <<Broken("rest")>> ELSE <<>>

WriteMagic ==
  /\ pc = "writeMagic"
  /\ flash' = [Put(LastOf(workspace), Broken("partial"))
                 EXCEPT ![workspace].items = @ \o Rest(op.val)]
  /\ pc' = "writeBody"
  /\ UNCHANGED <<mgr, workspace, op, gc, scan, result>>

SlotTaken(m, b) ==
  LET reduced == SetFree(m, b, m.blk[b].free - SizeOf(op.val))
      full == reduced.blk[b].free = 0
  IN  IF m.blk[b].fresh
      THEN IF full THEN ResetFresh(reduced, b) ELSE SetInuse(ResetFresh(reduced, b), b)
      ELSE IF full THEN ResetInuse(reduced, b) ELSE reduced

NewItem == [key |-> op.key, val |-> op.val, prev |-> op.pos, state |-> "live"]

WriteBody ==
  /\ pc = "writeBody"
  /\ flash' = Put(LastOf(workspace), NewItem)
  /\ mgr' = SlotTaken(mgr, workspace)
  /\ IF op.pos = 0 THEN Return("ok") ELSE pc' = "discard" /\ UNCHANGED <<op, result>>
  /\ UNCHANGED <<workspace, gc, scan>>

(* kv_item_delete: the end of an update, and all of ln_kv_del.             *)
DiscardOld ==
  /\ pc = "discard"
  /\ flash' = Discard(op.pos)
  /\ mgr' = SetDirty(mgr, BlockOf(op.pos))
  /\ Return("ok")
  /\ UNCHANGED <<workspace, gc, scan>>

Serve == Search \/ FixPrev \/ WriteHeader \/ WriteMagic \/ WriteBody \/ DiscardOld

-----------------------------------------------------------------------------
(* The two windows LossBeforeDone and LossStaleDone open.                  *)
BeforeDone == pc \in {"formatSrc", "markDone"} /\ ~flash[gc.dst].done
StaleDone == pc = "copy" /\ flash[gc.dst].done

PowerLoss ==
  /\ pc # "off"
  /\ BeforeDone => LossBeforeDone
  /\ StaleDone => LossStaleDone
  /\ pc' = "off"
  /\ mgr' = NoMgr /\ workspace' = 0
  /\ op' = NoOp /\ gc' = NoGc /\ scan' = NoScan /\ result' = "none"
  /\ UNCHANGED flash

Next ==
  \/ Boot \/ Gc \/ Serve \/ PowerLoss
  \/ \E k \in Keys : LookUp(k) \/ BeginDel(k) \/ \E v \in Values : BeginSet(k, v)

Spec == Init /\ [][Next]_vars

(* ln_kv_init and the calls run to their end by themselves.                *)
FairSpec == Spec /\ WF_vars(Boot \/ Gc \/ Serve)

-----------------------------------------------------------------------------
(* Properties.                                                             *)

TypeOK ==
  /\ \A b \in Blocks :
       /\ flash[b].magic \in BOOLEAN /\ flash[b].src \in BOOLEAN
       /\ flash[b].dst \in BOOLEAN /\ flash[b].done \in BOOLEAN
       /\ Used(b) <= Slots /\ \A s \in 1 .. Used(b) : flash[b].items[s] \in Item
  /\ mgr.blk \in [Blocks -> [fresh : BOOLEAN, inuse : BOOLEAN, dirty : BOOLEAN, free : 0 .. Slots]]
  /\ mgr.numFresh \in 0 .. NumBlocks /\ mgr.numInuse \in 0 .. CounterSize - 1
  /\ workspace \in {0} \cup Blocks
  /\ op.pos \in {0} \cup Positions
  /\ gc.src \in {0} \cup Blocks /\ gc.dst \in {0} \cup Blocks /\ gc.next \in 1 .. Slots + 1
  /\ result \in {"none", "ok", "failed"}

(* The dictionary the flash holds: of the copies a boot would not format   *)
(* away, those it would not discard either, first the one it meets first.  *)
Kept ==
  LET collecting == \E b \in Blocks : IsSrc(b)
      liveIn(b) == {s \in 1 .. Used(b) : flash[b].items[s].state = "live"}
  IN  UNION {{[at |-> PosOf(b, s), item |-> flash[b].items[s]] : s \in liveIn(b)} :
               b \in {c \in Blocks : ~(collecting /\ IsDstNotDone(c))}}

Overrules(c, d) == c # d /\ c.item.prev = d.at /\ ~(d.item.prev = c.at /\ d.at < c.at)

StoredIn(kept, k) ==
  LET copies == {c \in kept : c.item.key = k}
      lasting == {c \in copies : \A d \in copies : ~Overrules(d, c)}
  IN  IF lasting = {} THEN NoValue
      ELSE (CHOOSE c \in lasting : \A d \in lasting : c.at <= d.at).item.val

Store == LET kept == Kept IN [k \in Keys |-> StoredIn(kept, k)]

(* A set or delete is atomic with respect to power loss, acknowledged ones *)
(* last, failed ones leave no trace, and neither garbage collection nor a  *)
(* boot changes what is stored (ln_kv.c saves first, then deletes).        *)
Dictionary == INSTANCE AtomicKv WITH
  store <- Store, call <- IF op = NoOp THEN <<>> ELSE <<op.key, op.val>>

CallsAreAtomic == Dictionary!Spec

(* Between calls, what ln_kv_get finds, by the block table and the order   *)
(* of the blocks, is what the flash holds: no stale copy is ever found.    *)
GetReturnsStore ==
  pc = "idle" =>
    \A k \in Keys : Store[k] = IF Find(k) = 0 THEN NoValue ELSE At(Find(k)).val

(* Between calls, the block table describes the flash: fresh blocks are    *)
(* empty and counted, free sizes lead to the first unwritten slot, and     *)
(* every block that holds garbage is known to be dirty.                    *)
TableMatchesFlash ==
  pc = "idle" =>
    /\ mgr.numFresh = Cardinality(FreshBlocks)
    /\ \A b \in Blocks :
         /\ mgr.blk[b].free = Slots - Used(b)
         /\ mgr.blk[b].fresh => Used(b) = 0
         /\ mgr.blk[b].inuse <=> ~mgr.blk[b].fresh /\ Used(b) < Slots
         /\ Garbage(b) # {} => mgr.blk[b].dirty

(* A boot repairs every interrupted collection (comment of                 *)
(* kv_handle_incomplete_gc): none is left when ln_kv_init has returned.    *)
GcRepaired == pc = "idle" => \A b \in Blocks : ~IsSrc(b) /\ ~IsDstNotDone(b)

(* A set or delete fails only when the last fresh block is gone: a         *)
(* collection never makes one fail, the item being replaced is found again *)
(* wherever it was moved to (kv_item_fix), and the search ends on a block. *)
FailsOnlyWithoutSpare ==
  [][ pc # "idle" /\ result' = "failed" => mgr.numFresh = 0 ]_vars

(* A power loss never makes the store unusable: ln_kv_init succeeds.       *)
InitSucceeds == pc # "failed"

(* Every call returns: the search for a block collects garbage finitely    *)
(* often.                                                                  *)
CallsReturn == op # NoOp ~> op = NoOp
=============================================================================
