----------------------------- MODULE OtaDownload -----------------------------
(***************************************************************************)
(* The download of an image (components/ln_at_cmd/ota/ln_at_cmd_ota.c): the*)
(* http_ota thread gets a file through the HTTP client of module HttpGet,  *)
(* whose callback gathers the body in a buffer of one sector and writes    *)
(* sector after sector into the OTA partition.  It is the detailed form of *)
(* what OtaUpgrade says of a download, and implements it.                  *)
(*                                                                         *)
(* Abstractions.  A byte of an image is a pair of the image and its number,*)
(* the header is the first one, and a byte of no image is Blank.  A sector *)
(* is erased and programmed in one step (OtaUpgrade: a power loss leaves   *)
(* Junk).  One power cycle; OtaUpgrade has the boots.                      *)
(***************************************************************************)
EXTENDS HttpGet

CONSTANTS
  Images,      \* what a server may send
  Kind,        \* image_type of each: "original", "xz" or "diff"
  Release,     \* ver_major and ver_minor of each
  OrigSize,    \* img_size_orig and the header
  PackedSize,  \* img_size_orig_xz and the header
  AppSpace,    \* APP_SPACE_SIZE
  AppImage,     \* the image that runs
  Sector,      \* SECTOR_SIZE_4KB
  Last,        \* the last sector of the OTA partition
  Top,         \* the last sector a download may write
  Junk,        \* no image
  Before,      \* what the OTA partition may hold from an earlier use
  MaxAttempts  \* bound: the connections of a power cycle

OtaSpace == (Last + 1) * Sector  \* OTA_SPACE_SIZE
Size(i) == IF Kind[i] = "original" THEN OrigSize[i] ELSE PackedSize[i]

(* An image reaches into the last sector of the partition, or beyond, and  *)
(* what the HTTP client receives at once fits into a sector (2048, 4096).  *)
ASSUME DownloadAssumption ==
  /\ AppImage \in Images /\ Junk \notin Images /\ Before \subseteq Images \cup {Junk}
  /\ Kind \in [Images -> {"original", "xz", "diff"}]
  /\ DOMAIN Release = Images
  /\ {OrigSize, PackedSize} \subseteq [Images -> Nat] /\ AppSpace \in Nat
  /\ Sector \in Nat /\ Sector > 1 /\ RecvMax <= Sector /\ Last \in Nat \ {0}
  /\ \A i \in Images : Size(i) > Last * Sector /\ Size(i) \in Lengths
  /\ Top \in Nat /\ \A n \in Lengths : n \div (Sector - 1) <= Top
  /\ MaxAttempts \in Nat

VARIABLES
  flash,       \* the sectors from the start of the OTA partition
  upg,         \* the upgrade state kept in the non-volatile data store
  pc,          \* where the http_ota thread stands
  stream,      \* the image the server sends
  buffer,      \* temp4K_buf
  allocated,   \* temp4K_buf # NULL
  offset,      \* temp4k_offset
  flushed,     \* flash_ota_offset, in sectors
  fills,       \* observer: the bytes of the body in each flushed sector
  precheckOk,  \* is_precheck_ok
  ready,       \* is_ready_to_verify
  attempts     \* bound: the connections so far

writer == <<flash, buffer, allocated, offset, flushed, fills>>
flags == <<precheckOk, ready>>
thread == <<upg, pc, stream, attempts>>
vars == <<http, writer, flags, thread>>

Blank == <<Junk, 0>>
Cells == {Blank} \cup (Images \X (Nat \ {0}))
BlankSector == [k \in 1..Sector |-> Blank]

(* Sector s as the image i fills it; what is behind its end does not count.*)
Matches(s, i) ==
  \A k \in 1..Sector : s * Sector + k <= Size(i) => flash[s][k] = <<i, s * Sector + k>>

TypeOK ==
  /\ HttpTypeOK
  /\ flash \in [0..Top -> [1..Sector -> Cells]]
  /\ upg \in {"unset", "downloadOk"}
  /\ pc \in {"run", "receive", "leave", "accept", "reboot"}
  /\ stream \in Images
  /\ buffer \in [1..Sector -> Cells] /\ allocated \in BOOLEAN
  /\ offset \in 0..Sector /\ flushed \in 0..Top
  /\ fills \in Seq({Sector - 1, Sector})
  /\ precheckOk \in BOOLEAN /\ ready \in BOOLEAN
  /\ attempts \in 0..MaxAttempts

Init ==
  /\ HttpInit
  /\ \E i \in Before :
       flash = [s \in 0..Top |-> [k \in 1..Sector |->
         IF i # Junk /\ s * Sector + k <= Size(i) THEN <<i, s * Sector + k>> ELSE Blank]]
  /\ upg = "unset" /\ pc = "run" /\ stream \in {AppImage} /\ attempts = 0
  /\ buffer = BlankSector /\ allocated = FALSE /\ offset = 0 /\ flushed = 0 /\ fills = <<>>
  /\ precheckOk = FALSE /\ ready = FALSE

-----------------------------------------------------------------------------
(* ota_persistent_start and the request; the buffer of an attempt that did *)
(* not finish is still there, with what it holds.  A server may have a     *)
(* file that ends early.                                                   *)
Attempt ==
  /\ attempts < MaxAttempts /\ attempts' = attempts + 1
  /\ pc' = "receive"
  /\ \E i \in Images, m \in Modes, n \in Lengths :
       n <= Size(i) /\ stream' = i /\ Connect([mode |-> m, length |-> n])
  /\ buffer' = IF allocated THEN buffer ELSE BlankSector
  /\ allocated' = TRUE
  /\ offset' = 0 /\ flushed' = 0 /\ fills' = <<>>
  /\ UNCHANGED <<flash, upg, flags>>

Start == pc = "run" /\ Attempt

Receive ==
  /\ pc = "receive"
  /\ Read \/ ReadFails \/ Parse
  /\ UNCHANGED <<writer, flags, thread>>

(* ota_download_precheck: kind, version and the sizes the header announces.*)
SizesFit(i) == OrigSize[i] <= AppSpace /\ PackedSize[i] <= OtaSpace
Precheck(i) == Kind[i] \in {"original", "xz"} /\ Release[i] # Release[AppImage] /\ SizesFit(i)

(* ota_persistent_write.                                                   *)
Body == [k \in 1..Len(Delivered) |-> <<stream, Delivered[k].n>>]
TakenAll == Len(Body)  \* wrong variant: the end of the buffer is not looked at
Taken == IF offset + Len(Body) < Sector THEN Len(Body) ELSE Sector - offset
Filled == [k \in 1..Sector |-> IF k \in offset + 1..offset + Taken THEN Body[k - offset] ELSE buffer[k]]
Flushes == offset + Taken >= Sector - 1

WriteBuffer ==
  /\ pc = "receive" /\ Deliver /\ ~Flushes
  /\ buffer' = Filled /\ offset' = offset + Taken
  /\ UNCHANGED <<flash, allocated, flushed, fills, flags, thread>>

WriteSectorForgetting ==  \* wrong variant: the part behind the sector is not kept
  /\ pc = "receive" /\ Deliver /\ Flushes
  /\ flushed = 0 => Precheck(stream)
  /\ precheckOk' = (precheckOk \/ flushed = 0)
  /\ flash' = [flash EXCEPT ![flushed] = Filled]
  /\ flushed' = flushed + 1 /\ fills' = Append(fills, offset + Taken)
  /\ buffer' = BlankSector /\ offset' = 0
  /\ UNCHANGED <<allocated, ready, thread>>

WriteSector ==
  /\ pc = "receive" /\ Deliver /\ Flushes
  /\ flushed = 0 => Precheck(stream)
  /\ precheckOk' = (precheckOk \/ flushed = 0)
  /\ flash' = [flash EXCEPT ![flushed] = Filled]
  /\ flushed' = flushed + 1 /\ fills' = Append(fills, offset + Taken)
  /\ LET rest == Len(Body) - Taken
     IN  /\ buffer' = [k \in 1..Sector |-> IF k <= rest THEN Body[Taken + k] ELSE Blank]
         /\ offset' = rest
  /\ UNCHANGED <<allocated, ready, thread>>

(* The callback fails, and the thread leaves; the buffer stays as it is.   *)
Refuse ==
  /\ pc = "receive" /\ Delivers /\ Flushes
  /\ flushed = 0 /\ ~Precheck(stream)
  /\ precheckOk' = FALSE
  /\ buffer' = Filled /\ offset' = offset + Taken
  /\ pc' = "leave" /\ step' = "error"
  /\ UNCHANGED <<response, parser, got, any, flash, allocated, flushed, fills, ready, upg, stream, attempts>>

FinishAhead ==  \* wrong variant: the last sector goes behind the next one
  /\ pc = "receive" /\ step = "end"
  /\ flash' = [flash EXCEPT ![flushed + 1] = buffer]
  /\ allocated' = FALSE /\ offset' = 0 /\ flushed' = 0
  /\ ready' = TRUE
  /\ step' = "done"
  /\ pc' = IF any THEN "leave" ELSE "receive"
  /\ UNCHANGED <<response, parser, got, any, buffer, fills, precheckOk, upg, stream, attempts>>

(* http_get_callback at the end of the response: ota_persistent_finish,    *)
(* which writes the buffer whatever is in it, and the return to the thread,*)
(* which leaves if there was a body.                                       *)
Finish ==
  /\ pc = "receive" /\ step = "end"
  /\ flash' = [flash EXCEPT ![flushed] = buffer]
  /\ allocated' = FALSE /\ offset' = 0 /\ flushed' = 0
  /\ ready' = TRUE
  /\ step' = "done"
  /\ pc' = IF any THEN "leave" ELSE "receive"
  /\ UNCHANGED <<response, parser, got, any, buffer, fills, precheckOk, upg, stream, attempts>>

(* http_ota_entry, behind http_get_with_callback: a connection that failed *)
(* is tried again when an image has passed the precheck, one that brought  *)
(* nothing always, and otherwise the thread leaves.                        *)
Again == IF step = "error" THEN precheckOk ELSE ~any

Retry == pc = "receive" /\ step \in {"closed", "done", "error"} /\ Again /\ Attempt

GiveUp ==
  /\ pc = "receive" /\ step \in {"closed", "done", "error"} /\ ~Again
  /\ pc' = "leave"
  /\ UNCHANGED <<http, writer, flags, upg, stream, attempts>>

(* ota_verify_download: every byte of the image the header announces.      *)
Verified == \E i \in Images : \A s \in 0..Top : Matches(s, i)

LeaveUnverified ==  \* wrong variant: two flags stand for the verification
  /\ pc = "leave"
  /\ pc' = IF precheckOk /\ ready THEN "accept" ELSE "run"
  /\ Disconnect
  /\ UNCHANGED <<writer, flags, upg, stream, attempts>>

Leave ==
  /\ pc = "leave"
  /\ pc' = IF precheckOk /\ ready /\ Verified THEN "accept" ELSE "run"
  /\ Disconnect
  /\ UNCHANGED <<writer, flags, upg, stream, attempts>>

Accept ==  \* update_ota_state, and ln_chip_reboot
  /\ pc = "accept"
  /\ upg' = "downloadOk"
  /\ pc' = "reboot"
  /\ UNCHANGED <<http, writer, flags, stream, attempts>>

Next ==
  Start \/ Receive \/ WriteBuffer \/ WriteSector \/ Refuse \/ Finish \/ Retry \/ GiveUp \/ Leave \/ Accept

Spec == Init /\ [][Next]_vars

-----------------------------------------------------------------------------
(* Properties.                                                             *)

(* However the connection cuts up the response, and whatever its framing,  *)
(* the flushed sectors and the buffer hold exactly the bytes of the body   *)
(* the parser has gone through, each once and in order.                    *)
NothingLost ==
  pc = "receive" /\ step \in {"read", "parse", "end"} =>
    Seqs!FlattenSeq([s \in 1..flushed |-> SubSeq(flash[s - 1], 1, fills[s])]) \o SubSeq(buffer, 1, offset)
      = [k \in 1..Passed |-> <<stream, k>>]

(* The thread that leaves behind a connection that brought a whole file    *)
(* has one that verifies, but for four ways to miss it: a call of          *)
(* ota_persistent_write came to stop one byte before the end of a sector,  *)
(* which is flushed without its last byte; an error of the connection or   *)
(* of the parser, or a refused file; the peer closed before all had come;  *)
(* or the close of the connection is what tells the end of the body: then  *)
(* http_get_with_callback leaves its loop without the finishing callback,  *)
(* and the sector begun is never written.                                  *)
FlushedWhole == \A s \in 1..Len(fills) : fills[s] = Sector
CutShort == got < Len(Wire)

CompleteVerifies ==
  pc = "leave" /\ response.length = Size(stream) =>
    \/ Verified
    \/ ~FlushedWhole
    \/ step = "error"
    \/ step = "closed" /\ (CutShort \/ response.mode = "close")

(* What is behind the OTA partition (the configuration and the stores) is  *)
(* overwritten only by a file that fills the partition, which the precheck *)
(* lets an original image do, or after a sector without its last byte.     *)
NeighboursKept ==
  [][\A s \in (Last + 1)..Top : flash'[s] # flash[s] =>
       response.length >= OtaSpace \/ ~FlushedWhole]_vars

(* The thread does what OtaUpgrade says of a download: an image the        *)
(* precheck refuses is not written, the blocks come in order, and the      *)
(* upgrade state is set for a complete image only, though the two flags    *)
(* outlive the attempts that set them.                                     *)
Held(s) ==
  LET of == {i \in Images : \A t \in 0..Top : t = s \/ (s = Last /\ t > Last) => Matches(t, i)}
  IN  IF of = {} THEN Junk ELSE CHOOSE i \in of : TRUE

Upgrade == INSTANCE OtaUpgrade WITH
  Originals <- {i \in Images : Kind[i] = "original"},
  Unpacked <- [i \in Images |-> IF Kind[i] = "original" THEN i ELSE Junk],
  Fits <- {i \in Images : SizesFit(i)},
  Nothing <- Blank,
  app <- [s \in 0..Last |-> AppImage],
  ota <- [s \in 0..Last |-> Held(s)],
  next <- IF flushed < Last THEN flushed ELSE Last

DownloadSteps == [][Upgrade!Download \/ Upgrade!Leave \/ Upgrade!Accept]_(Upgrade!vars)
=============================================================================
