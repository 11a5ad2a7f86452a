\* Sectors of four bytes, a receive buffer of four, an OTA partition of two
\* sectors and two sectors of its neighbours; two connections.
\* After the bound, and after the reboot, nothing more happens.
CONSTANTS
  old = old
  new = new
  full = full
  big = big
  archive = archive
  Images <- MCImages
  Kind <- MCKind
  Release <- MCRelease
  OrigSize <- MCOrigSize
  PackedSize <- MCPackedSize
  AppSpace = 10
  AppImage = old
  Sector = 4
  Last = 1
  Top = 3
  Junk = Junk
  Before = {Junk, old, new}
  RecvMax = 4
  ChunkLen = 5
  Lengths <- MCLengths
  MaxAttempts = 2
SPECIFICATION Spec
INVARIANTS TypeOK NothingLost CompleteVerifies
PROPERTIES NeighboursKept DownloadSteps
CHECK_DEADLOCK FALSE
