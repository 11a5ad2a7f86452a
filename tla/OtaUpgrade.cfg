\* Seven images of two releases in three blocks: a restore and a download can
\* each be cut in the middle.
CONSTANTS
  old = old
  new = new
  other = other
  big = big
  archive = archive
  broken = broken
  diff = diff
  Images <- MCImages
  Originals <- MCOriginals
  Fits <- MCFits
  Kind <- MCKind
  Release <- MCRelease
  Unpacked <- MCUnpacked
  Last = 2
  Junk = Junk
  Nothing = Nothing
SPECIFICATION FairSpec
INVARIANTS TypeOK LostOnlyToArchive
PROPERTIES UpgradeIsAtomic UpgradeCompletes
