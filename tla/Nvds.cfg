\* Three fields (the version and two others), two values: every power loss,
\* and a reader in another task.
CONSTANTS
  NumFields = 3
  Values = {v1, v2}
  VersionText = v1
  Blank = Blank
  Torn = Torn
  NoCall = NoCall
SPECIFICATION Spec
INVARIANTS TypeOK ReadsCurrent
PROPERTY WritesAreAtomic
