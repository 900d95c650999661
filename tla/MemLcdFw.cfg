SPECIFICATION FairSpec
CONSTANTS
  Height = 3
  HostLines = {0, 2, 3, 4}
  Sizes = {2, 3}
  MaxVersion = 2
INVARIANTS
  TypeOK
  NoLineLost
PROPERTIES
  ImplementsDisplay
  LastLineShown
