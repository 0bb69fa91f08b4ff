\* Two transfers, one on top of the other, each failing, cut off or through.
SPECIFICATION InstallSpec
CONSTANTS
  Nothing = Nothing
  LastEntry = 4
  Transfers = 2
  Directories <- TwoDirectories
INVARIANTS TypeOK SwapSafe
