CONSTANTS
  Others = {"bootloader", "partition-table"}
  Releases = {r1, r2}
  NoRelease = NoRelease
  Moved = {2}
  MaxEdits = 3
  Alone = TRUE
SPECIFICATION Spec
INVARIANTS
  ReleaseDescribed
  BoardCoherent
