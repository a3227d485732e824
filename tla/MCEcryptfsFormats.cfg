SPECIFICATION Spec
CONSTANTS
  p1 = p1
  p2 = p2
  q256 = q256
  q512 = q512
  q600 = q600
  p3 = p3
  q128 = q128
  Password = {p1, p2, p3}
  Private = {q256, q512, q600, q128}
  Preset = {p3, q128}
  EncSize <- MCEncSize
  CryptStats <- MCCryptStats
  TokenLists <- MCTokenLists
  NameLengths <- MCNameLengths
  LinkLengths <- MCLinkLengths
  LowerLimits = {60, 64, 127, 128, 143, 254, 255}
  BlockSizes = {8, 16}
  KeyBytes = {16, 32}
  Packets <- MCPackets
  Users = {u1, u2}
  Known = {"aes"}
  Unknown = {"rot13"}
  Tokens = {p1, p2}
  None = None
  Pages = {0, 1}
  PerPage = 2
  MaxOps = 4
  Dirs = {d1, d2}
  NSlots = 2
  Inodes = {i1, i2}
  MaxCopies = 2
  MaxBelow = 1
  MaxSteps = 5
  Absent = Absent
  Mounts = {m1}
  Daemons = {d}
  Sigs = {"a", "b"}
  MountOptions <- MCMountOptions
INVARIANTS HeaderReadBack NamesSurvive KeysOwn ExtentsReadBack SomeoneRuns NamesAgree ListingComplete UsedStays NothingLeaks ShownRemounts
SYMMETRY Symmetry
CHECK_DEADLOCK FALSE
