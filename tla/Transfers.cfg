\* Uploads, pushes to two hosts and listings of their directories.
SPECIFICATION Spec
CONSTANTS
  Conns = {h1, h2}
  Files = {long, short}
  Names = {name}
  Name <- OneName
  Size <- Blocks
  Batches <- OneOrTwo
  Ids = {i1, i2}
  Uploads = {a1}
  Pushes = {p1, p2}
  Lists = {l1, l2}
  MaxLists = 2
  None = None
  Hole = Hole
  long = long
  short = short
  name = name
SYMMETRY Symmetric
INVARIANTS TypeOK NamedIsWhole CompletedIsCopied ReportedIsListed
CHECK_DEADLOCK FALSE
