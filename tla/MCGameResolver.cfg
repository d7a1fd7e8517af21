CONSTANTS
  h1 = h1
  p1 = p1
  g1 = g1
  g2 = g2
  zero = zero
  r1 = r1
  r2 = r2
  Hashes <- MCHashes
  Submitters <- MCSubmitters
  Games <- MCGames
  ZeroAddress = zero
  Roots <- MCRoots
  MaxL2Block = 2
  OpNodeMayHang = FALSE
SPECIFICATION Spec
INVARIANTS TypeOK RecordFaithful
