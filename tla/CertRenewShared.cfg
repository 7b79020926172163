SPECIFICATION Spec
CONSTANTS
  Idents <- MCIdents
  Issuers <- MCIssuers
  Trusted <- MCTrusted
  FirstCert <- MCFirstCert
  Offers <- MCTwoKeys
  Agents = {a1, a2}
  Inodes = {i1, i2, i3, i4}
  NoInode = NoInode
  NoCert = NoCert
  Torn = Torn
  RenameAttempts = 1
  SetupIdents <- MCNext
  PowerFails = FALSE
SYMMETRY MCSymmetry
INVARIANTS NothingUnverified PairAtRest
CHECK_DEADLOCK FALSE
