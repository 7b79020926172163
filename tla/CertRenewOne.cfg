SPECIFICATION Spec
CONSTANTS
  Idents <- MCIdents
  Issuers <- MCIssuers
  Trusted <- MCTrusted
  FirstCert <- MCFirstCert
  Offers <- MCOffers
  Agents = {a1}
  Inodes = {i1, i2, i3, i4}
  NoInode = NoInode
  NoCert = NoCert
  Torn = Torn
  RenameAttempts = 2
  SetupIdents <- MCNone
  PowerFails = TRUE
SYMMETRY MCSymmetry
INVARIANTS TypeOK Startable PresentsInstalled
PROPERTIES AtomicReplacement NoRenewLoop
CHECK_DEADLOCK FALSE
