SPECIFICATION Spec
CONSTANTS
  Idents <- MCIdents
  Issuers <- MCIssuers
  Trusted <- MCTrusted
  FirstCert <- MCFirstCert
  Offers <- MCOneOffer
  Agents = {a1, a2}
  Inodes = {i1, i2, i3, i4}
  NoInode = NoInode
  NoCert = NoCert
  Torn = Torn
  RenameAttempts = 1
  SetupIdents <- MCNone
  PowerFails = FALSE
SYMMETRY MCSymmetry
INVARIANT WholeCertificate
CHECK_DEADLOCK FALSE
