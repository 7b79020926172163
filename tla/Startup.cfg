SPECIFICATION Spec
CONSTANTS
  Hosts = {1, 2, 3}
  Missing = Missing
  Unreadable = Unreadable
  CAs = {1, 2, 3}
  NoCA = NoCA
  Embedded <- MCEmbedded
  NoOverride = NoOverride
  NotThere = NotThere
  Refused = Refused
  Server = Server
  Idents = {i1, i2}
  Torn = Torn
  Local = 1
  Inputs <- MCInputs
  Edits <- MCEdits
  Overrides <- MCOverrides
SYMMETRY MCSymmetry
INVARIANTS TypeOK StrictBundle TrustsWhatWasAsked CheckAgreesWithRun ListAsTyped
CHECK_DEADLOCK FALSE
