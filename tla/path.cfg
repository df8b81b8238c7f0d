SPECIFICATION Spec
CONSTANTS
  Inv = {i1, i2, i3}
  None = None
  Modes = {"plain", "force", "remove", "attachremove", "send", "laforce"}
SYMMETRY Symmetry
INVARIANT TypeOK
PROPERTY OnlyNewcomersCutOff
CHECK_DEADLOCK FALSE
