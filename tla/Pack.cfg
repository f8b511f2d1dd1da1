CONSTANTS
  Inputs <- MCInputs
  Limits <- MCLimits
SPECIFICATION Spec
INVARIANTS Ceiling NoRoomWasted YieldsIntact
