SPECIFICATION Spec
CONSTANTS
  f = f  g = g
  Files = {f, g}
  Heads = {Off, 1}  Tails = {Off}  Off = Off
  MaxUnits <- OneGrows  MaxTruncs = 1
  None = None
INVARIANTS CaughtUp PrintedInOrder
PROPERTIES EverythingShown
