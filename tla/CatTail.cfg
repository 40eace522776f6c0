SPECIFICATION Spec
CONSTANTS
  f = f  g = g
  Files = {f}
  Heads = {Off}  Tails = {1}  Off = Off
  MaxUnits <- OneGrows  MaxTruncs = 0
  None = None
INVARIANTS TailKeepsLast
