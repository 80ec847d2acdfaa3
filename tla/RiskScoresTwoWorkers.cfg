\* Two workers: an older read may be saved last.
CONSTANTS
  old = old
  new = new
  role = role
  exposure = exposure
  high = high
  low = low
  even = even
  sharp = sharp
  Rename = Rename
  Assets <- JustNew
  Older = {}
  Fields = {exposure}
  Values = {high}
  None = None
  Weights = {even, sharp}
  Clients = {c1}
  Workers = {w1, w2}
  MaxChanges = 2
SPECIFICATION Spec
CHECK_DEADLOCK FALSE
INVARIANTS
  ScoresFollowContext
