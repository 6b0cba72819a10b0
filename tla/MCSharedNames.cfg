SPECIFICATION Spec
CONSTANTS
  ta = ta  tb = tb  tc = tc  td = td
  x1 = x1  x2 = x2
  Text <- MCText
  Hash <- MCHash
  HashOf <- MCHashOf
  Addr = {a1, a2, a3, a4}
  Handle = {h1, h2, h3}
  None = None
  MaxDepth = 2
SYMMETRY Symmetric
INVARIANTS TextKept Shared ScopeFrees IndexFaithful
