SPECIFICATION Spec
CONSTANTS
  Nil = Nil
  g = g
  a1 = a1
  a2 = a2
  a3 = a3
  a4 = a4
  b2 = b2
  b3 = b3
  b4 = b4
  b5 = b5
  c3 = c3
  c4 = c4
  Blocks = {g, a1, a2, a3, a4, b2, b3, b4, b5, c3, c4}
  Genesis = g
  Parent <- MCParent
  Height <- MCHeight
  Depths = {2}
PROPERTY
  VerifiedIsConfirmed
