CONSTANTS
  a = a
  b = b
  c = c
  k1 = k1
  Partial = Partial
  Sessions = {a, b, c}
  Keys = {k1}
  Settings <- Circumstances
SPECIFICATION Spec
INVARIANTS PrefsInv WholeFile OneHolder
PROPERTIES NoLostUpdate ImplementsRegister
SYMMETRY SessionSymmetry
