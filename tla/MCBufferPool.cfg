SPECIFICATION Spec
CONSTANTS
  t1 = t1
  t2 = t2
  t3 = t3
  Threads = {t1, t2, t3}
  BufferCount = 3
  IndexMod = 4
  TagMod = 4
  WeakCasMayFail = TRUE
SYMMETRY Symmetry
INVARIANTS TypeOK NeverDoubleIssued ChainIsStack OnePlace LocalsAgree
PROPERTIES InvalidOnlyWhenExhausted ImplementsFreeStack
