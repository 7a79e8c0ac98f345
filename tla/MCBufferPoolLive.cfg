SPECIFICATION LiveSpec
CONSTANTS
  t1 = t1
  t2 = t2
  t3 = t3
  Threads = {t1, t2, t3}
  BufferCount = 2
  IndexMod = 4
  TagMod = 4
  WeakCasMayFail = FALSE
PROPERTIES LockFree
