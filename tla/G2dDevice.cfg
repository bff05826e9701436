SPECIFICATION Spec
CONSTANTS
  c1 = c1
  c2 = c2
  Callers = {c1, c2}
  Nobody = Nobody
  b1 = b1
  b2 = b2
  Buffers = {b1, b2}
  Contiguous = {b1}
  NotADmaBuf = NotADmaBuf
INVARIANTS NothingLeaks ClocksFollowDevice
