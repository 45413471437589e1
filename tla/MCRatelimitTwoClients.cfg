\* Two clients, so that slabs of one client are replayed to the other and
\* threads on different cells interleave; one enclave restart.
CONSTANTS
  Uuids = {u1, u2}
  Phones = {p1, p2}
  Threads = {t1, t2}
  NonceMax = 3
  MaxCalls = 3
  MaxQuery = 1
  PlaintextLen = 52
  UsizeMax = 65535
  U32Max = 255
  MaxRestarts = 1
  NoState = NoState
  NoThread = NoThread
  NoCall = NoCall

SPECIFICATION Spec
PROPERTY AbstractSpec
SYMMETRY Symmetry
