CONSTANTS
  Uuids = {u1}
  Phones = {p1, p2}
  Threads = {t1, t2}
  NonceMax = 4
  MaxCalls = 4
  MaxQuery = 1
  PlaintextLen = 52
  UsizeMax = 65535
  U32Max = 255
  MaxRestarts = 1
  NoState = NoState
  NoThread = NoThread
  NoCall = NoCall

SPECIFICATION Spec
INVARIANT TypeOK NoReplay
PROPERTY RevealedNoncesIncrease AbstractSpec
SYMMETRY Symmetry
