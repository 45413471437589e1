\* Spec section 8, scenario 1: update_ratelimit_state on a fresh 52-byte
\* slab (36 plaintext bytes after the 16-byte MAC) with one phone.
CONSTANTS
  Uuids = {u1}
  Phones = {p1, p2}
  Threads = {t1}
  NonceMax = 3
  MaxCalls = 2
  MaxQuery = 1
  PlaintextLen = 36
  UsizeMax = 65535
  U32Max = 255
  MaxRestarts = 0
  NoState = NoState
  NoThread = NoThread
  NoCall = NoCall

SPECIFICATION Spec
PROPERTY FreshSinglePhoneAccepted
