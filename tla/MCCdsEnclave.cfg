\* One client; the server's dispatching thread d and one other thread t1;
\* up to three ecalls on the map (the server's ratelimit calls among
\* them) and three handle_calls, so that a ratelimit call of the server
\* can meet a free or delete ecall of the other thread on the same cell.
\* Capacity 0 refuses every ratelimit call, 2 lets them in; the map may
\* be present or not.
CONSTANTS
  p1 = p1
  p2 = p2
  u1 = u1
  u0 = u0
  Uuids = {u1}
  Phones = {p1, p2}
  Dispatcher = d
  Others = {t1}
  NonceMax = 2
  RlMaxCalls = 3
  MaxQuery = 1
  PlaintextLen = 52
  UsizeMax = 255
  U32Max = 255
  NoState = NoState
  NoThread = NoThread
  NoCall = NoCall
  Directory <- MCDirectory
  SrvMaxCalls = 2
  Capacities = {0, 2}
  MaxHashTableSize = 2
  InPhoneCounts = {1}
  QuerySizes = {40}
  ZeroUuid = u0

SPECIFICATION Spec
PROPERTY EmptyReplyMeansRecorded
