\* One server; up to four calls of one or two phones; chunks of two so a
\* batch of three or four phones spans two hash_lookup calls; capacities 0
\* (test_zero_max_batch), 3 (a second two-phone call does not fit) and 5
\* (three chunks, the last short);
\* in_phone_count 16 overflows the uuid size at a 255 usize, 32 both;
\* query sizes shorter than the commitment nonce (24), not a whole number
\* of phones (36), zero, one, two and three phones (32, 40, 48, 56).
CONSTANTS
  p1 = p1
  p2 = p2
  u1 = u1
  u0 = u0
  Phones = {p1, p2}
  Directory <- MCDirectory
  ZeroUuid = u0
  MaxCalls = 4
  MaxQuery = 2
  Capacities = {0, 3, 5}
  MaxHashTableSize = 2
  UsizeMax = 255
  InPhoneCounts = {1, 16, 32}
  QuerySizes = {24, 32, 36, 40, 48, 56}

SPECIFICATION Spec
INVARIANT TypeOK RepliesMatchQueries BatchConsistent
PROPERTY BatchSpec
