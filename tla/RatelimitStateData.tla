------------------------- MODULE RatelimitStateData -------------------------
(***************************************************************************)
(* The plaintext layout of a client's rate-limit state (RatelimitStateData *)
(* in src/enclave/cds_enclave/src/service/main.rs): a little-endian u32    *)
(* size limit followed by the slots of the external ratelimit_set.         *)
(*                                                                         *)
(* The operators are pure.  Integer widths are parameters: usize and u32   *)
(* arithmetic wraps, saturates or truncates exactly as the Rust code does, *)
(* at the widths UsizeMax and U32Max the model is given.  The set itself   *)
(* (ratelimit_set_add / ratelimit_set_size, C code outside src/) is        *)
(* abstracted to a set of entries whose size is its cardinality.           *)
(***************************************************************************)
EXTENDS Naturals, FiniteSets

CONSTANTS
  UsizeMax,   \* usize::MAX
  U32Max      \* u32::MAX

ASSUME UsizeMax \in Nat /\ U32Max \in Nat /\ U32Max <= UsizeMax

\* size_limit_data_len(): the 4 bytes of the little-endian size limit.
SizeLimitDataLen == 4

\* u32::saturating_add.
SaturatingAddU32(a, b) == IF a + b > U32Max THEN U32Max ELSE a + b

\* Mutant of SlotCount: the raw slot count, without the 3/4 load factor.
SlotCountNoLoadFactor(len) ==
  ((len - SizeLimitDataLen) % (UsizeMax + 1)) \div 8

\* slot_count(): the effective slot count of a plaintext slab of len bytes.
\* `len - 4` is a plain usize subtraction, which wraps in a release build
\* when len < 4; the product saturates; the final `as u32` truncates.
SlotCount(len) ==
  LET slotsDataLen == (len - SizeLimitDataLen) % (UsizeMax + 1)
      slotCountRaw == slotsDataLen \div 8
      tripled      == IF slotCountRaw * 3 > UsizeMax THEN UsizeMax
                                                     ELSE slotCountRaw * 3
  IN (tripled \div 4) % (U32Max + 1)

\* set_size_limit(lower, range): the size limits it can write.  RdRand gives
\* a uniform u32 r; r % range takes every value of 0..range-1.  For range 0
\* the constant-time remainder is NaN and its conversion to u64 is not
\* specified by the code, so every u32 is a possible outcome.
SizeLimits(lowerLimitInclusive, range) ==
  IF range = 0
  THEN {SaturatingAddU32(r, lowerLimitInclusive) : r \in 0..U32Max}
  ELSE {SaturatingAddU32(r, lowerLimitInclusive) : r \in 0..(range - 1)}

\* The size limits a fresh (all-zero) slab of len bytes may be given by
\* RatelimitState::update: set_size_limit(slot_count / 2, slot_count / 2).
\* A slab shorter than the size-limit field makes set_size_limit fail.
FreshSizeLimits(len) ==
  IF len < SizeLimitDataLen THEN {}
  ELSE SizeLimits(SlotCount(len) \div 2, SlotCount(len) \div 2)

\* add(): the set after inserting the phones, and whether the add is within
\* the limit (ratelimit_set_size(slots) < size_limit).
AddedSet(set, phones) == set \cup phones
WithinLimit(limit, set, phones) == Cardinality(AddedSet(set, phones)) < limit
=============================================================================
