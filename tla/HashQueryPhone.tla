---------------------------- MODULE HashQueryPhone ----------------------------
(***************************************************************************)
(* hash_query_phone, hash_ascii_phone and hash_truncated of                *)
(* src/enclave/cds_enclave/src/service/main.rs: a phone number is rendered *)
(* as a fixed number of decimal digits, every suffix of the rendering is   *)
(* hashed as SHA1("+" || suffix), and the hash of the suffix that starts   *)
(* at the first non-zero digit is selected in constant time.               *)
(*                                                                         *)
(* Bytes are abstracted to digits 0..9 and Plus for '+'.  SHA-1 is ideal:  *)
(* Sha1Prefix maps each byte string to its own value, disjoint from the    *)
(* phones, so two hashes are equal only when their inputs are.  Digits is  *)
(* the width of the rendering (20 in the code) and PhoneMax the largest    *)
(* phone (u64::MAX in the code, which has 20 digits).                      *)
(***************************************************************************)
EXTENDS Naturals, Sequences, SequencesExt

CONSTANTS
  Digits,    \* length of ascii_phone
  PhoneMax   \* largest phone value

ASSUME Digits \in Nat \ {0} /\ PhoneMax \in Nat /\ PhoneMax < 10 ^ Digits

\* The '+' byte.
Plus == 10

\* The first 8 bytes of SHA1(data), as a value of its own for every data.
Sha1Prefix(data) ==
  PhoneMax + 1 + FoldLeft(LAMBDA acc, b : acc * 12 + b + 1, 0, data)

\* The loop of hash_query_phone: n constant-time divrem-by-10 steps, the
\* last remainder written to the last byte, so the rendering is the value
\* zero-padded on the left to n digits.
RECURSIVE Render(_, _)
Render(quotient, n) ==
  IF n = 0 THEN <<>>
  ELSE Render(quotient \div 10, n - 1) \o <<quotient % 10>>

\* The state of hash_ascii_phone's loop: the phone being assigned, the
\* leading_zeroes Choice, and (history) the data hashed so far.
Start(phone) == [phone |-> phone, leadingZeroes |-> TRUE, hashed |-> <<>>]

\* Mutant of Step: leading_zeroes updated before the choice is formed.
StepLeadingZeroesFirst(st, suffix) ==
  LET leadingZero == suffix[1] = 0
      lz == st.leadingZeroes /\ leadingZero
      choice == lz /\ ~leadingZero
  IN [phone |-> IF choice THEN Sha1Prefix(<<Plus>> \o suffix) ELSE st.phone,
      leadingZeroes |-> lz,
      hashed |-> Append(st.hashed, suffix)]

\* One iteration: hash_truncated(suffix, phone, leading_zeroes & !zero)
\* hashes "+" || suffix and conditionally assigns it; then
\* leading_zeroes &= zero.
Step(st, suffix) ==
  LET leadingZero == suffix[1] = 0
      choice == st.leadingZeroes /\ ~leadingZero
  IN [phone |-> IF choice THEN Sha1Prefix(<<Plus>> \o suffix) ELSE st.phone,
      leadingZeroes |-> st.leadingZeroes /\ leadingZero,
      hashed |-> Append(st.hashed, suffix)]

\* Mutant of HashLoop: the loop leaves once the phone has been assigned.
RECURSIVE HashLoopEarlyExit(_, _)
HashLoopEarlyExit(st, ascii) ==
  IF ascii = <<>> \/ ~st.leadingZeroes THEN st
  ELSE HashLoopEarlyExit(Step(st, ascii), Tail(ascii))

\* while let Some(leading_digit) = ascii_phone.get(0): one Step per
\* suffix, dropping the first byte each time.
RECURSIVE HashLoop(_, _)
HashLoop(st, ascii) ==
  IF ascii = <<>> THEN st
  ELSE HashLoop(Step(st, ascii), Tail(ascii))

\* hash_ascii_phone(phone, ascii).
HashAsciiPhone(phone, ascii) == HashLoop(Start(phone), ascii)

\* hash_query_phone(phone): the final loop state.
HashQueryPhone(phone) == HashAsciiPhone(phone, Render(phone, Digits))

-----------------------------------------------------------------------------
(* The reference of spec 4.2.                                              *)

\* The decimal form of n, without leading zeros.
RECURSIVE Decimal(_)
Decimal(n) == IF n < 10 THEN <<n>> ELSE Decimal(n \div 10) \o <<n % 10>>
=============================================================================
