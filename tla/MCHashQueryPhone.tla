--------------------------- MODULE MCHashQueryPhone ---------------------------
(***************************************************************************)
(* Checks hash_query_phone on every phone up to PhoneMax: the phone it     *)
(* leaves behind, and the hashing work it does.                            *)
(***************************************************************************)
EXTENDS HashQueryPhone

VARIABLES
  input,     \* the phone handed in
  phone,     \* the *phone the function writes to
  evaluated, \* the suffixes it hashed, in order
  hashed     \* the call has returned

vars == <<input, phone, evaluated, hashed>>

Init ==
  /\ input \in 0..PhoneMax
  /\ phone = input
  /\ evaluated = <<>>
  /\ hashed = FALSE

\* The rate-limited handle_call's loop calls hash_query_phone(query_phone).
Hash ==
  /\ ~hashed
  /\ LET st == HashQueryPhone(phone)
     IN /\ phone' = st.phone
        /\ evaluated' = st.hashed
  /\ hashed' = TRUE
  /\ UNCHANGED input

\* The phone has been replaced; nothing is left to do.
Done ==
  /\ hashed
  /\ UNCHANGED vars

Next == Hash \/ Done

Spec == Init /\ [][Next]_vars

\* A non-zero phone is replaced by the hash of "+" followed by its decimal
\* form without leading zeros, and phone 0 is left as it is: the
\* leading_zeroes Choice in hash_ascii_phone selects exactly the suffix that
\* starts at the first non-zero digit.
HashIsCanonical ==
  hashed =>
    IF input = 0 THEN phone = 0
    ELSE phone = Sha1Prefix(<<Plus>> \o Decimal(input))

\* The work does not depend on the phone: every call hashes Digits
\* suffixes, of lengths Digits down to 1, whatever the phone's length.
ConstantWork ==
  hashed =>
    /\ Len(evaluated) = Digits
    /\ \A i \in 1..Digits : Len(evaluated[i]) = Digits - i + 1
=============================================================================
