----------------------------- MODULE MCRatelimit -----------------------------
(* Model-checking instance of Ratelimit: small sets of clients, phones and  *)
(* threads; integer widths scaled down so that nonce exhaustion is reached. *)
EXTENDS Ratelimit, TLC

\* Threads and phones are interchangeable model values.
Symmetry == Permutations(Threads) \cup Permutations(Phones)
=============================================================================
