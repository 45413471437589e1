------------------------ MODULE MCRatelimitStateData ------------------------
(***************************************************************************)
(* Checks the size limit RatelimitState::update gives a fresh (all-zero)   *)
(* plaintext slab, for every slab length up to MaxLen, against the         *)
(* definition of spec section 4.3: a limit in [slots/2, slots) where slots *)
(* is the effective slot count, three quarters of the raw 8-byte slots.    *)
(***************************************************************************)
EXTENDS RatelimitStateData

CONSTANTS
  MaxLen,    \* largest plaintext slab length tried
  NoLimit    \* model value: set_size_limit failed

VARIABLES
  len,       \* length of the plaintext slab
  limit      \* size limit written into it, or NoLimit

vars == <<len, limit>>

\* The effective slot count as the spec defines it, for len >= 4.
SpecSlots(l) == (((l - 4) \div 8) * 3) \div 4

\* The limits set_size_limit(slot_count / 2, slot_count / 2) may write into
\* an all-zero slab of l bytes, or NoLimit when it fails.
Outcomes(l) == IF FreshSizeLimits(l) = {} THEN {NoLimit} ELSE FreshSizeLimits(l)

\* The first use of a slab of any length: clear, RatelimitStateData::new,
\* set_size_limit.
Init ==
  /\ len \in 0..MaxLen
  /\ limit \in Outcomes(len)

\* The slab is zeroed again (the client's state was deleted or lost) and
\* RatelimitState::update draws a new limit for it.
FreshState ==
  /\ limit' \in Outcomes(len)
  /\ UNCHANGED len

Next == FreshState

Spec == Init /\ [][Next]_vars

\* Every slab with at least two effective slots gets a limit in
\* [slots/2, slots), and a slab too short for the size-limit field gets
\* none: slot_count's wrapping subtraction and set_size_limit's saturating
\* constant-time remainder agree with the spec's definition.
FreshLimitInRange ==
  /\ len < 4 => limit = NoLimit
  /\ (len >= 4 /\ SpecSlots(len) >= 2) =>
        limit \in (SpecSlots(len) \div 2)..(SpecSlots(len) - 1)
=============================================================================
