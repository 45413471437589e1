-------------------------- MODULE RatelimitAbstract --------------------------
(***************************************************************************)
(* What the rate-limit state of each client promises, with encryption,     *)
(* nonces, keys, locks and threads abstracted away.                        *)
(*                                                                         *)
(* A client either has no usable state (NoState: never initialised,        *)
(* deleted, lost in an enclave restart, or locked out after exceeding its  *)
(* limit), or a state holding its hidden limit and the set of phones it    *)
(* has queried.  The set only grows, one accepted query at a time; the     *)
(* only ways to shrink it are a reset from an all-zero slab, which draws a *)
(* fresh limit (and may fail to reach the client), and forgetting the      *)
(* state.  In particular no replay of an older ciphertext can bring back   *)
(* a smaller set.  gen numbers the fresh states a client was given, so     *)
(* that a state resurrected from an older one is told apart from a fresh   *)
(* state that happens to hold the same set.                                *)
(***************************************************************************)
EXTENDS Naturals, FiniteSets

CONSTANTS
  Uuids,       \* clients
  Phones,      \* hashed phones
  Queries,     \* the sets of phones one query may carry
  Limits,      \* size limits a fresh state may draw
  NoState      \* model value: no usable state

VARIABLES
  rl,          \* uuid -> NoState or [limit, set, gen]
  gen          \* uuid -> number of fresh states the client was given

vars == <<rl, gen>>

\* Adding the phones q to a state of limit l, set s and generation g:
\* accepted below the limit, otherwise the client is left without a state.
Accept(l, s, q, g) ==
  IF Cardinality(s \cup q) < l THEN [limit |-> l, set |-> s \cup q, gen |-> g]
                              ELSE NoState

Init ==
  /\ rl = [u \in Uuids |-> NoState]
  /\ gen = [u \in Uuids |-> 0]

\* A query against a fresh state with a freshly drawn limit.
Reset(u, q) ==
  /\ gen' = [gen EXCEPT ![u] = @ + 1]
  /\ \E l \in Limits : rl' = [rl EXCEPT ![u] = Accept(l, {}, q, gen[u] + 1)]

\* A query against the client's current state.
Add(u, q) ==
  /\ rl[u] # NoState
  /\ rl' = [rl EXCEPT ![u] = Accept(rl[u].limit, rl[u].set, q, rl[u].gen)]
  /\ UNCHANGED gen

\* A fresh state is drawn for the client but never reaches it.
ResetLost(u) ==
  /\ gen' = [gen EXCEPT ![u] = @ + 1]
  /\ rl' = [rl EXCEPT ![u] = NoState]

\* The client's state is dropped.
Forget(u) ==
  /\ rl' = [rl EXCEPT ![u] = NoState]
  /\ UNCHANGED gen

\* Every client's state is dropped at once.
ForgetAll ==
  /\ rl' = [u \in Uuids |-> NoState]
  /\ UNCHANGED gen

Next ==
  \/ \E u \in Uuids, q \in Queries : Reset(u, q) \/ Add(u, q)
  \/ \E u \in Uuids : ResetLost(u) \/ Forget(u)
  \/ ForgetAll

Spec == Init /\ [][Next]_vars
=============================================================================
