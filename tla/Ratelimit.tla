------------------------------ MODULE Ratelimit ------------------------------
(***************************************************************************)
(* The per-client rate-limit state of the contact-discovery enclave        *)
(* (src/enclave/cds_enclave/src/service/main.rs): the process-wide         *)
(* RatelimitStateMap of per-uuid Mutex<Option<RatelimitState>> cells, the  *)
(* RatelimitState nonce and key, and the three paths that drive them:      *)
(* SgxsdServerState::update_ratelimit_state (a handle_call carrying a      *)
(* ratelimit uuid), the free function update_ratelimit_state, and          *)
(* delete_ratelimit_state.  Concurrent ecalls are threads.                 *)
(*                                                                         *)
(* The encrypted state lives in untrusted memory and the host is the       *)
(* adversary: every slab it hands in is the all-zero slab, garbage, or a   *)
(* ciphertext the enclave wrote out earlier (for any client).  AES-GCM is  *)
(* ideal: a ciphertext decrypts only under the key and IV (nonce) it was   *)
(* sealed with, and then yields exactly the plaintext sealed into it.      *)
(***************************************************************************)
EXTENDS Naturals, FiniteSets

CONSTANTS
  Uuids,        \* non-zero ratelimit_state_uuid values
  Phones,       \* hashed query phones
  Threads,      \* concurrent ecall threads
  NonceMax,     \* u32::MAX, the last nonce checked_add(1) can leave
  MaxCalls,     \* bound on the calls made; also bounds the keys drawn
  MaxQuery,     \* bound on the phones of one query
  PlaintextLen, \* bytes of the ratelimit plaintext (slab size minus MAC)
  UsizeMax,     \* usize::MAX
  U32Max,       \* u32::MAX as seen by set_size_limit
  MaxRestarts,  \* bound on enclave restarts
  NoState,      \* model value: an empty cell (None)
  NoThread,     \* model value: a free mutex
  NoCall        \* model value: a thread that has made no ecall yet

ASSUME NonceMax \in Nat \ {0} /\ MaxCalls \in Nat /\ MaxQuery \in Nat \ {0}

VARIABLES
  cells,     \* uuid -> NoState or [nonce, key]: the cell's Option<RatelimitState>
  inMap,     \* uuids that have an entry in RatelimitStateMap.hash_map
  owner,     \* uuid -> thread holding the cell's spin::Mutex, or NoThread
  pc,        \* thread -> where its ecall is
  call,      \* thread -> the ecall's kind, uuid, phones and the slab it read
  reply,     \* thread -> the result of its last ecall
  revealed,  \* uuid -> ciphertexts the enclave wrote to untrusted memory
  nextKey,   \* keys drawn by AesGcmKey::default() so far
  calls,     \* ecalls started so far
  restarts,  \* enclave restarts so far
  evalCount, \* history: <<key, nonce>> -> adds evaluated on that ciphertext
  gen        \* history: uuid -> fresh plaintexts started for the client

vars == <<cells, inMap, owner, pc, call, reply, revealed, nextKey, calls,
          restarts, evalCount, gen>>

RSD == INSTANCE RatelimitStateData

Keys == 1..MaxCalls
Nonces == 1..NonceMax

\* A ciphertext is the key and nonce it was sealed under and the plaintext.
\* The all-zero slab and an undecryptable slab use key 0, which no cell has.
\* The gen field is a history field, not part of the bytes.
Ciphertext == [key : {0} \cup Keys, nonce : 0..NonceMax,
               limit : 0..U32Max, set : SUBSET Phones, gen : 0..MaxCalls]
Zero == [key |-> 0, nonce |-> 0, limit |-> 0, set |-> {}, gen |-> 0]
Garbage == [key |-> 0, nonce |-> 1, limit |-> 0, set |-> {}, gen |-> 0]

Queries == {q \in SUBSET Phones : Cardinality(q) \in 1..MaxQuery}
Replies == {"none", "ok", "invalid_parameter", "invalid_state",
            "invalid_rate_limit_state",
            "rate_limit_exceeded", "unexpected", "lost"}
CallKinds == {"server", "free", "delete"}

\* The slabs the host may hand to the enclave.
HostSlabs == {Zero, Garbage} \cup UNION {revealed[u] : u \in Uuids}

\* The size limits RatelimitStateData::set_size_limit may draw.
FreshLimits == RSD!FreshSizeLimits(PlaintextLen)

\* Mutant of Decrypts: an IV that does not depend on the nonce.
DecryptsAnyNonce(c, s) == c.key = s.key

\* AesGcmKey::decrypt with the IV get_iv() derives from the cell's nonce.
Decrypts(c, s) == c.key = s.key /\ c.nonce = s.nonce

TypeOK ==
  /\ cells \in [Uuids -> {NoState} \cup [nonce : Nonces, key : Keys]]
  /\ inMap \subseteq Uuids
  /\ owner \in [Uuids -> Threads \cup {NoThread}]
  /\ pc \in [Threads -> {"idle", "read", "get", "lock", "update", "delete"}]
  /\ call \in [Threads -> {NoCall} \cup
                 [kind : CallKinds, uuid : Uuids, phones : SUBSET Phones,
                  enabled : BOOLEAN, slab : Ciphertext]]
  /\ reply \in [Threads -> Replies]
  /\ revealed \in [Uuids -> SUBSET Ciphertext]
  /\ nextKey \in 0..MaxCalls /\ calls \in 0..MaxCalls
  /\ restarts \in 0..MaxRestarts
  /\ evalCount \in [Keys \X Nonces -> 0..MaxCalls]
  /\ gen \in [Uuids -> 0..MaxCalls]

Init ==
  /\ cells = [u \in Uuids |-> NoState]
  /\ inMap = {}
  /\ owner = [u \in Uuids |-> NoThread]
  /\ pc = [t \in Threads |-> "idle"]
  /\ call = [t \in Threads |-> NoCall]
  /\ reply = [t \in Threads |-> "none"]
  /\ revealed = [u \in Uuids |-> {}]
  /\ nextKey = 0
  /\ calls = 0
  /\ restarts = 0
  /\ evalCount = [kn \in Keys \X Nonces |-> 0]
  /\ gen = [u \in Uuids |-> 0]

-----------------------------------------------------------------------------
(* Entry of an ecall.  A server call is handle_call with a decoded request *)
(* carrying a ratelimit uuid; enabled is whether that server instance was  *)
(* started with max_ratelimit_states > 0.  The free functions go straight  *)
(* to the global map.                                                      *)
Start(t) ==
  /\ pc[t] = "idle"
  /\ calls < MaxCalls
  /\ \E kind \in CallKinds, u \in Uuids, en \in BOOLEAN :
     \E q \in IF kind = "delete" THEN {{}} ELSE Queries :
       /\ (kind # "server" => en)
       /\ call' = [call EXCEPT ![t] = [kind |-> kind, uuid |-> u, phones |-> q,
                                       enabled |-> en, slab |-> Zero]]
       /\ pc' = [pc EXCEPT ![t] = IF kind = "server" THEN "read" ELSE "get"]
  /\ calls' = calls + 1
  /\ UNCHANGED <<cells, inMap, owner, reply, revealed, nextKey, restarts,
                 evalCount, gen>>

\* The encrypted slab and its MAC are copied out of untrusted memory: by the
\* server path before it looks up the cell, by the free function under the
\* cell's lock.  On the server path the slab may be shorter than the MAC or
\* not readable, and the call returns INVALID_RATE_LIMIT_STATE before it
\* touches the map.
ReadState(t) ==
  /\ pc[t] = "read"
  /\ \/ /\ \E c \in HostSlabs : call' = [call EXCEPT ![t].slab = c]
        /\ pc' = [pc EXCEPT ![t] = IF call[t].kind = "server" THEN "get"
                                                              ELSE "update"]
        /\ UNCHANGED reply
     \/ /\ call[t].kind = "server"
        /\ pc' = [pc EXCEPT ![t] = "idle"]
        /\ call' = [call EXCEPT ![t] = NoCall]
        /\ reply' = [reply EXCEPT ![t] = "invalid_rate_limit_state"]
  /\ UNCHANGED <<cells, inMap, owner, revealed, nextKey, calls, restarts,
                 evalCount, gen>>

\* The free functions' argument checks: a zero ratelimit_state_uuid gives
\* SGX_ERROR_INVALID_PARAMETER, and a slab shorter than the MAC gives
\* INVALID_RATE_LIMIT_STATE (update only), before the map is touched.
StartRejected(t) ==
  /\ pc[t] = "idle"
  /\ calls < MaxCalls
  /\ \E r \in {"invalid_parameter", "invalid_rate_limit_state"} :
       reply' = [reply EXCEPT ![t] = r]
  /\ calls' = calls + 1
  /\ UNCHANGED <<cells, inMap, owner, pc, call, revealed, nextKey, restarts,
                 evalCount, gen>>

\* RatelimitStateMap::get under the map's upgradeable read lock: find the
\* uuid's cell or insert an empty one.  Only one upgradeable reader runs at a
\* time, so find-or-insert is one step.  A server started without rate
\* limiting has no map and fails with SGX_ERROR_INVALID_STATE.
GetCell(t) ==
  /\ pc[t] = "get"
  /\ IF call[t].enabled
     THEN /\ inMap' = inMap \cup {call[t].uuid}
          /\ pc' = [pc EXCEPT ![t] = "lock"]
          /\ UNCHANGED <<call, reply>>
     ELSE /\ pc' = [pc EXCEPT ![t] = "idle"]
          /\ call' = [call EXCEPT ![t] = NoCall]
          /\ reply' = [reply EXCEPT ![t] = "invalid_state"]
          /\ UNCHANGED inMap
  /\ UNCHANGED <<cells, owner, revealed, nextKey, calls, restarts,
                 evalCount, gen>>

\* ratelimit_state_lock.lock() on the cell's spin::Mutex.
Lock(t) ==
  /\ pc[t] = "lock"
  /\ owner[call[t].uuid] = NoThread
  /\ owner' = [owner EXCEPT ![call[t].uuid] = t]
  /\ pc' = [pc EXCEPT ![t] = CASE call[t].kind = "server" -> "update"
                               [] call[t].kind = "free"   -> "read"
                               [] call[t].kind = "delete" -> "delete"]
  /\ UNCHANGED <<cells, inMap, call, reply, revealed, nextKey, calls,
                 restarts, evalCount, gen>>

\* The ecall returns with result r; the lock guard is dropped.
Return(t, r) ==
  /\ owner' = [owner EXCEPT ![call[t].uuid] = NoThread]
  /\ pc' = [pc EXCEPT ![t] = "idle"]
  /\ call' = [call EXCEPT ![t] = NoCall]
  /\ reply' = [reply EXCEPT ![t] = r]

\* update() fails before the nonce is touched; the cell keeps the state
\* get_or_insert_with installed.
Fail(t, s, r) ==
  /\ cells' = [cells EXCEPT ![call[t].uuid] = s]
  /\ Return(t, r)
  /\ UNCHANGED <<revealed, evalCount, gen>>

\* History: an add evaluated on the plaintext of slab c; a fresh plaintext
\* (all-zero slab) opens a new generation of the client's state.
Evaluate(u, c) ==
  /\ evalCount' = IF c = Zero THEN evalCount
                  ELSE [evalCount EXCEPT ![<<c.key, c.nonce>>] = @ + 1]
  /\ gen' = IF c = Zero THEN [gen EXCEPT ![u] = @ + 1] ELSE gen

\* encrypt() under the IV of state s and write_bytes to untrusted memory.
Seal(u, s, pt, set) ==
  revealed' = [revealed EXCEPT ![u] = @ \cup
                 {[key |-> s.key, nonce |-> s.nonce, limit |-> pt.limit,
                   set |-> set, gen |-> pt.gen]}]

\* Mutant of WriteBack: a failed write_bytes is not mapped to an error.
WriteBackIgnoresWriteError(t, u, s, pt, set) ==
  \/ /\ Seal(u, s, pt, set)
     /\ Return(t, "ok")
  \/ /\ call[t].kind = "server"
     /\ UNCHANGED revealed
     /\ Return(t, "ok")

\* The accepted state is written back: the free function copies it into the
\* caller's slice; the server path write_bytes the data and then the MAC to
\* untrusted memory, and either write may fail (SGX_ERROR_UNEXPECTED) after
\* the nonce was advanced, leaving the host no ciphertext under it.
WriteBack(t, u, s, pt, set) ==
  \/ /\ Seal(u, s, pt, set)
     /\ Return(t, "ok")
  \/ /\ call[t].kind = "server"
     /\ UNCHANGED revealed
     /\ Return(t, "unexpected")

\* Mutant of AddAndSeal: the nonce is advanced only once the add succeeded.
AddAndSealAfterAdd(t, s, pt, c) ==
  LET u == call[t].uuid
      s1 == [s EXCEPT !.nonce = s.nonce + 1]
  IN
  \/ /\ s.nonce = NonceMax
     /\ Fail(t, s, "invalid_rate_limit_state")
  \/ /\ s.nonce < NonceMax
     /\ Evaluate(u, c)
     /\ IF RSD!WithinLimit(pt.limit, pt.set, call[t].phones)
        THEN /\ cells' = [cells EXCEPT ![u] = s1]
             /\ WriteBack(t, u, s1, pt, RSD!AddedSet(pt.set, call[t].phones))
        ELSE /\ cells' = [cells EXCEPT ![u] = s]
             /\ UNCHANGED revealed
             /\ Return(t, "rate_limit_exceeded")

\* Mutant of AddAndSeal: the incremented nonce is never stored in the cell,
\* so get_iv() seals with the old one.
AddAndSealNoIncrement(t, s, pt, c) ==
  LET u == call[t].uuid IN
  \/ /\ s.nonce = NonceMax
     /\ Fail(t, s, "invalid_rate_limit_state")
  \/ /\ s.nonce < NonceMax
     /\ cells' = [cells EXCEPT ![u] = s]
     /\ Evaluate(u, c)
     /\ IF RSD!WithinLimit(pt.limit, pt.set, call[t].phones)
        THEN WriteBack(t, u, s, pt, RSD!AddedSet(pt.set, call[t].phones))
        ELSE /\ UNCHANGED revealed
             /\ Return(t, "rate_limit_exceeded")

\* Mutant of AddAndSeal: a plain add in place of checked_add(1).
AddAndSealUnchecked(t, s, pt, c) ==
  LET u == call[t].uuid
      s1 == [s EXCEPT !.nonce = s.nonce + 1]
  IN
  /\ cells' = [cells EXCEPT ![u] = s1]
  /\ Evaluate(u, c)
  /\ IF RSD!WithinLimit(pt.limit, pt.set, call[t].phones)
     THEN WriteBack(t, u, s1, pt, RSD!AddedSet(pt.set, call[t].phones))
     ELSE /\ UNCHANGED revealed
          /\ Return(t, "rate_limit_exceeded")

\* The tail of update() once the plaintext pt is known (decrypted slab c, or
\* a fresh one): advance the nonce (checked_add), RatelimitStateData::add,
\* and only within the limit encrypt and write back.
AddAndSeal(t, s, pt, c) ==
  LET u == call[t].uuid
      s1 == [s EXCEPT !.nonce = s.nonce + 1]
  IN
  \/ /\ s.nonce = NonceMax
     /\ Fail(t, s, "invalid_rate_limit_state")
  \/ /\ s.nonce < NonceMax
     /\ cells' = [cells EXCEPT ![u] = s1]
     /\ Evaluate(u, c)
     /\ IF RSD!WithinLimit(pt.limit, pt.set, call[t].phones)
        THEN WriteBack(t, u, s1, pt, RSD!AddedSet(pt.set, call[t].phones))
        ELSE /\ UNCHANGED revealed
             /\ Return(t, "rate_limit_exceeded")

\* With the cell locked: get_or_insert_with(Default) (nonce 1, fresh key),
\* then RatelimitState::update on the slab read earlier.  An all-zero slab
\* is a first use with a freshly drawn limit; any other slab must decrypt.
Update(t) ==
  LET u == call[t].uuid
      c == call[t].slab
      fresh == cells[u] = NoState
      s == IF fresh THEN [nonce |-> 1, key |-> nextKey + 1] ELSE cells[u]
  IN
  /\ pc[t] = "update"
  /\ nextKey' = IF fresh THEN nextKey + 1 ELSE nextKey
  /\ \/ /\ c = Zero
        /\ \E l \in FreshLimits :
             AddAndSeal(t, s, [limit |-> l, set |-> {}, gen |-> gen[u] + 1], c)
     \/ /\ c = Zero
        /\ Fail(t, s, "unexpected")
     \/ /\ c # Zero /\ Decrypts(c, s)
        /\ AddAndSeal(t, s, [limit |-> c.limit, set |-> c.set, gen |-> c.gen], c)
     \/ /\ c # Zero /\ ~Decrypts(c, s)
        /\ Fail(t, s, "invalid_rate_limit_state")
  /\ UNCHANGED <<inMap, calls, restarts>>

\* delete_ratelimit_state: the cell is set to None; its entry stays.
Delete(t) ==
  /\ pc[t] = "delete"
  /\ cells' = [cells EXCEPT ![call[t].uuid] = NoState]
  /\ Return(t, "ok")
  /\ UNCHANGED <<inMap, revealed, nextKey, calls, restarts, evalCount, gen>>

\* The enclave is destroyed and started again: the static map, its cells and
\* their keys are gone, in-flight ecalls never return.  The host keeps every
\* slab it was given.
Restart ==
  /\ restarts < MaxRestarts
  /\ restarts' = restarts + 1
  /\ cells' = [u \in Uuids |-> NoState]
  /\ inMap' = {}
  /\ owner' = [u \in Uuids |-> NoThread]
  /\ pc' = [t \in Threads |-> "idle"]
  /\ call' = [t \in Threads |-> NoCall]
  /\ reply' = [t \in Threads |-> IF pc[t] = "idle" THEN reply[t] ELSE "lost"]
  /\ UNCHANGED <<revealed, nextKey, calls, evalCount, gen>>

\* No further ecalls arrive.
Done ==
  /\ calls = MaxCalls
  /\ \A t \in Threads : pc[t] = "idle"
  /\ UNCHANGED vars

Next ==
  \/ \E t \in Threads :
       \/ Start(t) \/ StartRejected(t) \/ ReadState(t) \/ GetCell(t) \/ Lock(t)
       \/ Update(t) \/ Delete(t)
  \/ Restart
  \/ Done

Spec == Init /\ [][Next]_vars

-----------------------------------------------------------------------------
(***************************************************************************)
(* Properties.                                                             *)
(***************************************************************************)

\* Every ciphertext RatelimitState::update writes to untrusted memory is
\* sealed under an IV nonce larger than that of every ciphertext written
\* before it under the same key, across deletes, restarts and concurrent
\* ecalls: the nonce is advanced before encrypting and never wraps.
RevealedNoncesIncrease ==
  [][\A u \in Uuids : \A c \in revealed'[u] \ revealed[u] :
       \A v \in Uuids : \A d \in revealed[v] :
         d.key = c.key => d.nonce < c.nonce]_revealed

\* No ciphertext from untrusted memory is decrypted and has phones added to
\* it twice, even when the add is rejected: the nonce is advanced before the
\* add's outcome is revealed, so a host replaying a state with different
\* queries cannot learn which phones it holds from the accept/exceed result.
NoReplay == \A kn \in Keys \X Nonces : evalCount[kn] <= 1

\* The abstract state of a client: the plaintext sealed under its cell's
\* current key and nonce, if such a ciphertext was ever written out.
Current(u) ==
  LET live == IF cells[u] = NoState THEN {}
              ELSE {c \in revealed[u] : Decrypts(c, cells[u])}
  IN IF live = {} THEN NoState
     ELSE LET c == CHOOSE c \in live : TRUE
          IN [limit |-> c.limit, set |-> c.set, gen |-> c.gen]

Abs == INSTANCE RatelimitAbstract
         WITH rl <- [u \in Uuids |-> Current(u)], Limits <- FreshLimits

\* The enclave's rate-limit state implements RatelimitAbstract: whatever
\* slabs the host replays and however ecalls interleave, a client's set of
\* queried phones only grows through accepted queries, and only a reset from
\* an all-zero slab, a delete or a restart discards it.
AbstractSpec == Abs!Spec

\* Spec section 8, scenario 1: a fresh ratelimit state given one phone is
\* accepted (update succeeds) unless RdRand fails.
FreshSinglePhoneAccepted ==
  [][\A t \in Threads :
       ( /\ pc[t] = "update" /\ pc'[t] = "idle"
         /\ call[t].slab = Zero /\ cells[call[t].uuid] = NoState
         /\ Cardinality(call[t].phones) = 1
         /\ reply'[t] # "unexpected" ) => reply'[t] = "ok"]_vars
=============================================================================
