# TLA+ models of the contact-discovery enclave service

These modules model `src/enclave/cds_enclave/src/service/main.rs`, the enclave-side
service of ContactDiscoveryService, and check them with TLC. The service has two
jobs. First, it batches contact queries from many clients and answers them with one
oblivious lookup. Second, it keeps a per-client rate-limit state. That state is
encrypted by the enclave but stored in untrusted host memory.

## 1. The system

| Part | Code (main.rs) | State | Operations |
|------|----------------|-------|------------|
| C1 constant-time primitives | cttk `CtU64`, `subtle` | none | remainder, selection |
| C2 phone hashing | `hash_query_phone` 568-616 | none (pure) | 20 SHA-1 evaluations, constant-time pick |
| C3 RatelimitSet | C code outside src/ | slot bytes | `ratelimit_set_add`, `ratelimit_set_size` |
| C4 RatelimitStateData | 467-529 | plaintext slab: u32 limit + slots | `slot_count`, `set_size_limit`, `add` |
| C5 RatelimitState | 417-465 | `nonce: NonZeroU32`, `key` | `update`, `get_iv`, `Default` |
| C6 RatelimitStateMap | 379-411 | global `spin::Once` map uuid -> `Arc<Mutex<Option<RatelimitState>>>` | `global`, `get` (find-or-insert) |
| free functions | 95-136 | none | `update_ratelimit_state`, `delete_ratelimit_state` |
| C7 request decoder | 143-198, 535-560 | none | `decode_request`, `verify_commitment` |
| C8 server | 200-341 | `requests`, `query_phones` accumulator, map handle | `init`, `handle_call`, `terminate` |
| C9 hash_lookup | C code outside src/ | none | chunked oblivious lookup |
| C10 zeroisation | 354-360 | secret buffers | `Drop` |

### How the parts interact

Each ecall is a thread. A `handle_call` that carries a ratelimit uuid goes to
`SgxsdServerState::update_ratelimit_state`, which proceeds in this order:

1. It reads the slab from untrusted memory (lines 206-224).
2. It finds or inserts the uuid's cell in the global map (lines 226-228).
3. It locks the cell and installs a default `RatelimitState` if the cell is empty (lines 229-231).
4. It runs `RatelimitState::update`.
5. It writes the new ciphertext back (lines 240-246).

The free function `update_ratelimit_state` does the same steps in a different
order: it locks first and reads the slab under the lock (lines 111-117).
`delete_ratelimit_state` empties the cell but leaves the map entry in place.

`update` works as follows:

- **Fresh state.** An all-zero slab is treated as a fresh state. The size limit comes from `set_size_limit(slots/2, slots/2)`.
- **Existing state.** Any other slab must decrypt under the cell's key, using an IV built from its nonce.
- **Nonce.** The nonce is advanced with `checked_add` *before* the add's outcome is known (line 446).
- **Add.** The add is then accepted or rejected with `RATE_LIMIT_EXCEEDED`.
- **Write-back.** Only an accepted add is sealed and written back.

A `handle_call` without a ratelimit uuid appends its phones to the accumulator
and pushes a `PendingRequest`. `terminate` then:

- overflow-checks its sizes;
- runs `hash_lookup` over chunks of `MAX_HASH_TABLE_SIZE` phones;
- splits the results among the requests in FIFO order and replies to each one.

### What is hard here

- **The host is an adversary.** It may hand in any slab it has ever seen, for any client, any number of times. It may also retry a call.
- **Concurrent ecalls on one uuid.** Server, free and delete calls interleave around the cell's spin mutex. The server path reads the slab *before* it takes the lock.
- **Lost state.** An enclave restart loses every key, but the host keeps its slabs.
- **Numeric edges.** The nonce can overflow at `u32::MAX`. `len - 4` in `slot_count` can wrap. The 3/4 load factor applies to the slot count. `range = 0` in the constant-time remainder gives NaN. The batch size checks for overflow with `checked_mul`.
- **Batch replies.** FIFO splitting of chunked lookup results, and a failing reply that aborts `terminate`.
- **Declared versus actual sizes.** The capacity check trusts the declared `query_phone_count`. The phones appended come from the query's byte size. Only the size checks (lines 155-164) tie the two together.
- **Failures after the nonce moved.** The server path's write-back to untrusted memory can fail after `update` has advanced the nonce.

### Correctness properties

- **Nonces only increase.** Every ciphertext revealed under a key has a larger nonce than every earlier one under that key (spec §4.4 and §8).
- **No double evaluation.** No ciphertext is ever evaluated twice. Otherwise accept/exceed results for different queries against one state would leak its contents (comment at line 445).
- **Queried phones only grow.** A client's set of queried phones grows only through accepted queries. Only a fresh all-zero slab, a delete or a restart discards it. Replays cannot roll it back (the abstract spec `RatelimitAbstract`).
- **Limit range.** A fresh slab's limit lies in `[slots/2, slots)` (spec §4.3 and §8).
- **Batch replies.** Every caller answered by `terminate` gets exactly its own phones' results, in order (spec §8). The accumulator matches the pending requests.
- **Batch order.** `terminate` answers parked callers in arrival order, up to the first failed reply (the abstract spec `BatchAbstract`).
- **An empty reply means recorded.** A ratelimit call answered with an empty reply has had its phones written into a ciphertext handed to the host. A failure of `update_ratelimit_state`, including the write-back to untrusted memory after the nonce moved, reaches the caller as an error.
- **Phone hashing.** `hash_query_phone` gives the hash of the canonical decimal, and always does the same hashing work (spec §4.2 and §8).

## 2. Modules

| Module | Models | State / actions |
|--------|--------|-----------------|
| `RatelimitStateData` | C4, with C3 abstracted to a set | pure operators: `SlotCount` (usize wrap, saturating multiply, `as u32`), `SizeLimits` (remainder, NaN for range 0, saturating add), `FreshSizeLimits`, `WithinLimit` |
| `Ratelimit` | C5, C6, the free functions, the ratelimit branch of C8 | `cells` (the `Option<RatelimitState>`s), `inMap`, `owner` (mutexes), per-thread `pc`/`call`/`reply`, `revealed` (ciphertexts written to untrusted memory), `nextKey`; history variables `evalCount` and `gen`. Actions: `Start` (an ecall of kind server, free or delete), `StartRejected` (a free function's argument check fails), `ReadState`, `GetCell`, `Lock`, `Update` (the whole of `RatelimitState::update` plus the write-back or error return), `Delete`, `Restart`, `Done` |
| `RatelimitAbstract` | what C5/C6 promise | per client `NoState` or `[limit, set, gen]`; `Reset`, `ResetLost`, `Add`, `Forget`, `ForgetAll` |
| `MCRatelimit` | TLC instance of `Ratelimit` | |
| `MCRatelimitStateData` | TLC driver of `RatelimitStateData` | `len`, `limit`; `FreshState` re-draws the limit of a zeroed slab |
| `SgxsdServer` | C7, C8 (one server), C9's contract | `phase`, `capacity`, `rlEnabled`, `queryPhones`, `requests`, per-call `outcome`; history `sent`. Actions: `InitServer`, `CallRejected`, `CallRatelimited`, `CallQueued`, `TerminateRejected`, `TerminateLookupFailed`, `TerminateReplied`, `Done`. Pure RECURSIVE operators `Chunks`, `LookupChunks`, `SplitReplies` |
| `BatchAbstract` | what one C8 server promises its callers | `phase`, `capacity`, per-call `outcome` and `sent`; `Open`, `Refuse`, `Park`, `Close(r)`, `CloseFailed` |
| `CdsEnclave` | C8 composed with C5/C6 | `Ratelimit` and `SgxsdServer` instanced with their variables (`calls` renamed per module), plus `pending` (the uuid and phones of the ratelimit call in flight, or `NoCall`). Actions: `ServerStep` (any server action except the ratelimit branch), `RatelimitCallStart`, `RatelimitCallReturn`, `RatelimitStep` (any thread's ecall step), `Done` |
| `MCCdsEnclave` | TLC instance of `CdsEnclave` | a two-phone directory |
| `MCSgxsdServer` | TLC instance of `SgxsdServer` | a two-phone directory |
| `HashQueryPhone` | C2 | pure operators `Render`, `Step`, `HashLoop`, `HashQueryPhone`; the reference `Decimal` |
| `MCHashQueryPhone` | TLC driver of `HashQueryPhone` | `input`, `phone`, `evaluated`; `Hash` applies `hash_query_phone` once |

### How `Ratelimit` corresponds to the code

- **Thread steps.** A thread's steps follow the code's lock boundaries.
  - The server path runs `read` -> `get` -> `lock` -> `update`.
  - The free path runs `get` -> `lock` -> `read` -> `update`.
  - Delete runs `get` -> `lock` -> `delete`.
- **Early errors.** `StartRejected` is a free function that returns on a zero uuid or a slab shorter than the MAC. `ReadState` on the server path may fail to read the slab and return `INVALID_RATE_LIMIT_STATE`. Neither touches the map.
- **`GetCell` is one step.** `RatelimitStateMap::get` runs entirely under the upgradeable lock, so the find-or-insert is modelled as a single step. It fails with `SGX_ERROR_INVALID_STATE` when the server was initialised with `max_ratelimit_states = 0`.
- **`Update` is one step under the cell's mutex.** It covers `get_or_insert_with(Default)`, which draws a fresh key with nonce 1, and then every branch of `update`:
  - an all-zero slab, which draws a limit or fails on RdRand;
  - a decrypting slab;
  - a non-decrypting slab, which gives `INVALID_RATE_LIMIT_STATE`;
  - nonce overflow;
  - an accepted add, which is sealed and added to `revealed` (`WriteBack`). On the server path, either `write_bytes` may also fail with `SGX_ERROR_UNEXPECTED` after the nonce was advanced. Nothing is then revealed under the new nonce, and the client's state is lost (`ResetLost` or `Forget` in the abstract spec);
  - an exceeded add.

  Each branch ends with the error return or the write-back, and with the unlock.
- **Ciphertexts.** A ciphertext is a record `[key, nonce, limit, set, gen]`. AES-GCM is ideal: `Decrypts(c, s)` holds exactly when the key and nonce match. The host's choices are `HostSlabs`, which contains `Zero`, `Garbage` and everything in `revealed`.
- **`Restart`.** It models the enclave being torn down: the map and all keys are lost, and in-flight calls get no reply.

### How `CdsEnclave` composes them

- **The server's thread.** `RL == INSTANCE Ratelimit WITH Threads <- {Dispatcher} \cup Others, ...` makes the server's dispatching thread one of `Ratelimit`'s threads.
- **The ratelimit branch.** `RatelimitCallStart` is `RL!Start(Dispatcher)`, constrained to a server ecall with the server's own `rlEnabled` and a phone count that passes `ExceedsCapacity`. The server then waits (`pending # NoCall`) while `RatelimitStep` interleaves that thread's steps with the other threads' ecalls.
- **The answer.** `RatelimitCallReturn` answers the call through `Srv!Answer`: empty on `ok`, otherwise an error.
- **Sequential server.** Every other server action (`ServerStep`) needs `pending = NoCall`, because the server is owned by the thread that is blocked in the call.
- **No restarts.** A restart would end the server as well, so this instance has none (`MaxRestarts <- 0`).

### How `SgxsdServer` corresponds to the code

- **Sequential calls.** A server is owned by the thread dispatching it (spec §5), so each of `init`, `handle_call` and `terminate` is one action.
- **`handle_call`** has three outcomes:
  - `CallRejected`: null args, or any `decode_request` error. The host chooses every byte, so any call can be malformed.
  - `CallRatelimited`: the ratelimit branch. It gives `INVALID_STATE` without the map; otherwise an empty reply or the error `Ratelimit` models.
  - `CallQueued`: the phones are appended and a `PendingRequest` is pushed. The host picks `query.size` from `QuerySizes`. `SizeMatches` holds the size checks of lines 155-164. `DecodedCount` is the length of `RequestPhoneList`'s `chunks_exact` iterator, and that length decides how many phones are appended and what `request_phone_count` becomes.

  `ExceedsCapacity` (line 144) guards both successful branches. It is checked before anything else, so a full accumulator refuses ratelimit calls too.
- **`terminate`** has three outcomes:
  - `TerminateRejected`: null args, a `checked_mul` overflow, or a bad slice. Every parked `MsgFrom` is dropped.
  - `TerminateLookupFailed`: a `hash_lookup` error.
  - `TerminateReplied`: the buffer is filled chunk by chunk (`LookupChunks` zips `Chunks` of the phones with `ResultChunks` of the buffer), split by `SplitReplies` in push order, and replied to until one reply fails. The replies before it are delivered; the failing one is lost; the ones after it are dropped.
- **Refinement.** `Batch == INSTANCE BatchAbstract` maps every variable to the one of the same name. `queryPhones`, `requests` and `rlEnabled` are hidden. `BatchSpec` says the server's calls, answers and terminate are steps of `BatchAbstract`.
- **`hash_lookup`** is modelled from spec §4.8, since its code is not under src/: each phone's uuid in a fixed directory, or the zero uuid.

## 3. Runs

| Run | Cfg | Expect | Checks |
|-----|-----|--------|--------|
| `ratelimit` | `MCRatelimit.cfg` | pass | `TypeOK`, `NoReplay`, `RevealedNoncesIncrease`, `AbstractSpec` |
| `ratelimit_two_clients` | `MCRatelimitTwoClients.cfg` | pass | `AbstractSpec` |
| `ratelimit_fresh_scenario` | `MCRatelimitScenario.cfg` | violation | `FreshSinglePhoneAccepted` |
| `fresh_size_limit` | `MCRatelimitStateData.cfg` | pass | `FreshLimitInRange` |
| `enclave_composition` | `MCCdsEnclave.cfg` | pass | `EmptyReplyMeansRecorded` |
| `server_batch` | `MCSgxsdServer.cfg` | pass | `TypeOK`, `RepliesMatchQueries`, `BatchConsistent`, `BatchSpec` |
| `hash_query_phone` | `MCHashQueryPhone.cfg` | pass | `HashIsCanonical`, `ConstantWork` |

**`ratelimit`** runs two threads on one client with two phones. The bounds are:

- Calls: at most 4 ecalls, each one of kind server, free or delete.
- Nonce: `NonceMax = 4`, so the nonce reaches its ceiling within the call budget and the overflow path runs.
- Restarts: 1.
- Write-backs: every server-path write-back may fail.
- Slab: a 52-byte plaintext, so the fresh limit is 2 or 3 and both accept and exceed happen.

With the symmetry of threads and of phones (`SYMMETRY Symmetry`, sound for these safety properties), the run explores about 740,000 distinct states in about a minute. It exercises these sequences:

- two concurrent updates racing for one slab;
- a delete between a server thread's read and its lock;
- a replay of every older ciphertext;
- a restart with calls in flight;
- nonce overflow.

The properties:

- `NoReplay` says that no `<<key, nonce>>` is evaluated by `add` twice.
- `RevealedNoncesIncrease` says that each new ciphertext has a nonce larger than all earlier ones under its key.
- `AbstractSpec` says that the refinement mapping `Current(u)`, the plaintext of the live ciphertext matching the cell, is a behaviour of `RatelimitAbstract`. This rules out rollback of the queried set by replay. The `gen` history field makes sure a resurrected older state is not mistaken for a reset.

**`ratelimit_two_clients`** checks `AbstractSpec` again on a wider instance: two clients and two threads, `NonceMax = 3`, at most 3 calls and one restart, with symmetry. Here one client's slabs can be replayed to the other, and threads on different cells interleave. It explores about 310,000 states in about half a minute.

**`ratelimit_fresh_scenario`** runs spec §8 scenario 1: an all-zero 52-byte slab (36 plaintext bytes) given one phone. The spec expects success with L in [2,4). The code computes 4 raw slots, then `4*3/4 = 3` effective slots, then `set_size_limit(1, 1)`, so L = 1. One phone is then `RATE_LIMIT_EXCEEDED`, and TLC finds it in 6 steps. The same scenario also says the first IV is `01…`. The code advances the nonce to 2 before sealing, which is what scenario 2 says.

**`fresh_size_limit`** checks every plaintext length from 0 to 160 bytes. Lengths below 4 would wrap `len - 4` in `slot_count`, but `set_size_limit`'s bounds check (486-490) then fails, so the wrapped value is never used. `FreshSizeLimits` gives such lengths no limit without evaluating `SlotCount`, and the run checks exactly that outcome. Lengths 4-27 give range 0, the NaN case, which draws any u32. The rest give ranges up to 7. The property is that a slab shorter than 4 bytes gets no limit, and a slab with at least 2 effective slots gets a limit in `[slots/2, slots)`, with slots computed as the spec defines them.

**`enclave_composition`** composes one server with the map. The server's ratelimit calls run as server ecalls of its dispatching thread `d`, while thread `t1` makes free, delete or server ecalls on the same client. The bounds are at most 3 ecalls and 2 handle_calls, `NonceMax = 2`, capacities 0 and 2, and the map present or absent. It explores about 390,000 states in about 20 seconds. `EmptyReplyMeansRecorded` is an action property: whenever the server gives a ratelimit call an empty reply, some ciphertext the host holds for that client has a set containing the call's phones. It takes the other thread's steps, a failed write-back, a nonce overflow or a rejected slab to violate, and it ties `SgxsdServer`'s reply to `Ratelimit`'s `revealed`.

**`server_batch`** checks one server with up to 4 calls of 1 or 2 phones from {p1, p2}. The bounds are chosen so the interesting cases happen:

- `MAX_HASH_TABLE_SIZE = 2`, so batches of 3 to 5 phones span 2 or 3 chunks, the last one short.
- Capacities 0 (the zero-batch test), 3 (a second two-phone call does not fit) and 5.
- A usize of 255, so `in_phone_count` 16 overflows only the uuid size and 32 overflows both.
- Query sizes 24 (shorter than the commitment nonce), 36 (a ragged phone), and 32, 40, 48 and 56 (zero to three phones). So the declared count and the size disagree in both directions.

The run explores 28,669 states. The properties:

- `RepliesMatchQueries`: every caller answered with data gets exactly the directory's uuids for its own phones, in order. This holds across chunk boundaries and for every reply failure.
- `BatchConsistent`: the accumulator holds at most `capacity` phones, exactly the sum of the pending counts, and the parked callers are exactly the pending requests. This is also what keeps the `split_at_mut` at line 335 from panicking.
- `BatchSpec`: the server refines `BatchAbstract`. Answers are final. Parks stay within capacity. `terminate` answers the parked callers in arrival order up to the first failed reply, and nobody after it.

**`hash_query_phone`** checks every phone from 0 to 9999 rendered in 4 digits. This mirrors u64 in 20 digits: the longest phones fill the rendering, and 0 is all zeros. The properties:

- `HashIsCanonical`: the result is the hash of `+` and the decimal form without leading zeros, and 0 is left unchanged.
- `ConstantWork`: every call hashes exactly 4 suffixes, of lengths 4, 3, 2 and 1.

Each property of a passing run has a mutant in `PROJECT.json`: a plausible bug in the mapped code that TLC shows the property catches.

- `AddAndSealAfterAdd` advances the nonce only on success. `NoReplay` catches it.
- `AddAndSealNoIncrement` seals with the old nonce. `RevealedNoncesIncrease` catches it.
- `AddAndSealUnchecked` drops the overflow check. `TypeOK` catches it.
- `DecryptsAnyNonce` ignores the IV. `AbstractSpec` catches it.
- `SlotCountNoLoadFactor` drops the 3/4 factor. `FreshLimitInRange` catches it.
- `HashLookupNoOffset` writes each chunk's results at the start of the buffer. `RepliesMatchQueries` catches it.
- `ExceedsCapacityOffByOne` lets one phone too many in. `BatchConsistent` catches it.
- `ExceedsCapacityNoZero` lets `query_phone_count` 0 in. `TypeOK` catches it.
- `StepLeadingZeroesFirst` updates `leading_zeroes` before forming the choice. `HashIsCanonical` catches it.
- `HashLoopEarlyExit` stops hashing once the phone is assigned. `ConstantWork` catches it.
- `DispatchReversed` replies from the last request back. `BatchSpec` catches it, although every caller that is answered still gets its own data.
- `SizeMatchesNoCount` drops the comparison of the size with `query_phone_count`. `BatchConsistent` catches it: the accumulator overfills.
- `DecryptsAnyNonce` is checked again under `ratelimit_two_clients`.
- `RatelimitCallReturnSwallowsError` answers a ratelimit call with an empty reply whatever `update_ratelimit_state` returned. `EmptyReplyMeansRecorded` catches it.
- `WriteBackIgnoresWriteError` returns Ok from a server ecall whose write-back of the new ciphertext failed. `EmptyReplyMeansRecorded` catches it.

### Fairness

No run assumes fairness, and no liveness property is claimed. `spin::Mutex` and the upgradeable `RwLock` are unfair: a thread may lose every race, so "every ecall eventually returns" does not hold. Starting ecalls and `terminate` are the host's choice. Releasing a cell's lock is not a property either. `MutexGuard` drops it on every return path, so it holds by construction of the Rust code.

`Done` lets a finished run stutter. Deadlock checking is on, so a state where threads wait on each other forever would still be reported.

### Widths

`UsizeMax = 65535` and `U32Max = 255` keep the arithmetic at fixed width. They are parameters, not the real `2^64-1` and `2^32-1`. The wrap in `slot_count` and the truncation are modelled exactly at those widths.

## 4. Plan

Done:

- `RatelimitStateData`;
- `Ratelimit`, which refines `RatelimitAbstract`;
- `SgxsdServer`, which refines `BatchAbstract`;
- `CdsEnclave`, the composition of the two;
- `HashQueryPhone`.

Possible further work:

1. **Several servers in `CdsEnclave`.** Each server would be a function of server to `SgxsdServer` state. The map is already shared with the other threads' server ecalls, so this would add mostly state.
2. **Larger `Ratelimit` instances.** Queries of two phones pass, but take 2.2 million states and 3 minutes. That is too close to the time limit to be a standing run, so `MaxQuery = 1` is kept. With a 52-byte slab, exceeding the limit still happens through repeated one-phone queries.

## 5. Not modelled

- **Cryptography.** AES-GCM, SHA-1 and SHA-256 are ideal or symbolic.
- **Side channels.** The constant-time behaviour of C1 and `hash_lookup` is not a state property. `ConstantWork` checks only the amount of hashing.
- **`decode_request`'s byte checks.** The checks on the key length, the slice, the MAC and the commitment are abstracted to "the host may send a malformed call" (`CallRejected`). The capacity and size checks are kept.
- **C10 zeroisation.** It has no control flow.
- **Map capacity and memory growth.** They are not bounded by anything TLC could check.
- **The true value of NaN to u64 in cttk.** It is modelled as any u32.
- **`encrypt`'s `?` (line 452).** Sealing is ideal AES-GCM and never fails. If it did, the nonce would already have moved and nothing would be revealed, which `NoReplay` and `AbstractSpec` allow.
- **`add`'s length check (lines 507-509).** A fresh slab shorter than 4 bytes fails `set_size_limit` (486-490) first. A slab that decrypts was sealed by this enclave from one that passed, so under ideal AES-GCM this branch is never taken.
- **Tests.** Lines 618-893.
